SPECIFICATION DeliverySpec
CONSTANTS
    MaxRows = 2
    Publishers = {p1, p2}
    Batch = 2
    Outages = TRUE
    Crashes = TRUE
    LeaseHolds = FALSE
    Jobs = {"J1", "J2"}
    MilestoneDays = {0, 1}
    LastDay = 1
    WithinDays = 0
    MaxMilestones = 2
    NoMilestone = NoMilestone
INVARIANTS
    DeliveryHonest
    RemindedOnce
PROPERTY
    Drained
CHECK_DEADLOCK FALSE
