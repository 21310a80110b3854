SPECIFICATION FairSpec
CONSTANTS
    Names <- TwoPeople
    Fold <- MCFold
    Blank = Blank
    Milestones = {m1}
    Handlers = {r1, r2}
    AmountInputs <- OneAmount
    RetentionInputs <- OneRetention
    MilestoneStatus = {"Pending", "Paid"}
    Currencies = {"UGX", "USD"}
    ContractCurrency = "UGX"
    EventsOn = TRUE
    Faults = FALSE
    MaxEvents = 2
    NoRow = NoRow
PROPERTY
    PaidReachesMilestone
CHECK_DEADLOCK FALSE
