SPECIFICATION Spec
CONSTANTS
    Names <- MCNames
    Fold <- MCFold
    Blank = Blank
    Milestones = {m1}
    Handlers = {r1, r2}
    AmountInputs <- GoodAndBadAmount
    RetentionInputs <- TwoRetentions
    MilestoneStatus = {"Pending", "Paid"}
    Currencies = {"UGX", "USD"}
    ContractCurrency = "UGX"
    EventsOn = TRUE
    Faults = TRUE
    MaxEvents = 3
    NoRow = NoRow
SYMMETRY HandlerSymmetry
INVARIANTS
    TypeOK
    PaymentFourEyes
    CursorMatchesHistory
    AuthorizedIsInstructed
    PayableAgrees
PROPERTY
    AnnouncementMatchesRow
CHECK_DEADLOCK FALSE
