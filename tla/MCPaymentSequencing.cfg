SPECIFICATION Spec
CONSTANTS
    Names <- TwoPeople
    Fold <- MCFold
    Blank = Blank
    Milestones = {m1}
    Handlers = {r1, r2}
    AmountInputs <- TwoAmounts
    RetentionInputs <- OneRetention
    MilestoneStatus = {"Pending", "Paid"}
    Currencies = {"UGX", "USD"}
    ContractCurrency = "USD"
    EventsOn = TRUE
    Faults = TRUE
    MaxEvents = 3
    NoRow = NoRow
PROPERTY
    StageSequencing
CHECK_DEADLOCK FALSE
