SPECIFICATION Spec
CONSTANTS
    Names <- MCNames
    Fold <- MCFold
    Blank = Blank
    Milestones = {m1}
    Handlers = {r1}
    AmountInputs <- TwoAmounts
    RetentionInputs <- ManyRetentions
    MilestoneStatus = {"Pending", "Paid"}
    Currencies = {"UGX", "USD"}
    ContractCurrency = "UGX"
    EventsOn = TRUE
    Faults = TRUE
    MaxEvents = 2
    NoRow = NoRow
PROPERTY
    PromiseKept
CHECK_DEADLOCK FALSE
