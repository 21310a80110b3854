SPECIFICATION Spec
CONSTANTS
    Names <- MachineOnly
    Fold <- MCFold
    Blank = Blank
    Variations = {v1}
    Contracts <- OneContract
    On <- OnOne
    Handlers = {r1, r2}
    Amounts <- PlusAndMinus
    Values <- StartValue
    Edits = FALSE
    Faults = FALSE
    Serialized = FALSE
    MaxValue = 100
    NoRow = NoRow
SYMMETRY HandlerSymmetry
INVARIANT
    ValueAccounts
CHECK_DEADLOCK FALSE
