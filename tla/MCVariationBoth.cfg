SPECIFICATION BothSpec
CONSTANTS
    Names <- SomePeople
    Fold <- MCFold
    Blank = Blank
    Variations <- Both
    Contracts <- OneContract
    On <- OnOne
    Handlers = {r1, r2}
    Amounts <- PlusOnly
    Values <- StartValue
    Edits = FALSE
    Faults = TRUE
    Serialized = FALSE
    MaxValue = 20
    NoRow = NoRow
SYMMETRY HandlerSymmetry
INVARIANTS
    TypeOK
    VariationFourEyes
    SignaturesMatchStatus
    ValueAccountsSerially
CHECK_DEADLOCK FALSE
