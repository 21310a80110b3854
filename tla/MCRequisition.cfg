SPECIFICATION MCSpec
CONSTANTS
    Names <- People
    Fold <- MCFold
    Blank = Blank
    Requisitions = {q1}
    Contracts = {c1, c2}
    Numbers = {n1, n2}
    Estimates <- MCEstimates
    Handlers = {r1, r2}
    Renames = TRUE
    Faults = TRUE
    NoRow = NoRow
    Editors = {e1, e2}
    Codes = {k1, k2, k3}
    Charges = {g1, g2}
    Deals = {d1, d2}
    Duties = {o1}
    DutyTexts = {"Compliant", "late", "Waived"}
    Items = {"finalAccount"}
    Rules = {a1, a2, a3}
    Bounds = {0, 1, 3}
    Figures = {0, 1, 2, 3}
    Widest = 100
    MaxLines = 2
    NoRecord = NoRecord
SYMMETRY Symmetries
INVARIANTS
    TypeOK
    RequisitionFourEyes
    RequisitionStory
    OneContractAtATime
    ConversionWhole
    ChargedRight
    DecisionsKept
    RouteNarrowest
CHECK_DEADLOCK FALSE
