SPECIFICATION MCSpec
CONSTANTS
    Contracts = {c1}
    Docs = {d1}
    Handlers = {r1, r2}
    ChatOn = TRUE
    Imports = TRUE
    Faults = TRUE
    Created = {"Draft", "Approved", "Completed"}
    MaxTrail = 2
    NoRow = NoRow
    Gone = Gone
    Importers = {i1, i2}
    Clerks = {k1}
    Tracker <- MCTracker
    Verified <- MCVerified
    Consultancy <- MCConsultancy
    NewName = "bolt"
    TypedTexts = {"", "stopped"}
    TypedExecs = {"Paused"}
    TypedStatuses = {"Approved"}
    MaxRows = 2
    MaxEdits = 2
SYMMETRY Symmetries
INVARIANTS
    MonthTypeOK
    TrailExplainsStatus
    NothingLostUnlessOverlapped
    StatusSurvives
    OneInvoicePerRow
    ImportDelivers
PROPERTY
    StatusFollowsLifecycle
CHECK_DEADLOCK FALSE
