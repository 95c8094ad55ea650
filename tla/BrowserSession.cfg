SPECIFICATION Spec
CONSTANTS
    None = None
    open = open
    synced = synced
    repeater = repeater
    column = column
    v1 = v1
    v2 = v2
    e1 = e1
    e2 = e2
    Account = {a1, a2}
    Browser = {"here", "elsewhere"}
    Identity <- MCIdentity
    Scalar <- MCScalar
    Repeater = {repeater}
    Rep = repeater
    Subfield = {column}
    Parent <- MCParent
    Value = {v1, v2}
    Row = {1, 2}
    MaxRows = 2
    EgovField = {synced}
    UnlockGoogle = TRUE
    InOrder = TRUE
    Settled = TRUE
    Patient = TRUE
    Page <- MCAllPages
    MaxNet = 2
    MaxEdits = 3
    MaxMoves = 3
SYMMETRY MCSymmetry
INVARIANTS
    ShownIsStored
    KeptIsStored
    OwnWords
    ListIsCurrent
    OneAccountPerIdentity
    EgovValuesStand
PROPERTY SameAccount
CHECK_DEADLOCK FALSE
