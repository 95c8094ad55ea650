SPECIFICATION Spec
CONSTANTS
    scalar = scalar
    repeater = repeater
    column = column
    Scalar <- MCScalar
    Repeater <- MCRepeater
    Subfield <- MCSubfield
    Parent <- MCParent
    User = {u1, u2}
    Value = {v1, v2}
    Request = {r1, r2, r3, r4, r5}
    None = None
    MaxRows = 2
    MaxActive = 3
    Deduped = TRUE
    OneClient = TRUE
SYMMETRY MCSymmetry
INVARIANTS
    CellsBelong
    OneAnswerPerField
    NoStrayCells
PROPERTIES
    SavedIsRead
    ImplementsBook
CHECK_DEADLOCK FALSE
