SPECIFICATION Spec
CONSTANTS
    None = None
    f1 = f1
    f2 = f2
    a1 = a1
    a2 = a2
    a3 = a3
    g1 = g1
    b1 = b1
    b2 = b2
    User <- MCUser
    Place <- MCPlace
    Group = {g1}
    Field = {f1, f2}
    Subfield = {f2}
    Tree <- MCTree
    Benefit = {b1, b2}
    Applicant = {a1, a2, a3}
    Fails <- MCFails
    Residence <- MCResidence
    ResidenceField = f1
    Unreachable = {a3}
    Seeded = {b1}
    Peer <- MCPeer
    Patient = TRUE
    GivesUp = TRUE
    QuietFields = TRUE
    MaxItems = 2
    MaxFiles = 2
    MaxEdits = 2
    MaxSessions = 1
    MaxMoves = 1
INVARIANTS
    LeavesAnswerable
    NobodyForgotten
PROPERTIES
    SavedIsShown
    SavedIsListed
    WithinJurisdiction
    DeletedStaysDeleted
CHECK_DEADLOCK FALSE
