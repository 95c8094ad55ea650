SPECIFICATION Spec
CONSTANTS
    None = None
    Field = {a, b, c}
    Name = {x, y, z}
    Request = {r1}
    Tree <- MCTree
    MaxRows = 2
    MaxRequests = 3
SYMMETRY MCSymmetry
INVARIANTS
    AnchorsAcyclic
    NamesUnique
    SubfieldsStandAlone
PROPERTY SavedAnchorsAreDependencies
CHECK_DEADLOCK FALSE
