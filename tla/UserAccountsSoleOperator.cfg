SPECIFICATION Spec
CONSTANTS
    User = {u1, u2}
    Operator = {u1}
    Request = {r1, r2}
    Secret = {s1, s2}
    NoPass = NoPass
    NoConfig = NoConfig
    NoUser = NoUser
    Submitted <- MCSubmittedLocal
SYMMETRY MCSecretSymmetry
INVARIANTS
    SuperadminRemains
    RoleMatrix
