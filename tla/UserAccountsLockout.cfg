SPECIFICATION Spec
CONSTANTS
    User = {u1, u2}
    Operator = {u1, u2}
    Request = {r1, r2}
    Secret = {s1, s2}
    NoPass = NoPass
    NoConfig = NoConfig
    NoUser = NoUser
    Submitted <- MCValid
SYMMETRY MCSymmetry
INVARIANT SuperadminRemains
