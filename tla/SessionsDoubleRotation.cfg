\* Two requests present one token at the same time: both rotate it.
CONSTANTS
    User = {u1, u2}
    NoUser = NoUser
    Request = {r1, r2}
    PoolSize = 2
    RefreshTtl = 2
    MaxSession = 4
    MaxTime = 2
SPECIFICATION Spec
SYMMETRY Symmetry
INVARIANT
    SingleUse
CHECK_DEADLOCK FALSE
