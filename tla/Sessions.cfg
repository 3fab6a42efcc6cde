\* Two requests, which may present the same token at the same time.
CONSTANTS
    User = {u1, u2}
    NoUser = NoUser
    Request = {r1, r2}
    PoolSize = 2
    RefreshTtl = 2
    MaxSession = 4
    MaxTime = 2
SPECIFICATION Spec
SYMMETRY Symmetry
INVARIANTS
    TypeOK
    RotationAtomic
    ReplayRefused
    SingleUseInTurn
    AuditTrail
PROPERTY
    ImplementsRotation
\* Stops when ids and time run out, or no client sends anything.
CHECK_DEADLOCK FALSE
