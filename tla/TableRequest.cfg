\* One user and one table, one request after another.
CONSTANTS
    User = {u1}
    NoUser = NoUser
    Request = {r1}
    AccessTtl = 1
    Leeway = 0
    DefaultLeeway = 1
    MaxStep = 1
    Table = {t1}
    NoTable = NoTable
    Ttl = 1
SPECIFICATION FairSystem
INVARIANTS
    Types
    TakenForTheOwner
    ReachedRightly
PROPERTIES
    ImplementsGate
    HiddenInTheEnd
    LockedOutInTheEnd
