\* Two requests fill the caches of one table while its row changes.
CONSTANTS
    Table = {t1}
    NoTable = NoTable
    Request = {r1, r2}
    Ttl = 2
    MaxStep = 1
SPECIFICATION Spec
SYMMETRY Symmetry
INVARIANTS
    TypeOK
    EntriesBounded
    GateFresh
