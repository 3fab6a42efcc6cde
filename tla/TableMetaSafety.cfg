\* Two requests fill the cache while one column comes, goes and changes role.
CONSTANTS
    Column = {o}
    Owner = o
    Request = {r1, r2}
    Ttl = 2
    MaxStep = 1
SPECIFICATION Spec
SYMMETRY Symmetry
INVARIANTS
    TypeOK
    MetaBounded
    GuardsCatchUp
