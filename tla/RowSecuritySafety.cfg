\* Two users and anonymous callers share two connections.
CONSTANTS
    User = {u1, u2}
    NoUser = NoUser
    Blank = Blank
    Request = {r1, r2}
    Conn = {c1, c2}
    NoConn = NoConn
    Post = {p1, p2}
    NoRow = NoRow
SPECIFICATION Spec
SYMMETRY Symmetry
INVARIANTS
    TypeOK
    Isolation
    ContextOfHolder
PROPERTIES
    ImplementsTable
