\* An anonymous caller after an authenticated one.
CONSTANTS
    User = {u1}
    NoUser = NoUser
    Blank = Blank
    Request = {r1, r2}
    Conn = {c1}
    NoConn = NoConn
    Post = {p1}
    NoRow = NoRow
SPECIFICATION Spec
INVARIANT
    AnonymousWithoutContext
