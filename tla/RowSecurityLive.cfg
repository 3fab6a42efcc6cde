\* Two requests, two connections, and two rows to lock in either order.
CONSTANTS
    User = {u1}
    NoUser = NoUser
    Blank = Blank
    Request = {r1, r2}
    Conn = {c1, c2}
    NoConn = NoConn
    Post = {p1, p2}
    NoRow = NoRow
SPECIFICATION FairSpec
INVARIANT
    NoHiddenStandstill
PROPERTY
    Answered
