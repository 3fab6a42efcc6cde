\* One request holds a row, one waits for it on the other connection, and one
\* waits for a connection.
CONSTANTS
    User = {u1}
    NoUser = NoUser
    Request = {r1, r2, r3}
    PoolSize = 2
    RefreshTtl = 1
    MaxSession = 4
    MaxTime = 0
SPECIFICATION FairSpec
PROPERTY
    Answered
\* Stops when ids and time run out, or no client sends anything.
CHECK_DEADLOCK FALSE
