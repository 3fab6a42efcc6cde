------------------------------ MODULE Sessions ------------------------------
(***************************************************************************)
(* The auth service (oxyd-core/src/auth/service.rs) over its two Postgres  *)
(* tables: register, login and refresh, one action per SQL statement, run  *)
(* by concurrent requests that share a connection pool.                    *)
(*                                                                         *)
(* A refresh token is named by the id of the session row that stores its   *)
(* hash.  A user is named by its id, which a sequence never hands out      *)
(* twice.  The statements of a refresh transaction become visible to       *)
(* others at Commit (READ COMMITTED); until then the request holds them,   *)
(* a connection, and the lock on the row it updates.                       *)
(***************************************************************************)
EXTENDS Integers, FiniteSets

CONSTANTS
    User,        \* ids of rows of oxyd_auth.users, used or not yet
    NoUser,      \* "no user yet" in a request
    Request,     \* requests the server runs at the same time
    PoolSize,    \* PgPoolOptions::max_connections
    RefreshTtl,  \* AppState.refresh_ttl
    MaxSession,  \* bound: rows that refresh_sessions_id_seq numbers
    MaxTime      \* bound: the last instant of the clock

ASSUME SessionsAssumption ==
    /\ NoUser \notin User
    /\ PoolSize \in Nat \ {0}
    /\ RefreshTtl \in Nat \ {0}
    /\ MaxSession \in Nat
    /\ MaxTime \in Nat

VARIABLES
    users,   \* oxyd_auth.users: the status of each user
    sess,    \* oxyd_auth.refresh_sessions: committed rows, by id
    nextId,  \* what refresh_sessions_id_seq gives next
    now,     \* the clock (application and database agree)
    req,     \* the requests in flight
    known,   \* tokens some client has received
    minted,  \* ghost: <<old, new>> for every rotation that committed
    raced    \* ghost: tokens presented while another use of them was open

vars == <<users, sess, nextId, now, req, known, minted, raced>>

NoSession == 0
SessionId == 1..MaxSession

Status == {"absent", "active", "inactive", "deleted"}

\* A row; its id is its place in sess, its token_hash is that of the same id.
Row == [user: User, exp: Nat, revoked: BOOLEAN, next: SessionId \cup {NoSession}]

\* A request, by the statement it runs next.  "landing": it is gone, but its
\* COMMIT is on the way.
Pc == {"idle", "insertUser", "selectUser", "insertSession", "lookup", "begin",
       "revoke", "insert", "link", "commit", "landing", "loadEmail", "answer"}

\* tok: the token presented; new, exp: the row it has inserted;
\* late: ghost, the token was spent when the request arrived.
RequestState == [pc: Pc, user: User \cup {NoUser},
                 tok: SessionId \cup {NoSession}, new: SessionId \cup {NoSession},
                 exp: Nat, late: BOOLEAN]

Idle == [pc |-> "idle", user |-> NoUser, tok |-> NoSession, new |-> NoSession,
         exp |-> 0, late |-> FALSE]

TypeOK ==
    /\ users \in [User -> Status]
    /\ DOMAIN sess \subseteq SessionId
    /\ sess \in [DOMAIN sess -> Row]
    /\ nextId \in 1..(MaxSession + 1)
    /\ now \in 0..MaxTime
    /\ req \in [Request -> RequestState]
    /\ known \subseteq SessionId
    /\ minted \subseteq SessionId \X SessionId
    /\ raced \subseteq known

Init ==
    /\ users = [u \in User |-> "absent"]
    /\ sess = [s \in {} |-> NoSession]
    /\ nextId = 1
    /\ now = 0
    /\ req = [r \in Request |-> Idle]
    /\ known = {}
    /\ minted = {}
    /\ raced = {}

-----------------------------------------------------------------------------
(* Shared by the actions *)

\* The row is in oxyd_auth.users: what a foreign key or SELECT by id finds.
Exists(u) == users[u] \in {"active", "inactive"}

\* Between BEGIN and COMMIT or ROLLBACK the request holds a connection;
\* every other statement borrows one for the statement alone.
InTx == {"revoke", "insert", "link", "commit", "landing"}

\* Mutant: the connection goes back only once the e-mail is loaded.
InTxUntilEmail == {"revoke", "insert", "link", "commit", "landing", "loadEmail"}

OpenTx == InTx

FreeConnection == Cardinality({r \in Request : req[r].pc \in OpenTx}) < PoolSize

\* After UPDATE ... WHERE id = tok the row stays locked to the end of the
\* transaction.
Locks(r) ==
    req[r].pc \in {"insert", "link", "commit", "landing"} /\ req[r].tok \in DOMAIN sess

At(r, pc) == req[r].pc = pc
Goto(r, pc) == req' = [req EXCEPT ![r].pc = pc]
Finish(r) == req' = [req EXCEPT ![r] = Idle]

\* Mutants: a lookup without revoked = FALSE, one without expires_at > NOW().
ValidThoughRevoked(t) == t \in DOMAIN sess /\ sess[t].exp > now
ValidThoughExpired(t) == t \in DOMAIN sess /\ ~sess[t].revoked

\* WHERE token_hash = $1 AND revoked = FALSE AND expires_at > NOW().
Valid(t) == t \in DOMAIN sess /\ ~sess[t].revoked /\ sess[t].exp > now

\* Mutant: expires_at is the TTL before the present, not after it.
InsertedInThePast(n, u, exp) ==
    [s \in DOMAIN sess \cup {n} |->
        IF s = n THEN [user |-> u, exp |-> exp - 2 * RefreshTtl,
                       revoked |-> FALSE, next |-> NoSession]
                 ELSE sess[s]]

\* Ghost: what a client must not get anything for.
Spent(t) == t \in DOMAIN sess => sess[t].revoked \/ sess[t].exp <= now

\* INSERT INTO refresh_sessions, once it is committed.
Inserted(n, u, exp) ==
    [s \in DOMAIN sess \cup {n} |->
        IF s = n THEN [user |-> u, exp |-> exp, revoked |-> FALSE, next |-> NoSession]
                 ELSE sess[s]]

\* Bound: a request is taken in only while every one in flight can have an id.
Room == nextId + Cardinality({r \in Request : ~At(r, "idle")}) <= MaxSession

-----------------------------------------------------------------------------
(* register *)

\* Bound: and while there is a user id for every register in flight.
RoomForUser == Cardinality({q \in Request : At(q, "insertUser")})
                    < Cardinality({u \in User : users[u] = "absent"})

StartRegister(r) ==
    /\ At(r, "idle") /\ Room /\ RoomForUser
    /\ Goto(r, "insertUser")
    /\ UNCHANGED <<users, sess, nextId, now, known, minted, raced>>

\* INSERT ... ON CONFLICT (email) DO NOTHING: the e-mail is some user's and
\* the answer is 409, or a fresh id is committed at once.
InsertUser(r) ==
    /\ At(r, "insertUser") /\ FreeConnection
    /\ \/ /\ \E u \in User : Exists(u)
          /\ Finish(r)
          /\ UNCHANGED users
       \/ \E u \in User :
            /\ users[u] = "absent"
            /\ users' = [users EXCEPT ![u] = "active"]
            /\ req' = [req EXCEPT ![r].pc = "insertSession", ![r].user = u]
    /\ UNCHANGED <<sess, nextId, now, known, minted, raced>>

-----------------------------------------------------------------------------
(* login *)

StartLogin(r, u) ==
    /\ At(r, "idle") /\ Room
    /\ req' = [req EXCEPT ![r].pc = "selectUser", ![r].user = u]
    /\ UNCHANGED <<users, sess, nextId, now, known, minted, raced>>

\* SELECT by e-mail, then is_active and the password: 401, or go on.
SelectUser(r) ==
    /\ At(r, "selectUser") /\ FreeConnection
    /\ \/ Finish(r)
       \/ users[req[r].user] = "active" /\ Goto(r, "insertSession")
    /\ UNCHANGED <<users, sess, nextId, now, known, minted, raced>>

\* The last statement of register and login, outside any transaction.  The
\* sequence has moved even when the foreign key refuses the row.
InsertSession(r) ==
    /\ At(r, "insertSession") /\ FreeConnection
    /\ nextId <= MaxSession
    /\ nextId' = nextId + 1
    /\ \/ /\ Exists(req[r].user)
          /\ sess' = Inserted(nextId, req[r].user, now + RefreshTtl)
          /\ req' = [req EXCEPT ![r].pc = "answer", ![r].new = nextId]
       \/ /\ ~Exists(req[r].user)
          /\ Finish(r)
          /\ UNCHANGED sess
    /\ UNCHANGED <<users, now, known, minted, raced>>

-----------------------------------------------------------------------------
(* refresh *)

\* The client presents a token it was given, or a string that is no token,
\* whether or not another request has it, or is gone but has yet to commit.
StartRefresh(r, t) ==
    /\ At(r, "idle") /\ Room
    /\ req' = [req EXCEPT ![r].pc = "lookup", ![r].tok = t, ![r].late = Spent(t)]
    /\ raced' = raced \cup {x \in known : x = t /\ \E q \in Request : req[q].tok = x}
    /\ UNCHANGED <<users, sess, nextId, now, known, minted>>

\* The SELECT, on its own connection and before the transaction.
Lookup(r) ==
    /\ At(r, "lookup") /\ FreeConnection
    /\ \/ /\ Valid(req[r].tok)
          /\ req' = [req EXCEPT ![r].pc = "begin", ![r].user = sess[req[r].tok].user]
       \/ /\ ~Valid(req[r].tok)
          /\ Finish(r)
    /\ UNCHANGED <<users, sess, nextId, now, known, minted, raced>>

Begin(r) ==
    /\ At(r, "begin") /\ FreeConnection
    /\ Goto(r, "revoke")
    /\ UNCHANGED <<users, sess, nextId, now, known, minted, raced>>

\* Mutant: the UPDATE runs on the pool instead of the transaction.
RevokeOutsideTx(r) ==
    /\ At(r, "revoke")
    /\ \A q \in Request : Locks(q) => req[q].tok # req[r].tok
    /\ Goto(r, "insert")
    /\ sess' = [s \in DOMAIN sess |->
                    IF s = req[r].tok THEN [sess[s] EXCEPT !.revoked = TRUE] ELSE sess[s]]
    /\ UNCHANGED <<users, nextId, now, known, minted, raced>>

\* UPDATE ... SET revoked = TRUE WHERE id = tok: waits for the row's lock,
\* tests nothing else, and does not look at how many rows it changed.
Revoke(r) ==
    /\ At(r, "revoke")
    /\ \A q \in Request : Locks(q) => req[q].tok # req[r].tok
    /\ Goto(r, "insert")
    /\ UNCHANGED <<users, sess, nextId, now, known, minted, raced>>

\* INSERT ... RETURNING id; a foreign key violation rolls everything back.
Insert(r) ==
    /\ At(r, "insert")
    /\ nextId <= MaxSession
    /\ nextId' = nextId + 1
    /\ \/ /\ Exists(req[r].user)
          /\ req' = [req EXCEPT ![r].pc = "link", ![r].new = nextId,
                                ![r].exp = now + RefreshTtl]
       \/ /\ ~Exists(req[r].user)
          /\ Finish(r)
    /\ UNCHANGED <<users, sess, now, known, minted, raced>>

\* UPDATE ... SET replaced_by = new WHERE id = tok, the row it locks already.
Link(r) ==
    /\ At(r, "link")
    /\ Goto(r, "commit")
    /\ UNCHANGED <<users, sess, nextId, now, known, minted, raced>>

\* Mutant: the old row is not revoked.
ReplacedUnrevoked(t, n, row) == [row EXCEPT !.next = n]

\* Mutant: replaced_by is not written.
ReplacedUnlinked(t, n, row) == [row EXCEPT !.revoked = TRUE]

\* What the two UPDATEs leave in the old row.
Replaced(t, n, row) == [row EXCEPT !.revoked = TRUE, !.next = n]

\* COMMIT takes effect, with or without someone who waits for it.
Commit(r) ==
    LET t == req[r].tok
        n == req[r].new
    IN  /\ req[r].pc \in {"commit", "landing"}
        /\ sess' = [Inserted(n, req[r].user, req[r].exp)
                        EXCEPT ![t] = Replaced(t, n, sess[t])]
        /\ minted' = minted \cup {<<t, n>>}
        /\ IF At(r, "commit") THEN Goto(r, "loadEmail") ELSE Finish(r)
        /\ UNCHANGED <<users, nextId, now, known, raced>>

\* fetch_one: an error when the user has gone since the commit.
LoadEmail(r) ==
    /\ At(r, "loadEmail") /\ FreeConnection
    /\ \/ Exists(req[r].user) /\ Goto(r, "answer")
       \/ ~Exists(req[r].user) /\ Finish(r)
    /\ UNCHANGED <<users, sess, nextId, now, known, minted, raced>>

-----------------------------------------------------------------------------
(* The end of a request *)

\* The client receives the new refresh token.
Answer(r) ==
    /\ At(r, "answer")
    /\ known' = known \cup {req[r].new}
    /\ Finish(r)
    /\ UNCHANGED <<users, sess, nextId, now, minted, raced>>

\* The client hangs up or the server dies while COMMIT is on the way: the
\* ROLLBACK of a dropped transaction is queued behind it and finds nothing.
HangUp(r) ==
    /\ At(r, "commit")
    /\ Goto(r, "landing")
    /\ UNCHANGED <<users, sess, nextId, now, known, minted, raced>>

\* A database error, an acquire timeout, a client that hangs up or the death
\* of the server, at any await: an open transaction is rolled back, what was
\* committed stays, and an answer on its way is lost.  So may be a COMMIT.
Drop(r) ==
    /\ ~At(r, "idle")
    /\ Finish(r)
    /\ UNCHANGED <<users, sess, nextId, now, known, minted, raced>>

-----------------------------------------------------------------------------
(* The operator, who works on the database directly, and the clock *)

\* UPDATE oxyd_auth.users SET is_active = ...
SetActive(u) ==
    /\ Exists(u)
    /\ users' = [users EXCEPT ![u] = IF @ = "active" THEN "inactive" ELSE "active"]
    /\ UNCHANGED <<sess, nextId, now, req, known, minted, raced>>

\* DELETE FROM oxyd_auth.users, ON DELETE CASCADE to the sessions: waits for
\* the transactions that lock one of them, or that have inserted one.  (Its
\* own locks can close a cycle with such a transaction; Postgres then aborts
\* one of the two: a Drop, or a DELETE that has not happened.)
DeleteUser(u) ==
    /\ Exists(u)
    /\ \A r \in Request : Locks(r) => req[r].user # u
    /\ users' = [users EXCEPT ![u] = "deleted"]
    /\ sess' = [s \in {x \in DOMAIN sess : sess[x].user # u} |-> sess[s]]
    /\ UNCHANGED <<nextId, now, req, known, minted, raced>>

Tick ==
    /\ now < MaxTime
    /\ now' = now + 1
    /\ UNCHANGED <<users, sess, nextId, req, known, minted, raced>>

-----------------------------------------------------------------------------
\* What the server does for r once the request is in.
Serve(r) ==
    \/ InsertUser(r) \/ SelectUser(r) \/ InsertSession(r)
    \/ Lookup(r) \/ Begin(r) \/ Revoke(r) \/ Insert(r) \/ Link(r) \/ Commit(r)
    \/ LoadEmail(r) \/ Answer(r)

Next ==
    \/ \E r \in Request :
        \/ StartRegister(r)
        \/ \E u \in User : StartLogin(r, u)
        \/ \E t \in known \cup {NoSession} : StartRefresh(r, t)
        \/ Serve(r)
        \/ HangUp(r)
        \/ Drop(r)
    \/ \E u \in User : SetActive(u) \/ DeleteUser(u)
    \/ Tick

Spec == Init /\ [][Next]_vars

\* A request waits in two places only, the pool's queue and a row lock's
\* queue, and both serve first come first: strong fairness.  Clients,
\* operators, errors and the clock owe nothing.
FairSpec == Spec /\ \A r \in Request : SF_vars(Serve(r))

-----------------------------------------------------------------------------
(* Properties *)

\* A session is revoked exactly when a successor of the same user stands in
\* for it, one inserted later and that expires no earlier: whatever fails in
\* refresh, the revocation, the new row and the link appear together or not
\* at all ("so we can persist it atomically"), and replaced_by never forms a
\* cycle or crosses accounts.
RotationAtomic ==
    \A s \in DOMAIN sess :
        /\ sess[s].revoked <=> sess[s].next # NoSession
        /\ sess[s].revoked =>
            LET n == sess[s].next
            IN  /\ n \in DOMAIN sess
                /\ s < n
                /\ sess[n].user = sess[s].user
                /\ sess[s].exp <= sess[n].exp

\* A token already rotated, expired or unknown when the request arrives gets
\* through neither the lookup nor anything after it, whatever other requests
\* do meanwhile: refresh refuses the second of two uses in a row.
ReplayRefused ==
    \A r \in Request : req[r].late => req[r].pc \in {"idle", "lookup"}

\* One rotation per token: "the moment a refresh is used, it is invalidated".
SingleUse == \A p, q \in minted : p[1] = q[1] => p = q

\* That is so of every token that is never presented while another use of it
\* is open, be it that of a client who gave up while COMMIT was on its way:
\* after a failure, an answer or the loss of one, and whenever the connection
\* is back, a retry finds what the first use left, and refresh mints one
\* successor at most, ...
SingleUseInTurn ==
    \A p, q \in minted : p[1] = q[1] /\ p[1] \notin raced => p = q

\* ... and replaced_by leads to that successor as long as the row is there
\* ("linking via replaced_by for auditability").
AuditTrail ==
    \A p \in minted :
        p[1] \in DOMAIN sess /\ p[1] \notin raced => sess[p[1]].next = p[2]

\* Every request ends, without the help of a timeout or a disconnection,
\* even when requests queue for the connections and, holding one, for a row.
Answered == \A r \in Request : ~At(r, "idle") ~> At(r, "idle")
=============================================================================
