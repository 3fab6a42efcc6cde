---------------------------- MODULE RowSecurity ----------------------------
(***************************************************************************)
(* The execution of select_rows, insert_rows, update_rows and delete_rows  *)
(* (oxyd-core/src/virtual_crud) on a table under row level security, the   *)
(* table posts of migration 004.  The user of a statement is not an        *)
(* argument of it: it is the setting app.current_user_id of the pooled     *)
(* connection it happens to run on, which set_config gives a value for one *)
(* transaction.  Postgres locks the rows an UPDATE or DELETE finds one by  *)
(* one, in an order of its own, and keeps them to the end of the           *)
(* transaction.                                                            *)
(*                                                                         *)
(* Requests are past the gate, with a user or, on a table that does not    *)
(* require one, without.                                                   *)
(***************************************************************************)
EXTENDS Integers, FiniteSets

CONSTANTS
    User,    \* ids of users
    NoUser,  \* an anonymous request, a setting that is NULL, no row
    Blank,   \* a setting that is the empty string
    Request, \* requests the server runs at the same time
    Conn,    \* connections of the pool
    NoConn,  \* "no connection" in a request
    Post,    \* places for rows of the table
    NoRow    \* "no row" in a request

ASSUME RowSecurityAssumption ==
    /\ NoUser \notin User
    /\ Blank \notin User \cup {NoUser}
    /\ NoConn \notin Conn
    /\ Conn # {}
    /\ NoRow \notin Post

VARIABLES
    posts,  \* the committed rows
    conn,   \* the connections
    req     \* the requests in flight

vars == <<posts, conn, req>>

Caller == User \cup {NoUser}

\* A setting outside of a transaction that has called set_config.
Unnamed == {NoUser, Blank}

\* owner: user_id; by: ghost, the caller whose statement wrote the row.
PostRow == [owner: Caller, by: Caller]
NoPost == [owner |-> NoUser, by |-> NoUser]

\* saved: what the setting goes back to when the transaction ends.
Connection ==
    [state: {"idle"}, setting: Unnamed, saved: Unnamed]
        \cup [state: {"tx"}, setting: Caller \cup {Blank}, saved: Unnamed]

Op == {"select", "insert", "update", "delete"}
Pc == {"idle", "begin", "setConfig", "statement", "locking", "commit", "rollback",
       "answer"}

\* want: rows the filters match, those still to come while it is locking;
\* next: the one it is about to lock; owner: what it writes to user_id;
\* wrote: rows it has written and locks; seen: owners of the rows it returned;
\* gone: nobody waits for the answer, and the transaction is still open.
RequestState == [pc: Pc, user: Caller, op: Op, want: SUBSET Post,
                 next: Post \cup {NoRow}, owner: Caller, conn: Conn \cup {NoConn},
                 wrote: SUBSET Post, seen: SUBSET Caller, gone: BOOLEAN]

Idle == [pc |-> "idle", user |-> NoUser, op |-> "select", want |-> {}, next |-> NoRow,
         owner |-> NoUser, conn |-> NoConn, wrote |-> {}, seen |-> {}, gone |-> FALSE]

TypeOK ==
    /\ posts \in [Post -> PostRow]
    /\ conn \in [Conn -> Connection]
    /\ req \in [Request -> RequestState]

NewConnection == [state |-> "idle", setting |-> NoUser, saved |-> NoUser]

Init ==
    /\ posts = [p \in Post |-> NoPost]
    /\ conn = [c \in Conn |-> NewConnection]
    /\ req = [r \in Request |-> Idle]

-----------------------------------------------------------------------------
(* Before the transaction: what the code lets into the statement *)

At(r, pc) == req[r].pc = pc
Mine(r) == req[r].conn

\* knows: the cached TableMeta has the column user_id; a stale one may not.
\* claim: what the client's body says of user_id, if anything.
Manages(u, knows) == u # NoUser /\ knows

\* "unknown column", "cannot override user_id", "cannot update user_id".
Accepts(u, op, claim, knows) ==
    /\ claim # NoUser => knows
    /\ Manages(u, knows) =>
          /\ op = "insert" => claim \in {u, NoUser}
          /\ op = "update" => claim = NoUser

OwnerWritten(u, op, claim, knows) ==
    IF op = "insert" /\ Manages(u, knows) THEN u ELSE claim

\* Bound: there is a place for the row of every insert in flight.
Room == Cardinality({q \in Request : req[q].op = "insert" /\ ~At(q, "answer")})
            < Cardinality({p \in Post : posts[p] = NoPost})

Start(r, u, op, want, claim, knows) ==
    /\ At(r, "idle")
    /\ op = "insert" => Room
    /\ op \in {"select", "insert"} => want = {}
    /\ op \in {"select", "delete"} => claim = NoUser
    /\ Accepts(u, op, claim, knows)
    /\ req' = [req EXCEPT ![r] = [Idle EXCEPT
                  !.pc = "begin", !.user = u, !.op = op, !.want = want,
                  !.owner = OwnerWritten(u, op, claim, knows)]]
    /\ UNCHANGED <<posts, conn>>

-----------------------------------------------------------------------------
(* The transaction *)

\* BEGIN on an idle connection; without a user there is nothing to set.
Begin(r, c) ==
    /\ At(r, "begin")
    /\ conn[c].state = "idle"
    /\ conn' = [conn EXCEPT ![c].state = "tx", ![c].saved = conn[c].setting]
    /\ req' = [req EXCEPT ![r].pc = IF req[r].user = NoUser THEN "statement"
                                                            ELSE "setConfig",
                          ![r].conn = c]
    /\ UNCHANGED posts

\* A name that was never set is NULL; once it has been, it falls back to ''.
Fallback(c) == IF c.saved = NoUser THEN Blank ELSE c.saved

\* Mutant: set_config(..., false), for the session.
SetForSession(c, u) == [c EXCEPT !.setting = u, !.saved = u]

\* set_config('app.current_user_id', u, true), for the transaction.
SetLocal(c, u) == [c EXCEPT !.setting = u, !.saved = Fallback(c)]

\* Mutant: set_config is executed on the pool, not on the transaction.
BorrowingTwice == {"begin", "setConfig"}

\* The statements that take a connection out of the pool.
Borrowing == {"begin"}

NoneIdle == \A c \in Conn : conn[c].state # "idle"

SetConfig(r) ==
    /\ At(r, "setConfig")
    /\ ~(req[r].pc \in Borrowing /\ NoneIdle)
    /\ conn' = [conn EXCEPT ![Mine(r)] = SetLocal(@, req[r].user)]
    /\ req' = [req EXCEPT ![r].pc = "statement"]
    /\ UNCHANGED posts

Setting(r) == conn[Mine(r)].setting

\* USING (user_id = current_setting('app.current_user_id', true)::bigint)
Visible(s) == {p \in Post : posts[p].owner \in User /\ posts[p].owner = s}

\* Mutant: WITH CHECK (true).
ChecksNothing(owner, s) == owner \in User

\* WITH CHECK (user_id = current_setting('app.current_user_id', true)::bigint)
Checks(owner, s) == owner \in User /\ owner = s

LockedByOthers(r) == UNION {req[q].wrote : q \in Request \ {r}}

\* What comes after a statement: ROLLBACK if its request has gone meanwhile.
Ending(r) == IF req[r].gone THEN "rollback" ELSE "commit"

\* The statement has run: it wrote these rows and returned rows of these owners.
Ran(r, wrote, seen) ==
    /\ req' = [req EXCEPT ![r] = [@ EXCEPT !.pc = Ending(r), !.want = {}, !.next = NoRow,
                                           !.wrote = wrote, !.seen = seen]]
    /\ UNCHANGED <<posts, conn>>

\* Or it has written these, and locks those that are left, in any order.
Reaches(r, left, wrote, seen) ==
    IF left = {}
    THEN Ran(r, wrote, seen)
    ELSE /\ \E p \in left :
               req' = [req EXCEPT ![r] = [@ EXCEPT !.pc = "locking", !.want = left,
                                           !.next = p, !.wrote = wrote, !.seen = seen]]
         /\ UNCHANGED <<posts, conn>>

Owners(P) == {posts[p].owner : p \in P}

Select(r) ==
    /\ req[r].op = "select"
    /\ \E P \in SUBSET Visible(Setting(r)) : Ran(r, {}, Owners(P))

Insert(r) ==
    /\ req[r].op = "insert"
    /\ Checks(req[r].owner, Setting(r))
    /\ \E p \in Post \ LockedByOthers(r) :
          posts[p] = NoPost /\ Ran(r, {p}, {req[r].owner})

\* The snapshot of an UPDATE or DELETE: the rows it finds.
Scan(r) ==
    /\ req[r].op \in {"update", "delete"}
    /\ Reaches(r, req[r].want \cap Visible(Setting(r)), {}, {})

NewOwner(r, p) ==
    IF req[r].op = "update" /\ req[r].owner # NoUser THEN req[r].owner ELSE posts[p].owner

\* A row that fails WITH CHECK, or ''::bigint in a policy: an error.  (WITH
\* CHECK comes before the lock, and again if it had to be waited for.)
Violates(r) ==
    \/ Setting(r) = Blank
    \/ At(r, "statement") /\ req[r].op = "insert" /\ ~Checks(req[r].owner, Setting(r))
    \/ At(r, "locking") /\ ~Checks(NewOwner(r, req[r].next), Setting(r))

\* What is left of a request that only has to roll back.
RollingBack(r, wrote, gone) ==
    [Idle EXCEPT !.pc = "rollback", !.user = req[r].user, !.conn = Mine(r),
                 !.wrote = wrote, !.gone = gone]

\* An error: Postgres undoes at once what the transaction wrote and locked.
Fails(r) ==
    /\ req' = [req EXCEPT ![r] = RollingBack(r, {}, req[r].gone)]
    /\ UNCHANGED <<posts, conn>>

Statement(r) ==
    /\ At(r, "statement")
    /\ Select(r) \/ Insert(r) \/ Scan(r) \/ (Violates(r) /\ Fails(r))

\* The next row of an UPDATE or DELETE, once no one else locks it.  If it has
\* changed meanwhile, the policy and the filters decide again.  (Bound: a row
\* put in the place of one that was deleted meanwhile is taken for it.)
Lock(r) ==
    LET p == req[r].next
        left == req[r].want \ {p}
    IN  /\ At(r, "locking")
        /\ p \notin LockedByOthers(r)
        /\ \/ /\ p \in Visible(Setting(r)) /\ Checks(NewOwner(r, p), Setting(r))
              /\ Reaches(r, left, req[r].wrote \cup {p}, req[r].seen \cup {NewOwner(r, p)})
           \/ Reaches(r, left, req[r].wrote, req[r].seen)
           \/ Violates(r) /\ Fails(r)

\* s waits for a row that q locks.
Blocks(q, s) == q # s /\ At(s, "locking") /\ req[s].next \in req[q].wrote

\* Each of S waits for a row that one of them locks.
Circle(S) == S # {} /\ \A s \in S : \E q \in S : Blocks(q, s)

\* Postgres finds the circle and ends the statement of one of them: 40P01.
Deadlock(r) ==
    /\ \E S \in SUBSET Request :
          r \in S /\ Circle(S) /\ \A T \in SUBSET S : Circle(T) => T = S
    /\ Fails(r)

\* What the row p becomes when r commits.
Written(r, p) ==
    CASE req[r].op = "insert" -> [owner |-> req[r].owner, by |-> req[r].user]
      [] req[r].op = "update" -> [owner |-> NewOwner(r, p), by |-> req[r].user]
      [] OTHER -> NoPost

\* The end of a transaction, and of what was set for it.
Ended(c) == [c EXCEPT !.state = "idle", !.setting = c.saved]

\* COMMIT takes effect, with or without someone who waits for it.
Commit(r) ==
    /\ At(r, "commit")
    /\ posts' = [p \in Post |-> IF p \in req[r].wrote THEN Written(r, p) ELSE posts[p]]
    /\ conn' = [conn EXCEPT ![Mine(r)] = Ended(@)]
    /\ req' = [req EXCEPT ![r] =
          IF req[r].gone THEN Idle
          ELSE [Idle EXCEPT !.pc = "answer", !.user = req[r].user, !.seen = req[r].seen]]

\* tx.rollback(), then the error is the answer; or the ROLLBACK of a dropped
\* transaction, which the pool sends before it offers the connection again.
Rollback(r) ==
    /\ At(r, "rollback")
    /\ conn' = [conn EXCEPT ![Mine(r)] = Ended(@)]
    /\ req' = [req EXCEPT ![r] = Idle]
    /\ UNCHANGED posts

Answer(r) ==
    /\ At(r, "answer")
    /\ req' = [req EXCEPT ![r] = Idle]
    /\ UNCHANGED <<posts, conn>>

-----------------------------------------------------------------------------
(* Failures, and the pool by itself *)

\* The statement fails for another reason: a constraint, a cast.
Fail(r) ==
    /\ req[r].pc \in {"statement", "locking"}
    /\ Fails(r)

\* An acquire timeout or a hang-up, without a transaction: nothing is left.
GiveUp(r) ==
    /\ req[r].pc \in {"begin", "answer"}
    /\ req' = [req EXCEPT ![r] = Idle]
    /\ UNCHANGED <<posts, conn>>

\* Mutant: the connection is offered again with its transaction still open.
DropUnflushed(r) ==
    /\ Mine(r) # NoConn
    /\ conn' = [conn EXCEPT ![Mine(r)].state = "idle"]
    /\ req' = [req EXCEPT ![r] = Idle]
    /\ UNCHANGED posts

\* set_config or COMMIT fails, or a client hangs up in the transaction: it is
\* dropped, and its ROLLBACK queued on the connection, behind the statement
\* that may be waiting for a row and behind a COMMIT that is on its way.
Drop(r) ==
    /\ Mine(r) # NoConn
    /\ ~req[r].gone
    /\ \/ /\ req[r].pc \in {"locking", "commit"}
          /\ req' = [req EXCEPT ![r].gone = TRUE]
       \/ /\ ~At(r, "locking")
          /\ req' = [req EXCEPT ![r] = RollingBack(r, req[r].wrote, TRUE)]
    /\ UNCHANGED <<posts, conn>>

\* An idle connection is closed, and another one opened for it.
Replace(c) ==
    /\ conn[c].state = "idle"
    /\ conn' = [conn EXCEPT ![c] = NewConnection]
    /\ UNCHANGED <<posts, req>>

-----------------------------------------------------------------------------
Serve(r) ==
    \/ \E c \in Conn : Begin(r, c)
    \/ SetConfig(r) \/ Statement(r) \/ Lock(r) \/ Deadlock(r)
    \/ Commit(r) \/ Rollback(r) \/ Answer(r)

Next ==
    \/ \E r \in Request :
        \/ \E u \in Caller, op \in Op, want \in SUBSET Post,
              claim \in Caller, knows \in BOOLEAN : Start(r, u, op, want, claim, knows)
        \/ Serve(r)
        \/ Fail(r)
        \/ GiveUp(r)
        \/ Drop(r)
    \/ \E c \in Conn : Replace(c)

Spec == Init /\ [][Next]_vars

\* A request waits for a connection or for a row, and both queues are first
\* come first served: strong fairness.  It covers what Postgres and the pool
\* owe a request that is gone, and the deadlock detector, which every wait for
\* a row starts.  Clients and errors owe nothing.
FairSpec == Spec /\ \A r \in Request : SF_vars(Serve(r))

-----------------------------------------------------------------------------
(* Properties *)

\* Whatever connections requests share and however transactions end, a row
\* is written only for the user it belongs to, and a request gets back only
\* rows of its own user; an anonymous one gets none and writes none.
Isolation ==
    /\ \A p \in Post : posts[p].by = posts[p].owner
    /\ \A r \in Request : req[r].seen \subseteq {req[r].user} \cap User

\* A connection at rest names nobody, and one in a request's hands names that
\* request's user or nobody: no transaction inherits the user of another.
ContextOfHolder ==
    /\ \A c \in Conn : conn[c].state = "idle" => conn[c].setting \notin User
    /\ \A r \in Request : Mine(r) # NoConn =>
          /\ conn[Mine(r)].state = "tx"
          /\ conn[Mine(r)].setting \in User => conn[Mine(r)].setting = req[r].user
          /\ \A q \in Request \ {r} : Mine(q) # Mine(r)

\* "for anonymous users we simply do not set any context" and what was set
\* before "automatically goes away": an anonymous statement finds no setting.
AnonymousWithoutContext ==
    \A r \in Request :
        At(r, "statement") /\ req[r].user = NoUser => Setting(r) = NoUser

\* BEGIN waits for a connection; an UPDATE or DELETE holds one and waits for
\* the lock on its next row.
Waits(r) ==
    \/ req[r].pc \in Borrowing /\ NoneIdle
    \/ \E q \in Request : Blocks(q, r)

\* The pool is never part of a standstill: however transactions fail, are
\* abandoned or queue for rows, some request can go on, or those that cannot
\* wait in a circle for rows alone, which Postgres detects and breaks.  (It
\* cannot see a request that waits, with a row locked, for a connection.)
NoHiddenStandstill ==
    (\E r \in Request : ~At(r, "idle")) =>
        \/ \E r \in Request : ~At(r, "idle") /\ ~Waits(r)
        \/ \E S \in SUBSET Request : Circle(S)

\* Every request ends, though bulk writes deadlock, and hang-ups cost the pool
\* no connection and the table no lock.
Answered == \A r \in Request : ~At(r, "idle") ~> At(r, "idle")

Phase(pc) == CASE pc = "idle" -> "none" [] pc = "answer" -> "done" [] OTHER -> "open"

Table == INSTANCE OwnedTable WITH
    Nobody <- NoUser,
    owner <- [p \in Post |-> posts[p].owner],
    caller <- [r \in Request |-> req[r].user],
    phase <- [r \in Request |-> Phase(req[r].pc)]

\* Behind the connections, the settings, the policies and the locks there is
\* a table on which each request acts at once or not at all, on the rows of
\* its own user: those it writes are still the user's when it commits, what
\* fails leaves nothing, what hangs up leaves nothing or everything and is
\* over when its connection is back, and no one acts without a name.
ImplementsTable == Table!Spec
=============================================================================
