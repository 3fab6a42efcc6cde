------------------------- MODULE RowSecurityProofs -------------------------
(***************************************************************************)
(* The isolation of RowSecurity for any number of users, requests,         *)
(* connections and rows, that it implements OwnedTable, and that whatever  *)
(* stands still is a deadlock that Postgres can see.                       *)
(***************************************************************************)
EXTENDS RowSecurity, TLAPS

-----------------------------------------------------------------------------
(* The inductive invariant *)

\* A request has a connection exactly while it is in a transaction.
InTx == {"setConfig", "statement", "locking", "commit", "rollback"}

Holds(r) == req[r].pc \in InTx <=> Mine(r) # NoConn

\* What a request may yet commit belongs to its user or to nobody yet, and
\* will be its user's or nobody's.
Writes(r) ==
    /\ req[r].wrote # {} => req[r].pc \in {"locking", "commit", "rollback"}
    /\ \A p \in req[r].wrote :
          req[r].user \in User /\ posts[p].owner \in {req[r].user, NoUser}
    /\ req[r].pc \in {"locking", "commit"} =>
          /\ req[r].op = "insert" => req[r].owner = req[r].user /\ req[r].user \in User
          /\ req[r].op = "update" => \A p \in req[r].wrote : NewOwner(r, p) = req[r].user

\* No two requests hold a lock on the same row.
Apart(q, r) == q # r => req[q].wrote \cap req[r].wrote = {}

IInv ==
    /\ TypeOK
    /\ Isolation
    /\ ContextOfHolder
    /\ \A r \in Request : Holds(r) /\ Writes(r)
    /\ \A q, r \in Request : Apart(q, r)

-----------------------------------------------------------------------------
(* It holds of the initial state and is kept by every step *)

\* At the start there are no rows, no requests, and no setting.
LEMMA InitIInv == Init => IInv
<1> SUFFICES ASSUME Init PROVE IInv
  OBVIOUS
<1> USE RowSecurityAssumption DEF Init
<1>1. TypeOK
  BY DEF TypeOK, PostRow, NoPost, Connection, NewConnection, RequestState, Idle, Pc, Op,
     Caller, Unnamed
<1>2. Isolation
  BY DEF Isolation, NoPost, Idle
<1>3. ContextOfHolder
  BY DEF ContextOfHolder, NewConnection, Idle, Mine
<1>4. \A r \in Request : Holds(r) /\ Writes(r)
  BY DEF Holds, Writes, Idle, Mine, InTx
<1>5. \A q, r \in Request : Apart(q, r)
  BY DEF Apart, Idle
<1> QED
  BY <1>1, <1>2, <1>3, <1>4, <1>5 DEF IInv

\* A step that changes only the record of one request keeps IInv when the
\* record is right by itself, has the same connection, and locks no row that
\* another request locks.
LEMMA RequestStep ==
    ASSUME IInv, NEW r \in Request, NEW x \in RequestState,
           UNCHANGED <<posts, conn>>,
           req' = [req EXCEPT ![r] = x],
           x.seen \subseteq {x.user} \cap User,
           x.conn = req[r].conn,
           x.conn # NoConn => x.user = req[r].user,
           Holds(r)', Writes(r)',
           x.wrote \cap LockedByOthers(r) = {}
    PROVE  IInv'
<1>1. /\ req \in [Request -> RequestState]
      /\ \A q \in Request : req'[q] = IF q = r THEN x ELSE req[q]
  BY DEF IInv, TypeOK
<1>2. TypeOK'
  BY <1>1 DEF IInv, TypeOK
<1>3. Isolation'
  BY <1>1 DEF IInv, Isolation
<1>4. ContextOfHolder'
  BY <1>1 DEF IInv, ContextOfHolder, Mine
<1>5. \A q \in Request : Holds(q)' /\ Writes(q)'
  BY <1>1 DEF IInv, Holds, Writes, Mine, At, NewOwner
<1>6. ASSUME NEW p \in Request, NEW q \in Request, p # q
      PROVE  req'[p].wrote \cap req'[q].wrote = {}
  <2>1. req[p].wrote \cap req[q].wrote = {}
    BY <1>6 DEF IInv, Apart
  <2>2. CASE p = r
    BY <1>1, <1>6, <2>2 DEF LockedByOthers
  <2>3. CASE q = r
    BY <1>1, <1>6, <2>3 DEF LockedByOthers
  <2> QED
    BY <1>1, <2>1, <2>2, <2>3
<1> QED
  BY <1>2, <1>3, <1>4, <1>5, <1>6 DEF IInv, Apart

\* A step that changes one connection that no request has.
LEMMA ConnectionStep ==
    ASSUME IInv, NEW c \in Conn, NEW d \in Connection,
           UNCHANGED <<posts, req>>,
           conn' = [conn EXCEPT ![c] = d],
           \A r \in Request : Mine(r) # c
    PROVE  IInv'
<1>1. \A e \in Conn : conn'[e] = IF e = c THEN d ELSE conn[e]
  BY DEF IInv, TypeOK
<1>2. TypeOK'
  BY DEF IInv, TypeOK
<1>3. Isolation' /\ \A r \in Request : Holds(r)' /\ Writes(r)'
  BY DEF IInv, Isolation, Holds, Writes, Mine, At, NewOwner
<1>4. \A q, r \in Request : Apart(q, r)'
  BY DEF IInv, Apart
<1>5. d.state = "idle" => d.setting \notin User
  BY RowSecurityAssumption DEF Connection, Unnamed
<1>6. \A r \in Request : Mine(r) # NoConn => Mine(r) \in Conn \ {c}
  BY DEF IInv, TypeOK, RequestState, Mine
<1>7. ContextOfHolder'
  BY <1>1, <1>5, <1>6 DEF IInv, ContextOfHolder, Mine
<1> QED
  BY <1>2, <1>3, <1>4, <1>7 DEF IInv

\* A request gives its connection up and has changed at most rows it locked.
LEMMA LetGo ==
    ASSUME IInv, NEW r \in Request, NEW x \in RequestState,
           posts' \in [Post -> PostRow],
           \A p \in Post : posts'[p].by = posts'[p].owner,
           \A p \in Post \ req[r].wrote : posts'[p] = posts[p],
           conn' \in [Conn -> Connection],
           \A c \in Conn : c # Mine(r) => conn'[c] = conn[c],
           req' = [req EXCEPT ![r] = x],
           x.pc \in {"idle", "answer"}, x.conn = NoConn, x.wrote = {},
           x.seen \subseteq {x.user} \cap User
    PROVE  IInv'
<1>1. /\ req \in [Request -> RequestState]
      /\ \A q \in Request : req'[q] = IF q = r THEN x ELSE req[q]
  BY DEF IInv, TypeOK
<1>2. TypeOK'
  BY <1>1 DEF IInv, TypeOK
<1>3. Isolation'
  BY <1>1 DEF IInv, Isolation
<1>4. \A q \in Request \ {r} : Mine(q) # NoConn => Mine(q) \in Conn /\ Mine(q) # Mine(r)
  BY <1>1 DEF IInv, ContextOfHolder, RequestState, Mine
<1>5. \A c \in Conn : conn'[c].state = "idle" => conn'[c].setting \notin User
  BY RowSecurityAssumption DEF Connection, Unnamed
<1>6. ContextOfHolder'
  <2>1. ASSUME NEW q \in Request, Mine(q)' # NoConn
        PROVE  /\ q # r
               /\ Mine(q)' = Mine(q)
               /\ conn'[Mine(q)] = conn[Mine(q)]
               /\ req'[q].user = req[q].user
    BY <1>1, <1>4, <2>1 DEF Mine
  <2>2. ASSUME NEW q \in Request, Mine(q)' # NoConn
        PROVE  /\ conn'[Mine(q)'].state = "tx"
               /\ conn'[Mine(q)'].setting \in User => conn'[Mine(q)'].setting = req'[q].user
    BY <2>1, <2>2 DEF IInv, ContextOfHolder
  <2>3. ASSUME NEW q \in Request, Mine(q)' # NoConn, NEW s \in Request \ {q}
        PROVE  Mine(s)' # Mine(q)'
    BY <1>1, <2>1, <2>3 DEF IInv, ContextOfHolder, Mine
  <2> QED
    BY <1>5, <2>2, <2>3 DEF ContextOfHolder, Mine
<1>7. ASSUME NEW q \in Request PROVE Holds(q)' /\ Writes(q)'
  <2>1. CASE q = r
    BY <1>1, <2>1 DEF Holds, Writes, Mine, InTx
  <2>2. CASE q # r
    <3>1. \A p \in req[q].wrote : p \in Post /\ p \notin req[r].wrote
      BY <1>1, <2>2 DEF IInv, Apart, RequestState
    <3>2. \A p \in req[q].wrote : posts'[p] = posts[p]
      BY <3>1
    <3> QED
      BY <1>1, <2>2, <3>2 DEF IInv, Holds, Writes, Mine, At, NewOwner
  <2> QED
    BY <2>1, <2>2
<1>8. \A p, q \in Request : Apart(p, q)'
  BY <1>1 DEF IInv, Apart
<1> QED
  BY <1>2, <1>3, <1>6, <1>7, <1>8 DEF IInv

\* Within a transaction the setting is the request's user or names nobody, so
\* the policies admit only rows of that user.
LEMMA OwnRowsOnly ==
    ASSUME IInv, NEW r \in Request, req[r].pc \in {"statement", "locking"}
    PROVE  /\ Mine(r) \in Conn
           /\ Setting(r) \in User => Setting(r) = req[r].user
           /\ \A p \in Visible(Setting(r)) :
                 posts[p].owner = req[r].user /\ req[r].user \in User
           /\ \A u : Checks(u, Setting(r)) => u = req[r].user /\ u \in User
<1>1. Mine(r) # NoConn /\ Mine(r) \in Conn
  BY DEF IInv, Holds, InTx, TypeOK, RequestState, Mine
<1>2. Setting(r) \in User => Setting(r) = req[r].user
  BY <1>1 DEF IInv, ContextOfHolder, Setting
<1> QED
  BY <1>1, <1>2 DEF Visible, Checks

\* Rows that a statement locks and writes, and owners of rows it returns, that
\* are its user's.
Own(r, wrote, seen) ==
    /\ wrote \subseteq Post /\ wrote \cap LockedByOthers(r) = {}
    /\ seen \subseteq {req[r].user} \cap User
    /\ \A p \in wrote : /\ req[r].user \in User
                        /\ posts[p].owner \in {req[r].user, NoUser}
                        /\ req[r].op = "update" => NewOwner(r, p) = req[r].user

\* A statement that has run, or goes on to its next row, keeps to such rows.
LEMMA ReachesStep ==
    ASSUME IInv, NEW r \in Request, req[r].pc \in {"statement", "locking"},
           NEW left \in SUBSET Post, NEW wrote, NEW seen,
           Ran(r, wrote, seen) \/ Reaches(r, left, wrote, seen),
           Own(r, wrote, seen),
           req[r].op = "insert" => req[r].owner = req[r].user /\ req[r].user \in User
    PROVE  IInv'
<1> DEFINE Mid(pc, rest, p) == [req[r] EXCEPT !.pc = pc, !.want = rest, !.next = p,
                                            !.wrote = wrote, !.seen = seen]
<1>1. req[r] \in RequestState
  BY DEF IInv, TypeOK
<1>2. PICK pc \in {"commit", "rollback", "locking"}, rest \in SUBSET Post,
           p \in Post \cup {NoRow} : req' = [req EXCEPT ![r] = Mid(pc, rest, p)]
  <2>1. CASE Ran(r, wrote, seen)
    <3>1. Ending(r) \in {"commit", "rollback"}
      BY DEF Ending
    <3>2. req' = [req EXCEPT ![r] = Mid(Ending(r), {}, NoRow)]
      BY <2>1 DEF Ran
    <3> HIDE DEF Mid
    <3> QED
      BY <3>1, <3>2
  <2>2. CASE left # {} /\ Reaches(r, left, wrote, seen)
    <3>1. PICK p \in left : req' = [req EXCEPT ![r] = Mid("locking", left, p)]
      BY <2>2 DEF Reaches
    <3> HIDE DEF Mid
    <3> QED
      BY <3>1
  <2> QED
    BY <2>1, <2>2 DEF Reaches
<1> DEFINE x == Mid(pc, rest, p)
<1>3. /\ x \in RequestState
      /\ x.user = req[r].user /\ x.op = req[r].op /\ x.owner = req[r].owner
      /\ x.conn = req[r].conn /\ x.pc = pc /\ x.wrote = wrote /\ x.seen = seen
  BY <1>1 DEF RequestState, Pc, Caller, Own
<1>4. req' = [req EXCEPT ![r] = x] /\ req'[r] = x
  BY <1>2 DEF IInv, TypeOK
<1>5. UNCHANGED <<posts, conn>>
  BY DEF Ran, Reaches
<1> HIDE DEF x
<1>6. Holds(r)'
  BY <1>3, <1>4 DEF IInv, Holds, InTx, Mine
<1>7. Writes(r)'
  BY <1>3, <1>4, <1>5 DEF Writes, Own, NewOwner
<1> QED
  BY <1>3, <1>4, <1>5, <1>6, <1>7, RequestStep DEF Own

\* A request that has to roll back has written rows of its own or nothing.
LEMMA RollingBackStep ==
    ASSUME IInv, NEW r \in Request, req[r].pc \in InTx,
           NEW wrote \in SUBSET req[r].wrote, NEW gone \in BOOLEAN,
           UNCHANGED <<posts, conn>>,
           req' = [req EXCEPT ![r] = RollingBack(r, wrote, gone)]
    PROVE  IInv'
<1> DEFINE x == RollingBack(r, wrote, gone)
<1>1. req[r] \in RequestState
  BY DEF IInv, TypeOK
<1>2. /\ x \in RequestState
      /\ x.user = req[r].user /\ x.seen = {} /\ x.conn = req[r].conn
      /\ x.pc = "rollback" /\ x.wrote = wrote
  BY <1>1 DEF RollingBack, Idle, RequestState, Pc, Op, Caller, Mine
<1>3. req'[r] = x
  BY DEF IInv, TypeOK
<1> HIDE DEF x
<1>4. Holds(r)' /\ Writes(r)'
  BY <1>2, <1>3 DEF IInv, Holds, Writes, InTx, Mine
<1>5. x.wrote \cap LockedByOthers(r) = {}
  BY <1>2 DEF IInv, Apart, LockedByOthers
<1> QED
  BY <1>2, <1>4, <1>5, RequestStep DEF x

\* A statement that fails has written nothing.
LEMMA FailsStep ==
    ASSUME IInv, NEW r \in Request, req[r].pc \in {"statement", "locking"}, Fails(r)
    PROVE  IInv'
<1>1. req[r].gone \in BOOLEAN /\ {} \in SUBSET req[r].wrote /\ req[r].pc \in InTx
  BY DEF IInv, TypeOK, RequestState, InTx
<1> QED
  BY <1>1, RollingBackStep DEF Fails

\* The policies decide what a statement reads, writes and finds.
LEMMA StatementStep ==
    ASSUME IInv, NEW r \in Request, Statement(r)
    PROVE  IInv'
<1>t. /\ req[r] \in RequestState
      /\ req[r].pc \in {"statement", "locking"}
  BY DEF IInv, TypeOK, Statement, At
<1>o. /\ \A p \in Visible(Setting(r)) :
            posts[p].owner = req[r].user /\ req[r].user \in User
      /\ \A u : Checks(u, Setting(r)) => u = req[r].user /\ u \in User
  BY <1>t, OwnRowsOnly
<1>1. CASE Select(r)
  <2>1. PICK P \in SUBSET Visible(Setting(r)) : Ran(r, {}, Owners(P))
    BY <1>1 DEF Select
  <2>2. Own(r, {}, Owners(P))
    BY <1>o, <2>1 DEF Own, Owners
  <2> QED
    BY <1>1, <1>t, <2>1, <2>2, ReachesStep DEF Select
<1>2. CASE Insert(r)
  <2>1. PICK p \in Post \ LockedByOthers(r) :
           posts[p] = NoPost /\ Ran(r, {p}, {req[r].owner})
    BY <1>2 DEF Insert
  <2>2. req[r].op = "insert" /\ req[r].owner = req[r].user /\ req[r].user \in User
    BY <1>2, <1>o DEF Insert
  <2>3. Own(r, {p}, {req[r].owner})
    BY <2>1, <2>2 DEF Own, NoPost
  <2> QED
    BY <1>t, <2>1, <2>2, <2>3, ReachesStep
<1>3. CASE Scan(r)
  <2>1. /\ req[r].op # "insert"
        /\ Reaches(r, req[r].want \cap Visible(Setting(r)), {}, {})
    BY <1>3 DEF Scan
  <2>2. req[r].want \cap Visible(Setting(r)) \in SUBSET Post
    BY DEF Visible
  <2>3. Own(r, {}, {})
    BY DEF Own
  <2> QED
    BY <1>t, <2>1, <2>2, <2>3, ReachesStep
<1>4. CASE Fails(r)
  BY <1>t, <1>4, FailsStep
<1> QED
  BY <1>1, <1>2, <1>3, <1>4 DEF Statement

\* And what becomes of each row once it is locked.
LEMMA LockStep ==
    ASSUME IInv, NEW r \in Request, Lock(r)
    PROVE  IInv'
<1> DEFINE p == req[r].next
           left == req[r].want \ {p}
<1>t. /\ req[r] \in RequestState
      /\ req[r].pc = "locking"
      /\ left \in SUBSET Post
      /\ p \notin LockedByOthers(r)
  BY DEF IInv, TypeOK, RequestState, Lock, At
<1>o. /\ \A q \in Visible(Setting(r)) :
            posts[q].owner = req[r].user /\ req[r].user \in User
      /\ \A u : Checks(u, Setting(r)) => u = req[r].user /\ u \in User
  BY <1>t, OwnRowsOnly
<1>w. Own(r, req[r].wrote, req[r].seen)
  <2>1. req[r].wrote \cap LockedByOthers(r) = {}
    BY DEF IInv, Apart, LockedByOthers
  <2> QED
    BY <1>t, <2>1 DEF IInv, Writes, Isolation, Own, RequestState
<1>i. req[r].op = "insert" => req[r].owner = req[r].user /\ req[r].user \in User
  BY <1>t DEF IInv, Writes
<1>1. CASE /\ p \in Visible(Setting(r)) /\ Checks(NewOwner(r, p), Setting(r))
           /\ Reaches(r, left, req[r].wrote \cup {p}, req[r].seen \cup {NewOwner(r, p)})
  <2>1. /\ p \in Post
        /\ posts[p].owner = req[r].user /\ req[r].user \in User
        /\ NewOwner(r, p) = req[r].user
    BY <1>1, <1>o DEF Visible
  <2>2. Own(r, req[r].wrote \cup {p}, req[r].seen \cup {NewOwner(r, p)})
    BY <1>t, <1>w, <2>1 DEF Own
  <2> QED
    BY <1>1, <1>t, <1>i, <2>2, ReachesStep
<1>2. CASE Reaches(r, left, req[r].wrote, req[r].seen)
  BY <1>2, <1>t, <1>w, <1>i, ReachesStep
<1>3. CASE Fails(r)
  BY <1>3, <1>t, FailsStep
<1> QED
  BY <1>1, <1>2, <1>3 DEF Lock

\* A request whose client has gone still has its connection and its rows.
LEMMA DropStep ==
    ASSUME IInv, NEW r \in Request, Drop(r)
    PROVE  IInv'
<1>t. /\ req[r] \in RequestState
      /\ req[r].pc \in InTx
      /\ UNCHANGED <<posts, conn>>
  BY DEF IInv, TypeOK, Drop, Holds
<1>1. CASE req' = [req EXCEPT ![r] = RollingBack(r, req[r].wrote, TRUE)]
  BY <1>1, <1>t, RollingBackStep
<1>2. CASE req' = [req EXCEPT ![r].gone = TRUE]
  <2> DEFINE x == [req[r] EXCEPT !.gone = TRUE]
  <2>1. req' = [req EXCEPT ![r] = x] /\ req'[r] = x
    BY <1>2 DEF IInv, TypeOK
  <2>2. x \in RequestState
    BY <1>t DEF RequestState
  <2>3. /\ x.pc = req[r].pc /\ x.user = req[r].user /\ x.op = req[r].op
        /\ x.owner = req[r].owner /\ x.conn = req[r].conn /\ x.wrote = req[r].wrote
        /\ x.seen = req[r].seen
    BY <1>t DEF RequestState
  <2> HIDE DEF x
  <2>4. Holds(r)' /\ Writes(r)'
    BY <1>t, <2>1, <2>3 DEF IInv, Holds, Writes, InTx, Mine, NewOwner
  <2>5. x.wrote \cap LockedByOthers(r) = {} /\ x.seen \subseteq {x.user} \cap User
    BY <2>3 DEF IInv, Apart, LockedByOthers, Isolation
  <2> QED
    BY <1>t, <2>1, <2>2, <2>3, <2>4, <2>5, RequestStep
<1> QED
  BY <1>1, <1>2 DEF Drop

\* The two ends of a request, and the ways into and through a transaction.
LEMMA StartStep ==
    ASSUME IInv, NEW r \in Request, NEW u \in Caller, NEW op \in Op,
           NEW want \in SUBSET Post, NEW claim \in Caller, NEW knows \in BOOLEAN,
           Start(r, u, op, want, claim, knows)
    PROVE  IInv'
<1> DEFINE x == [Idle EXCEPT !.pc = "begin", !.user = u, !.op = op, !.want = want,
                             !.owner = OwnerWritten(u, op, claim, knows)]
<1>1. /\ x \in RequestState
      /\ x.pc = "begin" /\ x.seen = {} /\ x.wrote = {} /\ x.conn = NoConn
  BY DEF Idle, RequestState, Pc, OwnerWritten, Caller
<1>2. req' = [req EXCEPT ![r] = x] /\ UNCHANGED <<posts, conn>>
  BY DEF Start
<1>3. req[r].conn = NoConn
  BY DEF Start, IInv, Holds, At, Mine, InTx
<1>4. req'[r] = x
  BY <1>2 DEF IInv, TypeOK
<1>5. Holds(r)' /\ Writes(r)'
  BY <1>1, <1>4 DEF Holds, Writes, Mine, InTx
<1> HIDE DEF x
<1> QED
  BY <1>1, <1>2, <1>3, <1>5, RequestStep

LEMMA BeginStep ==
    ASSUME IInv, NEW r \in Request, NEW c \in Conn, Begin(r, c)
    PROVE  IInv'
<1>1. /\ req[r] \in RequestState /\ req \in [Request -> RequestState]
      /\ conn \in [Conn -> Connection]
      /\ conn[c].state = "idle"
      /\ At(r, "begin")
      /\ UNCHANGED posts
  BY DEF IInv, TypeOK, Begin
<1>2. \A q \in Request : Mine(q) # c
  BY <1>1, RowSecurityAssumption DEF IInv, ContextOfHolder
<1>3. conn[c].setting \in Unnamed
  BY <1>1 DEF Connection
<1>4. /\ \A e \in Conn : e # c => conn'[e] = conn[e]
      /\ conn'[c].state = "tx" /\ conn'[c].setting = conn[c].setting
      /\ conn' \in [Conn -> Connection]
  <2>1. conn' = [conn EXCEPT ![c].state = "tx", ![c].saved = conn[c].setting]
    BY DEF Begin
  <2> QED
    BY <1>1, <1>3, <2>1 DEF Connection, Unnamed, Caller
<1>5. /\ \A q \in Request \ {r} : req'[q] = req[q]
      /\ req'[r].pc \in {"statement", "setConfig"} /\ req'[r].conn = c
      /\ req'[r].user = req[r].user /\ req'[r].seen = req[r].seen
      /\ req'[r].wrote = req[r].wrote /\ req[r].wrote = {}
      /\ req' \in [Request -> RequestState]
  <2>1. req' = [req EXCEPT ![r].pc = IF req[r].user = NoUser THEN "statement"
                                                             ELSE "setConfig",
                           ![r].conn = c]
    BY DEF Begin
  <2>2. req[r].wrote = {}
    BY <1>1 DEF IInv, Writes, At
  <2> QED
    BY <1>1, <2>1, <2>2 DEF RequestState, Pc
<1>6. TypeOK'
  BY <1>1, <1>4, <1>5 DEF IInv, TypeOK
<1>7. Isolation'
  BY <1>1, <1>5 DEF IInv, Isolation
<1>8. ContextOfHolder'
  <2>1. c # NoConn
    BY RowSecurityAssumption
  <2>2. \A q \in Request \ {r} : Mine(q)' = Mine(q) /\ (Mine(q) # NoConn => Mine(q) \in Conn)
    BY <1>1, <1>5 DEF Mine, RequestState
  <2>3. Mine(r)' = c
    BY <1>5 DEF Mine
  <2>4. conn'[c].setting \notin User
    BY <1>3, <1>4, RowSecurityAssumption DEF Unnamed
  <2>5. \A e \in Conn : conn'[e].state = "idle" => conn'[e].setting \notin User
    BY <1>4, <2>4 DEF IInv, ContextOfHolder
  <2>6. ASSUME NEW q \in Request, Mine(q)' # NoConn
        PROVE  /\ conn'[Mine(q)'].state = "tx"
               /\ conn'[Mine(q)'].setting \in User => conn'[Mine(q)'].setting = req'[q].user
               /\ \A s \in Request \ {q} : Mine(s)' # Mine(q)'
    <3>1. CASE q = r
      BY <1>2, <1>4, <2>2, <2>3, <2>4, <3>1
    <3>2. CASE q # r
      <4>1. Mine(q)' = Mine(q) /\ conn'[Mine(q)] = conn[Mine(q)] /\ req'[q] = req[q]
        BY <1>2, <1>4, <1>5, <2>2, <2>6, <3>2
      <4> QED
        BY <1>2, <2>2, <2>3, <2>6, <3>2, <4>1 DEF IInv, ContextOfHolder
    <3> QED
      BY <3>1, <3>2
  <2> QED
    BY <2>5, <2>6 DEF ContextOfHolder, Mine
<1>9. \A q \in Request : Holds(q)' /\ Writes(q)'
  BY <1>1, <1>5, RowSecurityAssumption DEF IInv, Holds, Writes, Mine, InTx, NewOwner
<1>10. \A p, q \in Request : Apart(p, q)'
  BY <1>5 DEF IInv, Apart
<1> QED
  BY <1>6, <1>7, <1>8, <1>9, <1>10 DEF IInv

LEMMA SetConfigStep ==
    ASSUME IInv, NEW r \in Request, SetConfig(r)
    PROVE  IInv'
<1>1. /\ req[r] \in RequestState /\ req \in [Request -> RequestState]
      /\ conn \in [Conn -> Connection]
      /\ At(r, "setConfig") /\ req[r].wrote = {}
      /\ UNCHANGED posts
  BY DEF IInv, TypeOK, SetConfig, Writes, At
<1> DEFINE c == Mine(r)
<1>2. c \in Conn /\ c # NoConn /\ conn[c].state = "tx"
  BY <1>1 DEF IInv, Holds, At, RequestState, Mine, ContextOfHolder, InTx
<1>3. conn' = [conn EXCEPT ![c] = SetLocal(conn[c], req[r].user)]
  BY DEF SetConfig
<1>4. /\ \A e \in Conn : e # c => conn'[e] = conn[e]
      /\ conn'[c].state = "tx" /\ conn'[c].setting = req[r].user
      /\ conn' \in [Conn -> Connection]
  <2>1. conn[c] \in Connection /\ req[r].user \in Caller
    BY <1>1, <1>2 DEF RequestState
  <2>2. /\ SetLocal(conn[c], req[r].user).state = "tx"
        /\ SetLocal(conn[c], req[r].user).setting = req[r].user
        /\ SetLocal(conn[c], req[r].user) \in Connection
    BY <1>2, <2>1 DEF SetLocal, Fallback, Connection, Unnamed
  <2> HIDE DEF c
  <2> QED
    BY <1>1, <1>2, <1>3, <2>2
<1>5. /\ \A q \in Request \ {r} : req'[q] = req[q]
      /\ req'[r].pc = "statement" /\ req'[r].conn = req[r].conn
      /\ req'[r].user = req[r].user /\ req'[r].seen = req[r].seen
      /\ req'[r].wrote = req[r].wrote
      /\ req' \in [Request -> RequestState]
  <2>1. req' = [req EXCEPT ![r].pc = "statement"]
    BY DEF SetConfig
  <2> QED
    BY <1>1, <2>1 DEF RequestState, Pc
<1>6. TypeOK'
  BY <1>1, <1>4, <1>5 DEF IInv, TypeOK
<1>7. Isolation'
  BY <1>1, <1>5 DEF IInv, Isolation
<1>8. \A q \in Request : Mine(q)' = Mine(q) /\ req'[q].user = req[q].user
  BY <1>5 DEF Mine
<1>9. ContextOfHolder'
  <2>1. ASSUME NEW e \in Conn, conn'[e].state = "idle" PROVE conn'[e].setting \notin User
    BY <1>4, <2>1 DEF IInv, ContextOfHolder
  <2>2. ASSUME NEW q \in Request \ {r}, Mine(q) # NoConn
        PROVE  Mine(q) \in Conn /\ conn'[Mine(q)] = conn[Mine(q)]
    BY <1>1, <1>2, <1>4, <2>2 DEF IInv, ContextOfHolder, RequestState, Mine
  <2>3. ASSUME NEW q \in Request, Mine(q)' # NoConn
        PROVE  /\ conn'[Mine(q)'].state = "tx"
               /\ conn'[Mine(q)'].setting \in User => conn'[Mine(q)'].setting = req'[q].user
    <3>1. CASE q = r
      BY <1>4, <1>8, <3>1
    <3>2. CASE q # r
      BY <1>8, <2>2, <2>3, <3>2 DEF IInv, ContextOfHolder
    <3> QED
      BY <3>1, <3>2
  <2>4. ASSUME NEW q \in Request, Mine(q)' # NoConn, NEW s \in Request \ {q}
        PROVE  Mine(s)' # Mine(q)'
    BY <1>8, <2>4 DEF IInv, ContextOfHolder
  <2> QED
    BY <2>1, <2>3, <2>4 DEF ContextOfHolder
<1>10. \A q \in Request : Holds(q)' /\ Writes(q)'
  BY <1>1, <1>5, <1>8 DEF IInv, Holds, Writes, At, NewOwner, InTx
<1>11. \A p, q \in Request : Apart(p, q)'
  BY <1>5 DEF IInv, Apart
<1> QED
  BY <1>6, <1>7, <1>9, <1>10, <1>11 DEF IInv

\* What was set for a transaction ends with it.
LEMMA EndedConnection ==
    ASSUME NEW c \in Connection
    PROVE  Ended(c) \in Connection
BY DEF Ended, Connection

LEMMA CommitStep ==
    ASSUME IInv, NEW r \in Request, Commit(r)
    PROVE  IInv'
<1>1. /\ req[r] \in RequestState
      /\ posts \in [Post -> PostRow]
      /\ conn \in [Conn -> Connection]
      /\ At(r, "commit")
      /\ Mine(r) \in Conn
      /\ req[r].seen \subseteq {req[r].user} \cap User
  BY DEF IInv, TypeOK, Commit, Holds, InTx, At, Mine, RequestState, Isolation
<1> DEFINE x == IF req[r].gone
                THEN Idle
                ELSE [Idle EXCEPT !.pc = "answer", !.user = req[r].user,
                                  !.seen = req[r].seen]
<1>2. /\ x \in RequestState
      /\ x.pc \in {"idle", "answer"} /\ x.conn = NoConn /\ x.wrote = {}
      /\ x.seen \subseteq {x.user} \cap User
  BY <1>1 DEF RequestState, Pc, Op, Caller, Idle
<1>3. req' = [req EXCEPT ![r] = x]
  BY DEF Commit
<1>4. /\ conn' \in [Conn -> Connection]
      /\ \A c \in Conn : c # Mine(r) => conn'[c] = conn[c]
  BY <1>1, EndedConnection DEF Commit
<1>5. ASSUME NEW p \in req[r].wrote
      PROVE  Written(r, p) \in PostRow /\ Written(r, p).by = Written(r, p).owner
  <2>1. CASE req[r].op = "insert"
    <3>1. req[r].owner = req[r].user /\ req[r].user \in Caller
      BY <1>1, <2>1 DEF IInv, Writes, RequestState, At
    <3> QED
      BY <2>1, <3>1 DEF Written, PostRow
  <2>2. CASE req[r].op = "update"
    <3>1. NewOwner(r, p) = req[r].user /\ req[r].user \in Caller
      BY <1>1, <1>5, <2>2 DEF IInv, Writes, RequestState, At
    <3> QED
      BY <2>2, <3>1 DEF Written, PostRow
  <2>3. CASE req[r].op \notin {"insert", "update"}
    BY <2>3 DEF Written, NoPost, PostRow, Caller
  <2> QED
    BY <2>1, <2>2, <2>3
<1>6. \A p \in Post : posts'[p] = IF p \in req[r].wrote THEN Written(r, p) ELSE posts[p]
  BY DEF Commit
<1>7. /\ posts' \in [Post -> PostRow]
      /\ \A p \in Post : posts'[p].by = posts'[p].owner
      /\ \A p \in Post \ req[r].wrote : posts'[p] = posts[p]
  <2>1. \A p \in Post : posts'[p] \in PostRow /\ posts'[p].by = posts'[p].owner
    BY <1>1, <1>5, <1>6 DEF IInv, Isolation
  <2> QED
    BY <1>6, <2>1 DEF Commit
<1> HIDE DEF x
<1> QED
  BY <1>1, <1>2, <1>3, <1>4, <1>7, LetGo

\* An idle request has seen nothing.
LEMMA IdleState ==
    /\ Idle \in RequestState
    /\ Idle.pc = "idle" /\ Idle.conn = NoConn /\ Idle.wrote = {} /\ Idle.seen = {}
BY DEF Idle, RequestState, Pc, Op, Caller

LEMMA EndStep ==
    ASSUME IInv, NEW r \in Request, Rollback(r) \/ Answer(r) \/ GiveUp(r)
    PROVE  IInv'
<1>1. /\ posts \in [Post -> PostRow]
      /\ conn \in [Conn -> Connection]
      /\ \A p \in Post : posts[p].by = posts[p].owner
  BY DEF IInv, TypeOK, Isolation
<1>2. req' = [req EXCEPT ![r] = Idle] /\ posts' = posts
  BY DEF Rollback, Answer, GiveUp
<1>3. /\ conn' \in [Conn -> Connection]
      /\ \A c \in Conn : c # Mine(r) => conn'[c] = conn[c]
  BY <1>1, EndedConnection DEF Rollback, Answer, GiveUp
<1> QED
  BY <1>1, <1>2, <1>3, IdleState, LetGo

\* The pool touches only connections that no request has.
LEMMA ReplaceStep ==
    ASSUME IInv, NEW c \in Conn, Replace(c)
    PROVE  IInv'
<1>1. \A r \in Request : Mine(r) # c
  BY RowSecurityAssumption DEF Replace, IInv, ContextOfHolder
<1>2. NewConnection \in Connection
  BY DEF NewConnection, Connection, Unnamed
<1> QED
  BY <1>1, <1>2, ConnectionStep DEF Replace

\* A statement, its failure and a hang-up leave the request in its transaction,
\* on its connection, and its rows uncommitted.
LEMMA InPlace ==
    ASSUME IInv, NEW r \in Request, req[r].pc \in InTx,
           \/ Drop(r) \/ Fails(r)
           \/ \E left, wrote, seen : Ran(r, wrote, seen) \/ Reaches(r, left, wrote, seen)
    PROVE  /\ UNCHANGED <<posts, conn>>
           /\ \A q \in Request \ {r} : req'[q] = req[q]
           /\ req'[r].user = req[r].user
           /\ req'[r].pc \in InTx
           /\ \A q \in Request : req'[q].conn = req[q].conn
<1>t. req \in [Request -> RequestState] /\ req[r] \in RequestState
  BY DEF IInv, TypeOK
<1> DEFINE Same(x) == /\ x.user = req[r].user /\ x.conn = req[r].conn /\ x.pc \in InTx
                      /\ req' = [req EXCEPT ![r] = x]
                      /\ UNCHANGED <<posts, conn>>
<1>q. ASSUME NEW x, Same(x)
      PROVE  /\ UNCHANGED <<posts, conn>>
             /\ \A q \in Request \ {r} : req'[q] = req[q]
             /\ req'[r].user = req[r].user
             /\ req'[r].pc \in InTx
             /\ \A q \in Request : req'[q].conn = req[q].conn
  BY <1>t, <1>q
<1>b. ASSUME NEW wrote, NEW gone
      PROVE  LET x == RollingBack(r, wrote, gone)
             IN  x.user = req[r].user /\ x.conn = req[r].conn /\ x.pc \in InTx
  BY DEF RollingBack, Idle, Mine, InTx
<1>1. CASE Fails(r)
  <2>1. Same(RollingBack(r, {}, req[r].gone))
    BY <1>1, <1>b DEF Fails
  <2> HIDE DEF Same
  <2> QED
    BY <2>1, <1>q
<1>2. CASE Drop(r)
  <2>1. CASE req' = [req EXCEPT ![r].gone = TRUE]
    <3>1. Same([req[r] EXCEPT !.gone = TRUE])
      BY <1>2, <1>t, <2>1 DEF Drop, RequestState
    <3> HIDE DEF Same
    <3> QED
      BY <3>1, <1>q
  <2>2. CASE req' = [req EXCEPT ![r] = RollingBack(r, req[r].wrote, TRUE)]
    <3>1. Same(RollingBack(r, req[r].wrote, TRUE))
      BY <1>2, <1>b, <2>2 DEF Drop
    <3> HIDE DEF Same
    <3> QED
      BY <3>1, <1>q
  <2> QED
    BY <1>2, <2>1, <2>2 DEF Drop
<1>3. ASSUME NEW left, NEW wrote, NEW seen, Ran(r, wrote, seen) \/ Reaches(r, left, wrote, seen)
      PROVE  \E x : Same(x)
  <2> DEFINE Mid(pc, rest, p) == [req[r] EXCEPT !.pc = pc, !.want = rest, !.next = p,
                                              !.wrote = wrote, !.seen = seen]
  <2>1. ASSUME NEW pc \in InTx, NEW rest, NEW p, UNCHANGED <<posts, conn>>,
               req' = [req EXCEPT ![r] = Mid(pc, rest, p)]
        PROVE  Same(Mid(pc, rest, p))
    BY <1>t, <2>1 DEF RequestState
  <2>2. CASE Ran(r, wrote, seen)
    <3>1. Ending(r) \in InTx
      BY DEF Ending, InTx
    <3>2. req' = [req EXCEPT ![r] = Mid(Ending(r), {}, NoRow)] /\ UNCHANGED <<posts, conn>>
      BY <2>2 DEF Ran
    <3>3. Same(Mid(Ending(r), {}, NoRow))
      BY <2>1, <3>1, <3>2
    <3> HIDE DEF Same, Mid
    <3> QED
      BY <3>3
  <2>3. CASE left # {} /\ Reaches(r, left, wrote, seen)
    <3>1. PICK p \in left : req' = [req EXCEPT ![r] = Mid("locking", left, p)]
      BY <2>3 DEF Reaches
    <3>2. UNCHANGED <<posts, conn>> /\ "locking" \in InTx
      BY <2>3 DEF Reaches, InTx
    <3>3. Same(Mid("locking", left, p))
      BY <2>1, <3>1, <3>2
    <3> HIDE DEF Same, Mid
    <3> QED
      BY <3>3
  <2> QED
    BY <1>3, <2>2, <2>3 DEF Reaches
<1> HIDE DEF Same
<1> QED
  BY <1>1, <1>2, <1>3, <1>q

\* One case per action.
LEMMA NextIInv == IInv /\ [Next]_vars => IInv'
<1> SUFFICES ASSUME IInv, [Next]_vars PROVE IInv'
  OBVIOUS
<1>1. ASSUME NEW r \in Request, NEW u \in Caller, NEW op \in Op, NEW want \in SUBSET Post,
             NEW claim \in Caller, NEW knows \in BOOLEAN, Start(r, u, op, want, claim, knows)
      PROVE  IInv'
  BY <1>1, StartStep
<1>2. ASSUME NEW r \in Request, NEW c \in Conn, Begin(r, c) PROVE IInv'
  BY <1>2, BeginStep
<1>3. ASSUME NEW r \in Request, SetConfig(r) PROVE IInv'
  BY <1>3, SetConfigStep
<1>4. ASSUME NEW r \in Request, Statement(r) \/ Lock(r) PROVE IInv'
  BY <1>4, StatementStep, LockStep
<1>5. ASSUME NEW r \in Request, Commit(r) PROVE IInv'
  BY <1>5, CommitStep
<1>6. ASSUME NEW r \in Request, Rollback(r) \/ Answer(r) \/ GiveUp(r) PROVE IInv'
  BY <1>6, EndStep
<1>7. ASSUME NEW r \in Request, Fail(r) \/ Deadlock(r) PROVE IInv'
  <2>1. req[r].pc \in {"statement", "locking"} /\ Fails(r)
    BY <1>7 DEF Fail, Deadlock, Circle, Blocks, At
  <2> QED
    BY <2>1, FailsStep
<1>8. ASSUME NEW r \in Request, Drop(r) PROVE IInv'
  BY <1>8, DropStep
<1>9. ASSUME NEW c \in Conn, Replace(c) PROVE IInv'
  BY <1>9, ReplaceStep
<1>10. CASE UNCHANGED vars
  BY <1>10 DEF vars, IInv, TypeOK, Isolation, ContextOfHolder, Holds, Writes, Apart, Mine,
     NewOwner
<1> QED
  BY <1>1, <1>2, <1>3, <1>4, <1>5, <1>6, <1>7, <1>8, <1>9, <1>10 DEF Next, Serve

-----------------------------------------------------------------------------
(* The theorems *)

\* IInv holds at the start and after every step.
THEOREM InductiveInvariant == Spec => []IInv
BY InitIInv, NextIInv, PTL DEF Spec

\* Posts, connections and requests stay well-formed; in particular a
\* connection at rest never keeps a user's id to fall back to.
THEOREM TypeCorrect == Spec => []TypeOK
<1>1. IInv => TypeOK
  BY DEF IInv
<1> QED
  BY <1>1, InductiveInvariant, PTL

\* No request reads, writes or deletes another user's rows, whichever
\* connection it runs on and whatever happened on it before: the setting that
\* select_rows, insert_rows, update_rows and delete_rows make suffices.
THEOREM RowsAreIsolated == Spec => []Isolation
<1>1. IInv => Isolation
  BY DEF IInv
<1> QED
  BY <1>1, InductiveInvariant, PTL

\* A transaction runs as its request's user or as nobody.
THEOREM ContextIsTheHolders == Spec => []ContextOfHolder
<1>1. IInv => ContextOfHolder
  BY DEF IInv
<1> QED
  BY <1>1, InductiveInvariant, PTL

-----------------------------------------------------------------------------
(* RowSecurity implements OwnedTable *)

\* Where requests are, and whose the rows are.
LEMMA TableStart == Init => Table!Init
<1> SUFFICES ASSUME Init PROVE Table!Init
  OBVIOUS
<1> QED
  BY DEF Init, Table!Init, NoPost, Idle, Phase

\* A step that moves neither a row nor a request to another phase is no step
\* of the table.
LEMMA TableStutters ==
    ASSUME IInv, NEW r \in Request, UNCHANGED posts,
           \A q \in Request \ {r} : req'[q] = req[q],
           req'[r].user = req[r].user,
           Phase(req'[r].pc) = Phase(req[r].pc)
    PROVE  UNCHANGED Table!vars
BY DEF Table!vars

\* A request that ends leaves the table, with or without an effect.
LEMMA TableLeaves ==
    ASSUME IInv, NEW r \in Request, Rollback(r) \/ Answer(r) \/ GiveUp(r)
    PROVE  Table!Leave(r)
<1>1. req \in [Request -> RequestState] /\ ~At(r, "idle")
  BY DEF IInv, TypeOK, Rollback, Answer, GiveUp, At
<1>2. req' = [req EXCEPT ![r] = Idle] /\ posts' = posts
  BY DEF Rollback, Answer, GiveUp
<1>3. Phase(req[r].pc) # "none"
  BY <1>1 DEF Phase, At
<1>4. \A q \in Request : req'[q] = IF q = r THEN Idle ELSE req[q]
  BY <1>1, <1>2
<1>5. Idle.user = NoUser /\ Phase(Idle.pc) = "none"
  BY DEF Idle, Phase
<1>6. [q \in Request |-> req'[q].user]
        = [[q \in Request |-> req[q].user] EXCEPT ![r] = NoUser]
  BY <1>4, <1>5
<1>7. [q \in Request |-> Phase(req'[q].pc)]
        = [[q \in Request |-> Phase(req[q].pc)] EXCEPT ![r] = "none"]
  BY <1>4, <1>5
<1> QED
  BY <1>2, <1>3, <1>6, <1>7 DEF Table!Leave

\* COMMIT is the instant at which a request acts, in its client's presence or
\* not.
LEMMA TableTakesEffect ==
    ASSUME IInv, NEW r \in Request, Commit(r)
    PROVE  Table!TakeEffect(r)
<1>1. /\ req \in [Request -> RequestState]
      /\ posts \in [Post -> PostRow]
      /\ At(r, "commit")
  BY DEF IInv, TypeOK, Commit
<1>2. \A p \in Post : posts'[p] = IF p \in req[r].wrote THEN Written(r, p) ELSE posts[p]
  BY DEF Commit
<1>3. /\ \A q \in Request \ {r} : req'[q] = req[q]
      /\ \/ req'[r].pc = "answer" /\ req'[r].user = req[r].user
         \/ req'[r].pc = "idle" /\ req'[r].user = NoUser
  <2>1. /\ \A q \in Request \ {r} : req'[q] = req[q]
        /\ \/ req'[r] = Idle
           \/ req'[r] = [Idle EXCEPT !.pc = "answer", !.user = req[r].user,
                                     !.seen = req[r].seen]
    BY <1>1 DEF Commit
  <2>2. CASE req'[r] = Idle
    BY <2>1, <2>2 DEF Idle
  <2>3. CASE req'[r] = [Idle EXCEPT !.pc = "answer", !.user = req[r].user,
                                   !.seen = req[r].seen]
    BY <2>1, <2>3 DEF Idle
  <2> QED
    BY <2>1, <2>2, <2>3
<1>4. ASSUME NEW p \in req[r].wrote
      PROVE  /\ posts[p].owner \in {req[r].user, NoUser}
             /\ Written(r, p).owner \in {req[r].user, NoUser}
             /\ req[r].user \in User
  <2>1. /\ posts[p].owner \in {req[r].user, NoUser}
        /\ req[r].user \in User
    BY DEF IInv, Writes
  <2>2. CASE req[r].op = "insert"
    BY <1>1, <2>1, <2>2 DEF IInv, Writes, Written, At
  <2>3. CASE req[r].op = "update"
    BY <1>1, <2>1, <2>3 DEF IInv, Writes, Written, At
  <2>4. CASE req[r].op \notin {"insert", "update"}
    BY <2>1, <2>4 DEF Written, NoPost
  <2> QED
    BY <2>1, <2>2, <2>3, <2>4
<1>5. \A p \in Post :
         /\ posts'[p].owner \in User \cup {NoUser}
         /\ posts'[p].owner # posts[p].owner =>
               {posts[p].owner, posts'[p].owner} = {req[r].user, NoUser}
  BY <1>1, <1>2, <1>4 DEF PostRow, Caller
<1>6. Phase(req[r].pc) = "open" /\ Phase("answer") = "done" /\ Phase("idle") = "none"
  BY <1>1 DEF Phase, At
<1> QED
  BY <1>3, <1>5, <1>6 DEF Table!TakeEffect

\* Every step is one of the table's or none.
LEMMA TableSteps == IInv /\ [Next]_vars => [Table!Next]_(Table!vars)
<1> SUFFICES ASSUME IInv, [Next]_vars PROVE [Table!Next]_(Table!vars)
  OBVIOUS
<1>t. req \in [Request -> RequestState]
  BY DEF IInv, TypeOK
<1>1. ASSUME NEW r \in Request, NEW u \in Caller, NEW op \in Op, NEW want \in SUBSET Post,
             NEW claim \in Caller, NEW knows \in BOOLEAN, Start(r, u, op, want, claim, knows)
      PROVE  Table!Arrive(r, u)
  <2>1. /\ \A q \in Request \ {r} : req'[q] = req[q]
        /\ req'[r].pc = "begin" /\ req'[r].user = u
        /\ At(r, "idle")
        /\ UNCHANGED posts
    BY <1>t, <1>1 DEF Start, Idle
  <2>2. Phase(req[r].pc) = "none" /\ Phase(req'[r].pc) = "open"
    BY <2>1 DEF Phase, At
  <2> QED
    BY <2>1, <2>2 DEF Table!Arrive
<1>2. ASSUME NEW r \in Request,
             \/ \E c \in Conn : Begin(r, c)
             \/ SetConfig(r) \/ Statement(r) \/ Lock(r) \/ Deadlock(r) \/ Fail(r) \/ Drop(r)
      PROVE  UNCHANGED Table!vars
  <2>1. /\ UNCHANGED posts
        /\ \A q \in Request \ {r} : req'[q] = req[q]
        /\ req'[r].user = req[r].user
        /\ req[r].pc \in InTx \cup {"begin"}
        /\ req'[r].pc \in InTx
    <3>1. CASE \E c \in Conn : Begin(r, c)
      BY <1>t, <3>1 DEF Begin, At, RequestState, InTx
    <3>2. CASE SetConfig(r)
      BY <1>t, <3>2 DEF SetConfig, At, RequestState, InTx
    <3>3. CASE req[r].pc \in InTx /\ Fails(r)
      BY <3>3, InPlace
    <3>4. CASE Drop(r)
      <4>1. req[r].pc \in InTx
        BY <3>4 DEF Drop, IInv, Holds
      <4> QED
        BY <3>4, <4>1, InPlace
    <3>5. CASE req[r].pc \in InTx /\ \E left, wrote, seen :
                  Ran(r, wrote, seen) \/ Reaches(r, left, wrote, seen)
      BY <3>5, InPlace
    <3> QED
      <4>1. CASE Statement(r)
        BY <4>1, <3>3, <3>5 DEF Statement, At, InTx, Select, Insert, Scan
      <4>2. CASE Lock(r)
        BY <4>2, <3>3, <3>5 DEF Lock, At, InTx
      <4>3. CASE Deadlock(r) \/ Fail(r)
        BY <4>3, <3>3 DEF Deadlock, Circle, Blocks, Fail, At, InTx
      <4> QED
        BY <1>2, <3>1, <3>2, <3>4, <4>1, <4>2, <4>3
  <2>2. Phase(req'[r].pc) = Phase(req[r].pc)
    BY <2>1 DEF Phase, InTx
  <2> QED
    BY <2>1, <2>2, TableStutters
<1>3. ASSUME NEW c \in Conn, Replace(c)
      PROVE  UNCHANGED Table!vars
  BY <1>3 DEF Replace, Table!vars
<1>4. CASE UNCHANGED vars
  BY <1>4 DEF vars, Table!vars
<1> QED
  BY <1>1, <1>2, <1>3, <1>4, TableLeaves, TableTakesEffect DEF Next, Serve, Table!Next, Caller

\* Requests that share connections, settings and locks do to the table only
\* what OwnedTable says: each acts at its COMMIT or not at all, and on rows
\* that are its user's then; one whose client hangs up may still do so until
\* its connection is back, and an anonymous one changes nothing.
THEOREM KeepsTheTable == Spec => ImplementsTable
BY TableStart, TableSteps, InductiveInvariant, PTL DEF Spec, ImplementsTable, Table!Spec

-----------------------------------------------------------------------------
(* The pool loses no connection and is in no circle of waits *)

\* A transaction that has not ended is some request's.
Lent == \A c \in Conn : conn[c].state = "tx" => \E r \in Request : Mine(r) = c

\* A step after which the requests have the connections they had.
LEMMA LentStays ==
    ASSUME IInv, Lent,
           \A c \in Conn : conn'[c].state = "tx" => conn[c].state = "tx",
           \A q \in Request : req'[q].conn = req[q].conn
    PROVE  Lent'
BY DEF Lent, Mine

\* A step of one request that has none afterwards and left none in a
\* transaction.
LEMMA LentReturned ==
    ASSUME IInv, Lent, NEW r \in Request,
           \A q \in Request \ {r} : req'[q] = req[q],
           \A c \in Conn : c # Mine(r) => conn'[c] = conn[c],
           Mine(r) \in Conn => conn'[Mine(r)].state # "tx"
    PROVE  Lent'
<1> SUFFICES ASSUME NEW c \in Conn, conn'[c].state = "tx"
             PROVE  \E q \in Request : Mine(q)' = c
  BY DEF Lent
<1>1. c # Mine(r)
  OBVIOUS
<1>2. conn'[c] = conn[c]
  BY <1>1
<1>3. PICK q \in Request : Mine(q) = c
  BY <1>2 DEF Lent
<1>4. q # r
  BY <1>1, <1>3
<1> QED
  BY <1>3, <1>4 DEF Mine

LEMMA LentStep == IInv /\ Lent /\ [Next]_vars => Lent'
<1> SUFFICES ASSUME IInv, Lent, [Next]_vars PROVE Lent'
  OBVIOUS
<1>t. /\ req \in [Request -> RequestState]
      /\ conn \in [Conn -> Connection]
      /\ \A r \in Request : Holds(r)
  BY DEF IInv, TypeOK
<1>1. ASSUME NEW r \in Request, NEW u \in Caller, NEW op \in Op, NEW want \in SUBSET Post,
             NEW claim \in Caller, NEW knows \in BOOLEAN, Start(r, u, op, want, claim, knows)
      PROVE  Lent'
  <2>1. Mine(r) = NoConn /\ req'[r].conn = NoConn
    BY <1>t, <1>1 DEF Start, Holds, At, Idle, InTx
  <2>2. \A q \in Request : req'[q].conn = req[q].conn
    BY <1>t, <1>1, <2>1 DEF Start, Mine
  <2> QED
    BY <1>1, <2>2, LentStays DEF Start
<1>2. ASSUME NEW r \in Request, NEW c \in Conn, Begin(r, c)
      PROVE  Lent'
  <2>1. /\ Mine(r) = NoConn
        /\ req'[r].conn = c
        /\ \A q \in Request \ {r} : req'[q] = req[q]
        /\ \A e \in Conn \ {c} : conn'[e] = conn[e]
    BY <1>t, <1>2 DEF Begin, Holds, At, RequestState, InTx
  <2>2. ASSUME NEW e \in Conn, e # c, conn'[e].state = "tx"
        PROVE  \E q \in Request : Mine(q)' = e
    <3>1. PICK q \in Request : Mine(q) = e
      BY <2>1, <2>2 DEF Lent
    <3>2. q # r
      BY <2>1, <3>1, RowSecurityAssumption
    <3> QED
      BY <2>1, <3>1, <3>2 DEF Mine
  <2>3. Mine(r)' = c
    BY <2>1 DEF Mine
  <2> QED
    BY <2>2, <2>3 DEF Lent
<1>3. ASSUME NEW r \in Request, SetConfig(r)
      PROVE  Lent'
  <2>1. \A q \in Request : req'[q].conn = req[q].conn
    BY <1>t, <1>3 DEF SetConfig, RequestState
  <2>2. Mine(r) \in Conn
    BY <1>t, <1>3 DEF SetConfig, Holds, At, Mine, RequestState, InTx
  <2>3. conn' = [conn EXCEPT ![Mine(r)] = SetLocal(conn[Mine(r)], req[r].user)]
    BY <1>3 DEF SetConfig
  <2>4. SetLocal(conn[Mine(r)], req[r].user).state = conn[Mine(r)].state
    BY <1>t, <2>2 DEF SetLocal, Connection
  <2>5. \A c \in Conn : conn'[c].state = conn[c].state
    BY <1>t, <2>2, <2>3, <2>4
  <2> QED
    BY <2>1, <2>5, LentStays
<1>4. ASSUME NEW r \in Request,
             Statement(r) \/ Lock(r) \/ Deadlock(r) \/ Fail(r) \/ Drop(r)
      PROVE  Lent'
  <2>1. UNCHANGED conn /\ \A q \in Request : req'[q].conn = req[q].conn
    <3>1. req[r].pc \in InTx
      BY <1>4 DEF Statement, Lock, Deadlock, Circle, Blocks, Fail, Drop, IInv, Holds, At, InTx
    <3>2. \/ Drop(r) \/ Fails(r)
          \/ \E left, wrote, seen : Ran(r, wrote, seen) \/ Reaches(r, left, wrote, seen)
      BY <1>4 DEF Statement, Select, Insert, Scan, Lock, Deadlock, Fail
    <3> QED
      BY <3>1, <3>2, InPlace
  <2> QED
    BY <2>1, LentStays
<1>5. ASSUME NEW r \in Request, Commit(r) \/ Rollback(r) \/ Answer(r) \/ GiveUp(r)
      PROVE  Lent'
  <2>1. \A q \in Request \ {r} : req'[q] = req[q]
    BY <1>t, <1>5 DEF Commit, Rollback, Answer, GiveUp
  <2>2. CASE Commit(r) \/ Rollback(r)
    <3>1. conn' = [conn EXCEPT ![Mine(r)] = Ended(conn[Mine(r)])]
      BY <2>2 DEF Commit, Rollback
    <3>2. Mine(r) \in Conn => Ended(conn[Mine(r)]).state = "idle"
      BY <1>t DEF Ended, Connection
    <3>3. /\ \A c \in Conn : c # Mine(r) => conn'[c] = conn[c]
          /\ Mine(r) \in Conn => conn'[Mine(r)].state # "tx"
      BY <1>t, <3>1, <3>2
    <3> QED
      BY <2>1, <3>3, LentReturned
  <2>3. CASE Answer(r) \/ GiveUp(r)
    <3>1. Mine(r) = NoConn /\ UNCHANGED conn
      BY <1>t, <2>3 DEF Answer, GiveUp, Holds, At, InTx
    <3>2. Mine(r) \notin Conn
      BY <3>1, RowSecurityAssumption
    <3> QED
      BY <2>1, <3>1, <3>2, LentReturned
  <2> QED
    BY <1>5, <2>2, <2>3
<1>6. ASSUME NEW c \in Conn, Replace(c)
      PROVE  Lent'
  <2>1. UNCHANGED req /\ conn' = [conn EXCEPT ![c] = NewConnection]
    BY <1>6 DEF Replace
  <2>2. \A e \in Conn : conn'[e].state = "tx" => conn[e].state = "tx"
    BY <1>t, <2>1 DEF NewConnection
  <2> QED
    BY <2>1, <2>2, LentStays
<1>7. CASE UNCHANGED vars
  BY <1>7 DEF vars, Lent, Mine
<1> QED
  BY <1>1, <1>2, <1>3, <1>4, <1>5, <1>6, <1>7 DEF Next, Serve

LEMMA LentStart == Init => Lent
BY DEF Init, Lent, NewConnection

\* The requests that wait for a row wait for each other, unless the one they
\* wait for can go on; it holds a connection, and so waits for no other.
LEMMA OnlyRowsInACircle == IInv /\ Lent => NoHiddenStandstill
<1> SUFFICES ASSUME IInv, Lent, NEW r \in Request, ~At(r, "idle"),
                    \A q \in Request : ~At(q, "idle") => Waits(q)
             PROVE  \E S \in SUBSET Request : Circle(S)
  BY DEF NoHiddenStandstill
<1> DEFINE S == {s \in Request : \E q \in Request : Blocks(q, s)}
<1>1. ASSUME NEW q \in Request, req[q].pc \in InTx
      PROVE  q \in S
  <2>1. Waits(q) /\ req[q].pc \notin Borrowing
    BY <1>1 DEF InTx, At, Borrowing
  <2> QED
    BY <2>1 DEF Waits
<1>2. ASSUME NEW s \in S PROVE \E q \in S : Blocks(q, s)
  <2>1. PICK q \in Request : Blocks(q, s)
    BY <1>2
  <2>2. req[q].pc \in InTx
    BY <2>1 DEF Blocks, IInv, Writes, InTx
  <2> QED
    BY <2>1, <2>2, <1>1
<1>3. S # {}
  <2>1. CASE req[r].pc \in Borrowing /\ NoneIdle
    <3>1. PICK c \in Conn : conn[c].state # "idle"
      BY <2>1, RowSecurityAssumption DEF NoneIdle
    <3>2. conn[c].state = "tx"
      BY <3>1 DEF IInv, TypeOK, Connection
    <3>3. PICK q \in Request : Mine(q) = c
      BY <3>2 DEF Lent
    <3>4. req[q].pc \in InTx
      BY <3>3, RowSecurityAssumption DEF IInv, Holds
    <3> QED
      BY <3>4, <1>1
  <2>2. CASE ~(req[r].pc \in Borrowing /\ NoneIdle)
    BY <2>2 DEF Waits
  <2> QED
    BY <2>1, <2>2
<1> HIDE DEF S
<1>4. S \in SUBSET Request
  BY DEF S
<1> QED
  BY <1>2, <1>3, <1>4 DEF Circle

\* With any number of connections, rows and requests, whatever fails, hangs up
\* or deadlocks: the bulk writes of update_rows and delete_rows, which hold a
\* connection while they wait row by row, never stand still but in a circle of
\* row locks, which is Postgres' to break; the pool takes no part in it.
THEOREM NeverStandsStillUnseen == Spec => []NoHiddenStandstill
<1>1. Spec => []Lent
  BY LentStart, LentStep, InductiveInvariant, PTL DEF Spec
<1> QED
  BY <1>1, OnlyRowsInACircle, InductiveInvariant, PTL
=============================================================================
