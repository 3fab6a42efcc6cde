--------------------------- MODULE SessionsProofs ---------------------------
(***************************************************************************)
(* The safety of Sessions for any number of users, requests, connections,  *)
(* ids and instants, and for clients that race for a token or do not.      *)
(***************************************************************************)
EXTENDS Sessions, TLAPS

-----------------------------------------------------------------------------
(* The inductive invariant *)

\* A row has an id the sequence has given, expires within a TTL from now, and
\* belongs to a user that exists.
Rows ==
    \A s \in DOMAIN sess :
        /\ s < nextId
        /\ sess[s].exp <= now + RefreshTtl
        /\ Exists(sess[s].user)

\* A token in a client's hands has an id the sequence has given.
Known == \A t \in known : t < nextId

HasUser == {"selectUser", "insertSession", "begin", "revoke", "insert", "link",
            "commit", "landing", "loadEmail", "answer"}
Rotating == {"begin", "revoke", "insert", "link", "commit", "landing"}
Pending == {"link", "commit", "landing"}
HasNew == {"link", "commit", "landing", "loadEmail", "answer"}

\* The row that a refresh rotates is of its user, or went with the user.
Old(r) ==
    /\ req[r].pc \in HasUser => req[r].user \in User
    /\ req[r].pc = "lookup" => req[r].tok \in known \cup {NoSession}
    /\ req[r].pc \in Rotating =>
        /\ req[r].tok \in known
        /\ req[r].tok \in SessionId
        /\ req[r].tok < nextId
        /\ req[r].tok \in DOMAIN sess => sess[req[r].tok].user = req[r].user
        /\ req[r].tok \notin DOMAIN sess => users[req[r].user] = "deleted"

\* The row it has inserted has an id of its own; until it commits the row is
\* not there, and the old one is.
New(r) ==
    /\ req[r].pc \in HasNew =>
        /\ req[r].new \in SessionId
        /\ req[r].new < nextId
    /\ req[r].pc \in Pending =>
        /\ req[r].tok \in DOMAIN sess
        /\ req[r].tok < req[r].new
        /\ req[r].new \notin DOMAIN sess
        /\ req[r].new \notin known
        /\ sess[req[r].tok].exp <= req[r].exp
        /\ req[r].exp <= now + RefreshTtl

\* No other request has that id.
Apart(q, r) ==
    q # r /\ req[q].pc \in Pending /\ req[r].pc \in HasNew
        => req[q].new # req[r].new

\* A refresh that arrived with a spent token still has one.
Late(r) ==
    req[r].late => req[r].pc = "lookup" /\ Spent(req[r].tok)

IInv ==
    /\ TypeOK
    /\ Rows
    /\ Known
    /\ \A r \in Request : Old(r) /\ New(r)
    /\ \A q, r \in Request : Apart(q, r)
    /\ RotationAtomic
    /\ \A r \in Request : Late(r)

-----------------------------------------------------------------------------
(* It holds of the initial state and is kept by every step *)

\* At the start there are no rows and no requests.
LEMMA InitIInv == Init => IInv
<1> SUFFICES ASSUME Init PROVE IInv
  OBVIOUS
<1> USE SessionsAssumption DEF Init
<1>1. TypeOK
  BY SMT DEF TypeOK, SessionId, NoSession, Row, RequestState, Idle, Pc, Status
<1>2. Rows /\ Known /\ RotationAtomic
  BY DEF Rows, Known, RotationAtomic
<1>3. ASSUME NEW r \in Request PROVE Old(r) /\ New(r) /\ Late(r)
  BY DEF Old, New, Late, HasUser, Rotating, Pending, HasNew, Idle
<1>4. ASSUME NEW q \in Request, NEW r \in Request PROVE Apart(q, r)
  BY DEF Apart, Pending, Idle
<1> QED
  BY <1>1, <1>2, <1>3, <1>4 DEF IInv

\* A step that changes only the record of one request keeps IInv when the
\* record is right by itself and its new row, if any, is the one it had.
LEMMA QuietStep ==
    ASSUME IInv, NEW r \in Request, NEW q \in RequestState,
           UNCHANGED <<users, sess, nextId, now, known, minted>>,
           raced' \subseteq known,
           req' = [req EXCEPT ![r] = q],
           Old(r)', New(r)', Late(r)',
           q.pc \in HasNew => req[r].pc \in HasNew /\ q.new = req[r].new,
           q.pc \in Pending => req[r].pc \in Pending
    PROVE  IInv'
<1>1. TypeOK'
  BY DEF IInv, TypeOK
<1>2. Rows' /\ Known' /\ RotationAtomic'
  BY DEF IInv, Rows, Known, RotationAtomic, Exists
<1>3. \A x \in Request : req'[x] = IF x = r THEN q ELSE req[x]
  BY DEF IInv, TypeOK
<1>4. ASSUME NEW x \in Request PROVE Old(x)' /\ New(x)' /\ Late(x)'
  <2>1. CASE x = r
    BY <2>1
  <2>2. CASE x # r
    <3>1. req'[x] = req[x]
      BY <1>3, <2>2
    <3> QED
      BY <3>1 DEF IInv, Old, New, Late, Spent
  <2> QED
    BY <2>1, <2>2
<1>5. ASSUME NEW x \in Request, NEW y \in Request PROVE Apart(x, y)'
  BY <1>3 DEF IInv, Apart, Pending, HasNew
<1> QED
  BY <1>1, <1>2, <1>4, <1>5 DEF IInv

\* The statements that write no row, and the end of a request however it
\* comes, are such steps.
LEMMA QuietActions ==
    ASSUME IInv, NEW r \in Request,
           \/ StartRegister(r)
           \/ \E u \in User : StartLogin(r, u)
           \/ \E t \in known \cup {NoSession} : StartRefresh(r, t)
           \/ SelectUser(r) \/ Lookup(r) \/ Begin(r) \/ Revoke(r) \/ Link(r)
           \/ LoadEmail(r) \/ HangUp(r) \/ Drop(r)
    PROVE  IInv'
<1> DEFINE Quiet(q) ==
        /\ q \in RequestState
        /\ UNCHANGED <<users, sess, nextId, now, known, minted>>
        /\ raced' \subseteq known
        /\ req' = [req EXCEPT ![r] = q]
        /\ Old(r)' /\ New(r)' /\ Late(r)'
        /\ q.pc \in HasNew => req[r].pc \in HasNew /\ q.new = req[r].new
        /\ q.pc \in Pending => req[r].pc \in Pending
<1>q. ASSUME NEW q, Quiet(q) PROVE IInv'
  BY <1>q, QuietStep
<1> HIDE DEF Quiet
<1>t. /\ req \in [Request -> RequestState]
      /\ sess \in [DOMAIN sess -> Row]
      /\ DOMAIN sess \subseteq SessionId
      /\ known \subseteq SessionId
      /\ raced \subseteq known
      /\ nextId \in Nat
  BY SessionsAssumption DEF IInv, TypeOK
<1>r. Old(r) /\ New(r) /\ Late(r)
  BY DEF IInv
<1>f. Finish(r) /\ UNCHANGED <<users, sess, nextId, now, known, minted, raced>> => Quiet(Idle)
  BY <1>t DEF Quiet, Finish, Idle, RequestState, Pc, Old, New, Late, HasUser,
     Rotating, Pending, HasNew, NoSession
<1>1. CASE StartRegister(r)
  <2>1. Quiet([req[r] EXCEPT !.pc = "insertUser"])
    BY <1>t, <1>r, <1>1 DEF StartRegister, Goto, At, Quiet, RequestState, Pc, Old, New,
       Late, HasUser, Rotating, Pending, HasNew
  <2> QED
    BY <2>1, <1>q
<1>2. ASSUME NEW u \in User, StartLogin(r, u) PROVE IInv'
  <2>1. Quiet([req[r] EXCEPT !.pc = "selectUser", !.user = u])
    BY <1>t, <1>r, <1>2 DEF StartLogin, At, Quiet, RequestState, Pc, Old, New, Late,
       HasUser, Rotating, Pending, HasNew
  <2> QED
    BY <2>1, <1>q
<1>3. ASSUME NEW t \in known \cup {NoSession}, StartRefresh(r, t) PROVE IInv'
  <2>1. Quiet([req[r] EXCEPT !.pc = "lookup", !.tok = t, !.late = Spent(t)])
    BY <1>t, <1>r, <1>3 DEF StartRefresh, At, Quiet, RequestState, Pc, Old, New, Late,
       HasUser, Rotating, Pending, HasNew, Spent
  <2> QED
    BY <2>1, <1>q
<1>4. CASE SelectUser(r)
  <2>1. ASSUME Goto(r, "insertSession") PROVE Quiet([req[r] EXCEPT !.pc = "insertSession"])
    BY <1>t, <1>r, <1>4, <2>1 DEF SelectUser, Goto, At, Quiet, RequestState, Pc, Old,
       New, Late, HasUser, Rotating, Pending, HasNew
  <2> QED
    BY <2>1, <1>4, <1>f, <1>q DEF SelectUser
<1>5. CASE Lookup(r)
  <2>1. CASE Valid(req[r].tok)
    <3>0. /\ req[r].tok \in DOMAIN sess
          /\ req[r].tok \in SessionId
          /\ req[r].tok \in known
          /\ req[r].tok < nextId
          /\ sess[req[r].tok].user \in User
      BY <1>t, <1>r, <1>5, <2>1, SessionsAssumption DEF Valid, IInv, Rows, Row, Old,
         Lookup, At, SessionId, NoSession
    <3> DEFINE q == [req[r] EXCEPT !.pc = "begin", !.user = sess[req[r].tok].user]
    <3>2. /\ UNCHANGED <<users, sess, nextId, now, known, minted, raced>>
          /\ req' = [req EXCEPT ![r] = q]
          /\ ~req[r].late
      <4>1. req[r].late => Spent(req[r].tok)
        BY <1>r, <1>5 DEF Lookup, At, Late
      <4>2. ~Spent(req[r].tok)
        BY <1>t, <2>1, <3>0 DEF Valid, Spent, Row, IInv, TypeOK
      <4> QED
        BY <4>1, <4>2, <1>5, <2>1 DEF Lookup
    <3>3. q \in RequestState
      <4>1. req[r] \in RequestState
        BY <1>t
      <4> QED
        BY <4>1, <3>0 DEF RequestState, Pc
    <3>4. req'[r] = q
      BY <1>t, <3>2
    <3>5. Old(r)' /\ New(r)' /\ Late(r)'
      BY <1>t, <3>0, <3>2, <3>3, <3>4 DEF Old, New, Late, HasUser, Rotating,
         Pending, HasNew, RequestState
    <3>1. Quiet(q)
      BY <1>t, <3>2, <3>3, <3>5 DEF Quiet, HasNew, Pending, RequestState
    <3> QED
      BY <3>1, <1>q
  <2>2. CASE ~Valid(req[r].tok)
    BY <2>2, <1>5, <1>f, <1>q DEF Lookup
  <2> QED
    BY <2>1, <2>2
<1>6. CASE Begin(r)
  <2>1. Quiet([req[r] EXCEPT !.pc = "revoke"])
    BY <1>t, <1>r, <1>6 DEF Begin, Goto, At, Quiet, RequestState, Pc, Old, New, Late,
       HasUser, Rotating, Pending, HasNew
  <2> QED
    BY <2>1, <1>q
<1>7. CASE Revoke(r)
  <2>1. Quiet([req[r] EXCEPT !.pc = "insert"])
    BY <1>t, <1>r, <1>7 DEF Revoke, Goto, At, Quiet, RequestState, Pc, Old, New, Late,
       HasUser, Rotating, Pending, HasNew
  <2> QED
    BY <2>1, <1>q
<1>8. CASE Link(r)
  <2>1. Quiet([req[r] EXCEPT !.pc = "commit"])
    BY <1>t, <1>r, <1>8 DEF Link, Goto, At, Quiet, RequestState, Pc, Old, New, Late,
       HasUser, Rotating, Pending, HasNew
  <2> QED
    BY <2>1, <1>q
<1>9. CASE LoadEmail(r)
  <2>1. ASSUME Goto(r, "answer") PROVE Quiet([req[r] EXCEPT !.pc = "answer"])
    BY <1>t, <1>r, <1>9, <2>1 DEF LoadEmail, Goto, At, Quiet, RequestState, Pc, Old, New,
       Late, HasUser, Rotating, Pending, HasNew
  <2> QED
    BY <2>1, <1>9, <1>f, <1>q DEF LoadEmail
<1>10. CASE Drop(r)
  BY <1>10, <1>f, <1>q DEF Drop
<1>11. CASE HangUp(r)
  <2>1. Quiet([req[r] EXCEPT !.pc = "landing"])
    BY <1>t, <1>r, <1>11 DEF HangUp, Goto, At, Quiet, RequestState, Pc, Old, New, Late,
       HasUser, Rotating, Pending, HasNew
  <2> QED
    BY <2>1, <1>q
<1> QED
  BY <1>1, <1>2, <1>3, <1>4, <1>5, <1>6, <1>7, <1>8, <1>9, <1>10, <1>11

\* A user that InsertUser adds owns no row yet; a conflict ends the request.
LEMMA InsertUserStep ==
    ASSUME IInv, NEW r \in Request, InsertUser(r)
    PROVE  IInv'
<1>t. /\ req \in [Request -> RequestState]
      /\ users \in [User -> Status]
  BY DEF IInv, TypeOK
<1>1. CASE Finish(r) /\ UNCHANGED users
  <2>1. Idle \in RequestState
    BY DEF Idle, RequestState, Pc, NoSession
  <2>2. Old(r)' /\ New(r)' /\ Late(r)'
    BY <1>t, <1>1 DEF Finish, Idle, Old, New, Late, HasUser, Rotating, Pending, HasNew
  <2>3. raced' \subseteq known
    BY DEF InsertUser, IInv, TypeOK
  <2> QED
    BY <1>1, <2>1, <2>2, <2>3, QuietStep DEF InsertUser, Finish, Idle, HasNew, Pending
<1>2. ASSUME NEW u \in User, users[u] = "absent",
             users' = [users EXCEPT ![u] = "active"],
             req' = [req EXCEPT ![r].pc = "insertSession", ![r].user = u]
      PROVE  IInv'
  <2> USE <1>2
  <2>u. UNCHANGED <<sess, nextId, now, known, minted, raced>>
    BY DEF InsertUser
  <2>r. /\ \A x \in Request : x # r => req'[x] = req[x]
        /\ req'[r] = [req[r] EXCEPT !.pc = "insertSession", !.user = u]
        /\ req[r].pc = "insertUser"
    BY <1>t DEF InsertUser, At
  <2>1. TypeOK'
    <3>1. req[r] \in RequestState
      BY <1>t
    <3>2. [req[r] EXCEPT !.pc = "insertSession", !.user = u] \in RequestState
      BY <3>1 DEF RequestState, Pc
    <3>3. req' = [req EXCEPT ![r] = [req[r] EXCEPT !.pc = "insertSession", !.user = u]]
      BY <1>t
    <3>4. req' \in [Request -> RequestState]
      BY <1>t, <3>2, <3>3
    <3>5. users' \in [User -> Status]
      BY <1>t DEF Status
    <3> QED
      BY <2>u, <3>4, <3>5 DEF IInv, TypeOK
  <2>2. Rows' /\ Known' /\ RotationAtomic'
    BY <2>u, <1>t DEF IInv, TypeOK, Rows, Known, RotationAtomic, Exists, Row
  <2>3. ASSUME NEW x \in Request PROVE Old(x)' /\ New(x)' /\ Late(x)'
    <3>1. Old(x) /\ New(x) /\ Late(x)
      BY DEF IInv
    <3>2. CASE x = r
      BY <3>1, <3>2, <2>u, <2>r, <1>t DEF Old, New, Late, HasUser, Rotating, Pending,
         HasNew, RequestState
    <3>3. CASE x # r
      BY <3>1, <3>3, <2>u, <2>r, <1>t DEF Old, New, Late, Spent, HasUser, Rotating
    <3> QED
      BY <3>2, <3>3
  <2>4. ASSUME NEW x \in Request, NEW y \in Request PROVE Apart(x, y)'
    BY <2>r, <1>t DEF IInv, Apart, Pending, HasNew, RequestState
  <2> QED
    BY <2>1, <2>2, <2>3, <2>4 DEF IInv
<1> QED
  BY <1>1, <1>2 DEF InsertUser

\* A row that register or login inserts takes an id no one has.
LEMMA InsertSessionStep ==
    ASSUME IInv, NEW r \in Request, InsertSession(r)
    PROVE  IInv'
<1> USE SessionsAssumption
<1>t. TypeOK
  BY DEF IInv
<1>i. /\ nextId \in SessionId
      /\ nextId # NoSession
      /\ nextId \notin DOMAIN sess
      /\ nextId' = nextId + 1
      /\ UNCHANGED <<users, now, known, minted, raced>>
      /\ req[r].pc = "insertSession"
      /\ req[r].user \in User
  BY <1>t DEF IInv, TypeOK, Rows, Old, HasUser, SessionId, NoSession, InsertSession, At
<1>o. \A x \in Request : x # r => req'[x] = req[x]
  BY <1>t DEF TypeOK, InsertSession, Finish
<1>r. \/ /\ Exists(req[r].user)
         /\ sess' = Inserted(nextId, req[r].user, now + RefreshTtl)
         /\ req'[r] = [req[r] EXCEPT !.pc = "answer", !.new = nextId]
      \/ /\ sess' = sess
         /\ req'[r] = Idle
  BY <1>t DEF TypeOK, InsertSession, Finish
<1>q. /\ req[r] \in RequestState
      /\ req'[r] \in RequestState
      /\ req' = [req EXCEPT ![r] = req'[r]]
  <2>1. req[r] \in RequestState
    BY <1>t DEF TypeOK
  <2>2. /\ Idle \in RequestState
        /\ [req[r] EXCEPT !.pc = "answer", !.new = nextId] \in RequestState
    BY <2>1, <1>i DEF Idle, RequestState, Pc, NoSession
  <2>3. req' = [req EXCEPT ![r] = req'[r]]
    BY <1>t DEF TypeOK, InsertSession, Finish
  <2> QED
    BY <2>1, <2>2, <2>3, <1>r
<1>s. /\ DOMAIN sess' \subseteq DOMAIN sess \cup {nextId}
      /\ \A s \in DOMAIN sess : s \in DOMAIN sess' /\ sess'[s] = sess[s]
      /\ nextId \in DOMAIN sess' =>
            /\ sess'[nextId] = [user |-> req[r].user, exp |-> now + RefreshTtl,
                                revoked |-> FALSE, next |-> NoSession]
            /\ Exists(req[r].user)
      /\ sess' = [s \in DOMAIN sess' |-> sess'[s]]
  BY <1>r, <1>i, <1>t DEF Inserted, TypeOK
<1>1. TypeOK'
  <2>1. DOMAIN sess' \subseteq SessionId /\ sess' \in [DOMAIN sess' -> Row]
    <3>1. [user |-> req[r].user, exp |-> now + RefreshTtl,
           revoked |-> FALSE, next |-> NoSession] \in Row
      BY <1>i, <1>t DEF Row, TypeOK
    <3>2. \A s \in DOMAIN sess' : s \in SessionId /\ sess'[s] \in Row
      BY <3>1, <1>s, <1>i, <1>t DEF TypeOK
    <3> QED
      BY <3>2, <1>s
  <2>2. req' \in [Request -> RequestState]
    BY <1>t, <1>q DEF TypeOK
  <2> QED
    BY <2>1, <2>2, <1>t, <1>i DEF TypeOK, SessionId
<1>2. Rows' /\ Known' /\ RotationAtomic'
  BY <1>s, <1>i, <1>t DEF IInv, TypeOK, Rows, Known, RotationAtomic, Exists, SessionId
<1>3. ASSUME NEW x \in Request PROVE Old(x)' /\ New(x)' /\ Late(x)'
  <2>1. Old(x) /\ New(x) /\ Late(x)
    BY DEF IInv
  <2>2. CASE x = r
    <3>1. CASE req'[r] = Idle
      BY <3>1, <2>2 DEF Old, New, Late, Idle, HasUser, Rotating, Pending, HasNew
    <3>2. CASE req'[r] = [req[r] EXCEPT !.pc = "answer", !.new = nextId]
      <4>1. /\ req'[r].pc = "answer"
            /\ req'[r].new = nextId
            /\ req'[r].user = req[r].user
            /\ req'[r].late = req[r].late
        BY <3>2, <1>q DEF RequestState
      <4>2. nextId < nextId'
        BY <1>i, <1>t DEF TypeOK
      <4> QED
        BY <4>1, <4>2, <2>1, <2>2, <1>i DEF Old, New, Late, HasUser, Rotating, Pending,
           HasNew
    <3> QED
      BY <3>1, <3>2, <1>r
  <2>3. CASE x # r
    <3>0. req'[x] = req[x] /\ nextId \in Nat
      BY <2>3, <1>o, <1>t DEF TypeOK
    <3>1. req[x].pc \in Rotating \cup {"lookup"} => req[x].tok # nextId
      BY <2>1, <1>t, <1>i DEF Old, IInv, Known, TypeOK
    <3>2. Old(x)'
      BY <3>0, <3>1, <2>1, <1>s, <1>i DEF Old, SessionId
    <3>3. New(x)'
      BY <3>0, <2>1, <1>s, <1>i DEF New, SessionId, Pending, HasNew
    <3>4. Late(x)'
      BY <3>0, <3>1, <2>1, <1>s, <1>i DEF Late, Spent
    <3> QED
      BY <3>2, <3>3, <3>4
  <2> QED
    BY <2>2, <2>3
<1>4. ASSUME NEW x \in Request, NEW y \in Request PROVE Apart(x, y)'
  <2>1. Apart(x, y) /\ New(x) /\ New(y) /\ nextId \in Nat
    BY <1>t DEF IInv, TypeOK
  <2>2. \/ req'[r].pc = "idle"
        \/ req'[r].pc = "answer" /\ req'[r].new = nextId
    <3>1. CASE req'[r] = Idle
      BY <3>1 DEF Idle
    <3>2. CASE req'[r] = [req[r] EXCEPT !.pc = "answer", !.new = nextId]
      BY <3>2, <1>q DEF RequestState
    <3> QED
      BY <3>1, <3>2, <1>r
  <2> QED
    BY <2>1, <2>2, <1>o DEF New, Apart, Pending, HasNew, SessionId
<1> QED
  BY <1>1, <1>2, <1>3, <1>4 DEF IInv

\* The row that a refresh inserts takes an id no one has, later than the old
\* row's, which is there because its user is.
LEMMA InsertStep ==
    ASSUME IInv, NEW r \in Request, Insert(r)
    PROVE  IInv'
<1> USE SessionsAssumption
<1>t. TypeOK
  BY DEF IInv
<1>i. /\ nextId \in SessionId
      /\ nextId \in Nat
      /\ nextId' = nextId + 1
      /\ UNCHANGED <<users, sess, now, known, minted, raced>>
      /\ req[r].pc = "insert"
      /\ req[r].user \in User
      /\ now + RefreshTtl \in Nat
  BY <1>t DEF IInv, TypeOK, Old, HasUser, SessionId, Insert, At
<1>n. nextId \notin DOMAIN sess /\ nextId \notin known
  BY <1>i DEF IInv, Rows, Known
<1> DEFINE q == [req[r] EXCEPT !.pc = "link", !.new = nextId, !.exp = now + RefreshTtl]
<1>q. /\ q \in RequestState
      /\ Idle \in RequestState
      /\ \/ Exists(req[r].user) /\ req' = [req EXCEPT ![r] = q]
         \/ req' = [req EXCEPT ![r] = Idle]
  <2>1. req[r] \in RequestState
    BY <1>t DEF TypeOK
  <2>2. Idle \in RequestState
    BY DEF Idle, RequestState, Pc, NoSession
  <2>3. q \in RequestState
    BY <2>1, <1>i DEF RequestState, Pc
  <2>4. \/ Exists(req[r].user) /\ req' = [req EXCEPT ![r] = q]
        \/ req' = [req EXCEPT ![r] = Idle]
    BY <1>t DEF TypeOK, Insert, Finish
  <2> QED
    BY <2>2, <2>3, <2>4
<1>f. /\ q.pc = "link" /\ q.new = nextId /\ q.exp = now + RefreshTtl
      /\ q.user = req[r].user /\ q.tok = req[r].tok /\ q.late = req[r].late
  <2>1. req[r] \in RequestState
    BY <1>t DEF TypeOK
  <2> QED
    BY <2>1 DEF RequestState
<1> HIDE DEF q
<1>r. /\ \A x \in Request : x # r => req'[x] = req[x]
      /\ \/ req'[r] = q /\ Exists(req[r].user)
         \/ req'[r] = Idle
  BY <1>q, <1>t DEF TypeOK
<1>1. TypeOK'
  <2>1. req' \in [Request -> RequestState]
    BY <1>q, <1>t DEF TypeOK
  <2> QED
    BY <2>1, <1>t, <1>i DEF TypeOK, SessionId
<1>2. Rows' /\ Known' /\ RotationAtomic'
  BY <1>i, <1>t DEF IInv, TypeOK, Rows, Known, RotationAtomic, Exists, SessionId
<1>3. ASSUME NEW x \in Request PROVE Old(x)' /\ New(x)' /\ Late(x)'
  <2>1. Old(x) /\ New(x) /\ Late(x)
    BY DEF IInv
  <2>2. CASE x = r
    <3>1. CASE req'[r] = Idle
      BY <3>1, <2>2 DEF Old, New, Late, Idle, HasUser, Rotating, Pending, HasNew
    <3>2. CASE req'[r] = q /\ Exists(req[r].user)
      <4>1. /\ req[r].tok \in DOMAIN sess
            /\ req[r].tok < nextId
            /\ sess[req[r].tok].exp <= now + RefreshTtl
        BY <3>2, <2>1, <2>2, <1>i DEF Old, Rotating, Exists, IInv, Rows
      <4> QED
        BY <4>1, <3>2, <2>1, <2>2, <1>f, <1>i, <1>n, <1>t DEF TypeOK, SessionId, Old,
           New, Late, HasUser, Rotating, Pending, HasNew
    <3> QED
      BY <3>1, <3>2, <1>r
  <2>3. CASE x # r
    <3>0. req'[x] = req[x]
      BY <2>3, <1>r
    <3>1. Old(x)' /\ Late(x)'
      BY <3>0, <2>1, <1>i DEF Old, Late, Spent, SessionId
    <3>2. New(x)'
      BY <3>0, <2>1, <1>i DEF New, SessionId
    <3> QED
      BY <3>1, <3>2
  <2> QED
    BY <2>2, <2>3
<1>4. ASSUME NEW x \in Request, NEW y \in Request PROVE Apart(x, y)'
  <2>1. Apart(x, y) /\ New(x) /\ New(y)
    BY DEF IInv
  <2> QED
    BY <2>1, <1>i, <1>r, <1>f DEF New, Apart, Pending, HasNew, Idle, SessionId
<1> QED
  BY <1>1, <1>2, <1>3, <1>4 DEF IInv

\* The client that is answered has a token whose row is no longer pending.
LEMMA AnswerStep ==
    ASSUME IInv, NEW r \in Request, Answer(r)
    PROVE  IInv'
<1> USE SessionsAssumption
<1>t. TypeOK /\ Old(r) /\ New(r)
  BY DEF IInv
<1>i. /\ req[r].pc = "answer"
      /\ req[r].new \in SessionId
      /\ req[r].new < nextId
      /\ known' = known \cup {req[r].new}
      /\ req' = [req EXCEPT ![r] = Idle]
      /\ UNCHANGED <<users, sess, nextId, now, minted, raced>>
  BY <1>t DEF New, HasNew, Answer, At, Finish
<1>r. /\ \A x \in Request : x # r => req'[x] = req[x]
      /\ req'[r] = Idle
  BY <1>i, <1>t DEF TypeOK
<1>1. TypeOK'
  <2>1. Idle \in RequestState
    BY DEF Idle, RequestState, Pc, NoSession
  <2> QED
    BY <2>1, <1>i, <1>t DEF TypeOK
<1>2. Rows' /\ Known' /\ RotationAtomic'
  BY <1>i DEF IInv, Rows, Known, RotationAtomic, Exists
<1>3. ASSUME NEW x \in Request PROVE Old(x)' /\ New(x)' /\ Late(x)'
  <2>1. Old(x) /\ New(x) /\ Late(x) /\ Apart(x, r)
    BY DEF IInv
  <2>2. CASE x = r
    BY <2>2, <1>r DEF Old, New, Late, Idle, HasUser, Rotating, Pending, HasNew
  <2>3. CASE x # r
    <3>1. Old(x)' /\ Late(x)'
      BY <2>1, <2>3, <1>r, <1>i DEF Old, Late, Spent
    <3>2. New(x)'
      BY <2>1, <2>3, <1>r, <1>i DEF New, Apart, HasNew
    <3> QED
      BY <3>1, <3>2
  <2> QED
    BY <2>2, <2>3
<1>4. ASSUME NEW x \in Request, NEW y \in Request PROVE Apart(x, y)'
  BY <1>r DEF IInv, Apart, Pending, HasNew, Idle
<1> QED
  BY <1>1, <1>2, <1>3, <1>4 DEF IInv

\* The commit of a rotation: the new row stands in for the old one, whose
\* other columns it leaves alone, and no other link leads to the new id.
LEMMA CommitStep ==
    ASSUME IInv, NEW r \in Request, Commit(r)
    PROVE  IInv'
<1> USE SessionsAssumption
<1>t. TypeOK /\ Old(r) /\ New(r)
  BY DEF IInv
<1> DEFINE t == req[r].tok
           n == req[r].new
<1>i. /\ req[r].pc \in {"commit", "landing"}
      /\ req[r].user \in User
      /\ t \in SessionId /\ t \in DOMAIN sess /\ sess[t].user = req[r].user
      /\ n \in SessionId /\ n \notin DOMAIN sess /\ n \notin known
      /\ t < n /\ n < nextId
      /\ sess[t].exp <= req[r].exp /\ req[r].exp <= now + RefreshTtl
      /\ req[r].exp \in Nat
      /\ req[r].late = FALSE
      /\ UNCHANGED <<users, nextId, now, known, raced>>
      /\ req[r] \in RequestState
      /\ Late(r)
  <2>1. req[r] \in RequestState /\ Late(r)
    BY <1>t DEF TypeOK, IInv
  <2> QED
    BY <2>1, <1>t DEF TypeOK, Old, New, Late, HasUser, Rotating, Pending, HasNew, Commit, At,
       RequestState
<1>s. /\ DOMAIN sess' = DOMAIN sess \cup {n}
      /\ sess'[n] = [user |-> req[r].user, exp |-> req[r].exp, revoked |-> FALSE,
                     next |-> NoSession]
      /\ sess'[t] = [sess[t] EXCEPT !.revoked = TRUE, !.next = n]
      /\ \A s \in DOMAIN sess : s # t => sess'[s] = sess[s]
      /\ sess' = [s \in DOMAIN sess' |-> sess'[s]]
  BY <1>i DEF Commit, Inserted, Replaced
<1>f. \A s \in DOMAIN sess : sess'[s].user = sess[s].user /\ sess'[s].exp = sess[s].exp
  <2>1. \A s \in DOMAIN sess : sess[s] \in Row
    BY <1>t DEF TypeOK
  <2>2. sess'[t].user = sess[t].user /\ sess'[t].exp = sess[t].exp
    BY <2>1, <1>s, <1>i DEF Row
  <2> QED
    BY <2>2, <1>s
<1>g. /\ sess'[t].revoked = TRUE /\ sess'[t].next = n
      /\ sess'[n].user = req[r].user /\ sess'[n].exp = req[r].exp
      /\ sess'[n].revoked = FALSE /\ sess'[n].next = NoSession
  <2>1. sess[t] \in Row
    BY <1>i, <1>t DEF TypeOK
  <2> QED
    BY <2>1, <1>s DEF Row
<1>q. /\ [req[r] EXCEPT !.pc = "loadEmail"] \in RequestState
      /\ Idle \in RequestState
  BY <1>i DEF RequestState, Pc, Idle, NoSession
<1>r. /\ \A x \in Request : x # r => req'[x] = req[x]
      /\ req' \in [Request -> RequestState]
      /\ req'[r].late = FALSE
      /\ \/ /\ req'[r].pc = "loadEmail" /\ req'[r].new = n
            /\ req'[r].user = req[r].user
         \/ req'[r].pc = "idle"
  <2>1. /\ \A x \in Request : x # r => req'[x] = req[x]
        /\ req'[r] \in {[req[r] EXCEPT !.pc = "loadEmail"], Idle}
        /\ req' = [req EXCEPT ![r] = req'[r]]
    BY <1>t DEF TypeOK, Commit, Goto, Finish
  <2>2. req' \in [Request -> RequestState]
    BY <2>1, <1>q, <1>t DEF TypeOK
  <2>3. CASE req'[r] = [req[r] EXCEPT !.pc = "loadEmail"]
    BY <2>1, <2>2, <2>3, <1>i DEF RequestState
  <2>4. CASE req'[r] = Idle
    BY <2>1, <2>2, <2>4 DEF Idle
  <2> QED
    BY <2>1, <2>3, <2>4
<1>x. Exists(req[r].user)
  BY <1>i DEF IInv, Rows
<1>1. TypeOK'
  <2>1. \A s \in DOMAIN sess' : sess'[s] \in Row
    <3>1. sess[t] \in Row
      BY <1>i, <1>t DEF TypeOK
    <3>2. sess'[t] \in Row
      <4>1. sess'[t] = [sess[t] EXCEPT !.revoked = TRUE, !.next = n]
        BY <1>s
      <4>2. n \in SessionId \cup {NoSession}
        BY <1>i
      <4> QED
        BY <3>1, <4>1, <4>2 DEF Row
    <3>3. sess'[n] \in Row
      BY <1>s, <1>i DEF Row
    <3> QED
      BY <3>2, <3>3, <1>s, <1>t DEF TypeOK
  <2>2. DOMAIN sess' \subseteq SessionId /\ sess' \in [DOMAIN sess' -> Row]
    BY <2>1, <1>s, <1>i, <1>t DEF TypeOK
  <2>3. req' \in [Request -> RequestState]
    BY <1>r
  <2>4. minted' \subseteq SessionId \X SessionId
    BY <1>i, <1>t DEF TypeOK, Commit
  <2> QED
    BY <2>2, <2>3, <2>4, <1>i, <1>t DEF TypeOK
<1>2. Rows' /\ Known'
  BY <1>s, <1>f, <1>g, <1>i, <1>x DEF IInv, Rows, Known, Exists
<1>3. RotationAtomic'
  <2> SUFFICES ASSUME NEW s \in DOMAIN sess'
               PROVE  /\ sess'[s].revoked <=> sess'[s].next # NoSession
                      /\ sess'[s].revoked =>
                            /\ sess'[s].next \in DOMAIN sess'
                            /\ s < sess'[s].next
                            /\ sess'[sess'[s].next].user = sess'[s].user
                            /\ sess'[s].exp <= sess'[sess'[s].next].exp
    BY DEF RotationAtomic
  <2>1. CASE s = n
    BY <2>1, <1>g
  <2>2. CASE s = t
    BY <2>2, <1>g, <1>f, <1>i, <1>s DEF SessionId, NoSession
  <2>3. CASE s # n /\ s # t
    <3>1. s \in DOMAIN sess /\ sess'[s] = sess[s]
      BY <2>3, <1>s
    <3> QED
      BY <3>1, <1>s, <1>f DEF IInv, RotationAtomic
  <2> QED
    BY <2>1, <2>2, <2>3
<1>4. ASSUME NEW x \in Request PROVE Old(x)' /\ New(x)' /\ Late(x)'
  <2>1. Old(x) /\ New(x) /\ Late(x) /\ Apart(x, r) /\ Apart(r, x)
    BY DEF IInv
  <2>2. CASE x = r
    BY <2>2, <1>r, <1>i DEF Old, New, Late, HasUser, Rotating, Pending, HasNew
  <2>3. CASE x # r
    <3>0. req'[x] = req[x]
      BY <2>3, <1>r
    <3>1. Old(x)'
      BY <3>0, <2>1, <1>s, <1>f, <1>g, <1>i, <1>x DEF Old, Rotating, HasUser, Exists, IInv, Rows
    <3>2. New(x)'
      BY <3>0, <2>1, <2>3, <1>s, <1>f, <1>i DEF New, Apart, Pending, HasNew
    <3>3. Late(x)'
      <4>1. req[x].late => req[x].tok # n
        BY <2>1, <1>i DEF Old, Late, NoSession, SessionId
      <4>2. ASSUME Spent(req[x].tok), req[x].tok # n PROVE Spent(req[x].tok)'
        <5>1. ASSUME req[x].tok \in DOMAIN sess'
              PROVE  sess'[req[x].tok].revoked \/ sess'[req[x].tok].exp <= now
          <6>1. CASE req[x].tok = t
            BY <6>1, <1>g
          <6>2. CASE req[x].tok # t
            BY <6>2, <4>2, <5>1, <1>s DEF Spent
          <6> QED
            BY <6>1, <6>2
        <5> QED
          BY <5>1, <3>0, <1>i DEF Spent
      <4> QED
        BY <4>1, <4>2, <3>0, <2>1 DEF Late
    <3> QED
      BY <3>1, <3>2, <3>3
  <2> QED
    BY <2>2, <2>3
<1>5. ASSUME NEW x \in Request, NEW y \in Request PROVE Apart(x, y)'
  BY <1>r, <1>i DEF IInv, Apart, Pending, HasNew
<1> QED
  BY <1>1, <1>2, <1>3, <1>4, <1>5 DEF IInv

\* Deactivating a user changes no row; deleting one takes all the rows of one
\* user, and so no row without the one that replaces it.
LEMMA OperatorStep ==
    ASSUME IInv, NEW u \in User, SetActive(u) \/ DeleteUser(u)
    PROVE  IInv'
<1>t. TypeOK
  BY DEF IInv
<1>u. UNCHANGED <<nextId, now, req, known, minted, raced>>
  BY DEF SetActive, DeleteUser
<1>x. /\ users' \in [User -> Status]
      /\ \A v \in User : users[v] = "deleted" => users'[v] = "deleted"
  BY <1>t DEF TypeOK, Status, SetActive, DeleteUser, Exists
<1>1. CASE SetActive(u)
  <2>u. sess' = sess /\ \A v \in User : Exists(v)' <=> Exists(v)
    BY <1>1, <1>t DEF TypeOK, SetActive, Exists
  <2>1. TypeOK'
    BY <1>t, <1>u, <1>x, <2>u DEF TypeOK
  <2>2. Rows' /\ Known' /\ RotationAtomic'
    <3>1. \A s \in DOMAIN sess : sess[s].user \in User
      BY <1>t DEF TypeOK, Row
    <3> QED
      BY <3>1, <1>u, <2>u DEF IInv, Rows, Known, RotationAtomic
  <2>3. ASSUME NEW x \in Request PROVE Old(x)' /\ New(x)' /\ Late(x)'
    <3>1. Old(x) /\ New(x) /\ Late(x)
      BY DEF IInv
    <3> QED
      BY <3>1, <1>u, <1>x, <2>u DEF Old, New, Late, Spent, Rotating, HasUser
  <2>4. ASSUME NEW x \in Request, NEW y \in Request PROVE Apart(x, y)'
    BY <1>u DEF IInv, Apart
  <2> QED
    BY <2>1, <2>2, <2>3, <2>4 DEF IInv
<1>2. CASE DeleteUser(u)
  <2>s. /\ DOMAIN sess' = {s \in DOMAIN sess : sess[s].user # u}
        /\ \A s \in DOMAIN sess' : sess'[s] = sess[s]
        /\ users' = [users EXCEPT ![u] = "deleted"]
        /\ sess' = [s \in DOMAIN sess' |-> sess'[s]]
    BY <1>2 DEF DeleteUser
  <2>1. TypeOK'
    <3>1. sess' \in [DOMAIN sess' -> Row]
      BY <1>t, <2>s DEF TypeOK
    <3> QED
      BY <3>1, <1>t, <1>u, <1>x, <2>s DEF TypeOK
  <2>2. Rows' /\ Known'
    <3>1. \A s \in DOMAIN sess' : s \in DOMAIN sess /\ sess[s].user \in User \ {u}
      BY <1>t, <2>s DEF TypeOK, Row
    <3> QED
      BY <3>1, <1>t, <1>u, <2>s DEF TypeOK, IInv, Rows, Known, Exists
  <2>3. RotationAtomic'
    BY <2>s DEF IInv, RotationAtomic
  <2>4. ASSUME NEW x \in Request PROVE Old(x)' /\ New(x)' /\ Late(x)'
    <3>1. Old(x) /\ New(x) /\ Late(x)
      BY DEF IInv
    <3>2. Old(x)'
      BY <3>1, <1>u, <1>x, <1>t, <2>s DEF Old, TypeOK, Rotating, HasUser
    <3>3. New(x)'
      <4>1. CASE req[x].pc \in Pending
        <5>1. req[x].user # u
          BY <4>1, <3>1, <1>2 DEF New, Pending, DeleteUser, Locks
        <5>2. sess[req[x].tok].user = req[x].user
          BY <4>1, <3>1 DEF Old, New, Pending, Rotating
        <5> QED
          BY <4>1, <5>1, <5>2, <3>1, <1>u, <2>s DEF New
      <4>2. CASE req[x].pc \notin Pending
        BY <4>2, <3>1, <1>u DEF New
      <4> QED
        BY <4>1, <4>2
    <3>4. Late(x)'
      BY <3>1, <1>u, <2>s DEF Late, Spent
    <3> QED
      BY <3>2, <3>3, <3>4
  <2>5. ASSUME NEW x \in Request, NEW y \in Request PROVE Apart(x, y)'
    BY <1>u DEF IInv, Apart
  <2> QED
    BY <2>1, <2>2, <2>3, <2>4, <2>5 DEF IInv
<1> QED
  BY <1>1, <1>2

\* Time makes no token valid.
LEMMA TickStep ==
    ASSUME IInv, Tick
    PROVE  IInv'
<1> USE SessionsAssumption
<1>t. TypeOK
  BY DEF IInv
<1>u. /\ now' = now + 1 /\ now \in Nat /\ now' \in 0..MaxTime
      /\ UNCHANGED <<users, sess, nextId, req, known, minted, raced>>
  BY <1>t DEF TypeOK, Tick
<1>e. /\ \A s \in DOMAIN sess : sess[s].exp \in Nat
      /\ \A x \in Request : req[x].exp \in Nat
  BY <1>t DEF TypeOK, Row, RequestState
<1>1. TypeOK' /\ Rows' /\ Known' /\ RotationAtomic'
  BY <1>t, <1>u, <1>e DEF IInv, TypeOK, Rows, Known, RotationAtomic, Exists
<1>2. ASSUME NEW x \in Request PROVE Old(x)' /\ New(x)' /\ Late(x)'
  <2>1. Old(x) /\ New(x) /\ Late(x)
    BY DEF IInv
  <2>2. Old(x)' /\ New(x)'
    BY <2>1, <1>u, <1>e DEF Old, New
  <2>3. Late(x)'
    BY <2>1, <1>u, <1>e DEF Late, Spent
  <2> QED
    BY <2>2, <2>3
<1>3. ASSUME NEW x \in Request, NEW y \in Request PROVE Apart(x, y)'
  BY <1>u DEF IInv, Apart
<1> QED
  BY <1>1, <1>2, <1>3 DEF IInv

\* Every step of the service, its clients, its operator and the clock.
LEMMA StepIInv == IInv /\ [Next]_vars => IInv'
<1> SUFFICES ASSUME IInv, [Next]_vars PROVE IInv'
  OBVIOUS
<1>1. ASSUME NEW r \in Request,
             \/ StartRegister(r)
             \/ \E u \in User : StartLogin(r, u)
             \/ \E t \in known \cup {NoSession} : StartRefresh(r, t)
             \/ Serve(r)
             \/ HangUp(r)
             \/ Drop(r)
      PROVE  IInv'
  BY <1>1, QuietActions, InsertUserStep, InsertSessionStep, InsertStep, CommitStep,
     AnswerStep DEF Serve
<1>2. ASSUME NEW u \in User, SetActive(u) \/ DeleteUser(u) PROVE IInv'
  BY <1>2, OperatorStep
<1>3. CASE Tick
  BY <1>3, TickStep
<1>4. CASE UNCHANGED vars
  <2> USE <1>4 DEF vars
  <2>1. TypeOK' /\ Rows' /\ Known' /\ RotationAtomic'
    BY DEF IInv, TypeOK, Rows, Known, RotationAtomic, Exists
  <2>2. \A x \in Request : Old(x)' /\ New(x)' /\ Late(x)'
    BY DEF IInv, Old, New, Late, Spent
  <2>3. \A x, y \in Request : Apart(x, y)'
    BY DEF IInv, Apart
  <2> QED
    BY <2>1, <2>2, <2>3 DEF IInv
<1> QED
  BY <1>1, <1>2, <1>3, <1>4 DEF Next

-----------------------------------------------------------------------------
(* What the service promises *)

\* The inductive invariant holds in every reachable state.
LEMMA Invariance == Spec => []IInv
BY InitIInv, StepIInv, PTL DEF Spec

\* Every statement of register, login and refresh (service.rs) leaves the two
\* tables and the requests well-formed, for any numbers of each.
THEOREM TypeCorrect == Spec => []TypeOK
<1>1. IInv => TypeOK
  BY DEF IInv
<1> QED
  BY <1>1, Invariance, PTL

\* However requests, failures, deletions and the clock interleave, a session
\* is revoked exactly when refresh has replaced it by a later one of the same
\* user that lives at least as long (service.rs, refresh).
THEOREM RotationIsAtomic == Spec => []RotationAtomic
<1>1. IInv => RotationAtomic
  BY DEF IInv
<1> QED
  BY <1>1, Invariance, PTL

\* A refresh token that was already invalid when its request arrived never
\* gets past the lookup of refresh (service.rs).
THEOREM ReplayIsRefused == Spec => []ReplayRefused
<1>1. IInv => ReplayRefused
  BY DEF IInv, Late, ReplayRefused
<1> QED
  BY <1>1, Invariance, PTL
=============================================================================
