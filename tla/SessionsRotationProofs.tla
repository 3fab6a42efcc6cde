------------------------ MODULE SessionsRotationProofs ------------------------
(***************************************************************************)
(* What one use of a refresh token mints, for any number of users,         *)
(* requests, connections, ids and instants: a token never presented while  *)
(* a use of it is open, abandoned or not, is rotated once, and Sessions    *)
(* implements RotatingTokens.                                              *)
(***************************************************************************)
EXTENDS SessionsRotation, SessionsProofs

-----------------------------------------------------------------------------
(* The inductive invariant, over that of SessionsProofs *)

\* A token that has been rotated is one a client holds; its row, while it is
\* there, is revoked, and leads to the successor if there is only one.
Used(p) ==
    /\ p[1] \in known
    /\ p[1] \in DOMAIN sess =>
        /\ sess[p[1]].revoked
        /\ p[1] \notin raced => sess[p[1]].next = p[2]

\* Two requests present one token only if it is raced for.
Alone(q, r) ==
    q # r /\ req[q].tok = req[r].tok /\ req[r].tok # NoSession => req[r].tok \in raced

\* A refresh past the lookup has a token not rotated yet, or raced for.
Once(r) ==
    req[r].pc \in Rotating /\ req[r].tok \notin raced
        => \A p \in minted : p[1] # req[r].tok

\* A row is revoked only by a rotation.
Rotated(s) == sess[s].revoked => \E p \in minted : p[1] = s

TokensInv ==
    /\ \A p \in minted : Used(p)
    /\ \A s \in DOMAIN sess : Rotated(s)
    /\ SingleUseInTurn

UseInv ==
    /\ TokensInv
    /\ \A q, r \in Request : Alone(q, r)
    /\ \A r \in Request : Once(r)

-----------------------------------------------------------------------------
(* It holds of the initial state and is kept by every step *)

\* Nothing has been rotated and nothing is presented.
LEMMA InitUse == Init => UseInv
<1> SUFFICES ASSUME Init PROVE UseInv
  OBVIOUS
<1>1. ASSUME NEW q \in Request, NEW r \in Request PROVE Alone(q, r)
  BY DEF Init, Alone, Idle
<1>2. ASSUME NEW r \in Request PROVE Once(r)
  BY DEF Init, Once
<1> QED
  BY <1>1, <1>2 DEF Init, UseInv, TokensInv, SingleUseInTurn

\* A step that mints nothing, and adds or takes away rows at most, keeps what
\* is said of the tokens that were used.
LEMMA TokensKept ==
    ASSUME UseInv, minted' = minted, known \subseteq known', raced \subseteq raced',
           \A s \in DOMAIN sess' :
                \/ s \in DOMAIN sess /\ sess'[s] = sess[s]
                \/ s \notin known /\ ~sess'[s].revoked
    PROVE  TokensInv'
<1>1. ASSUME NEW p \in minted' PROVE Used(p)'
  BY DEF UseInv, TokensInv, Used
<1>2. ASSUME NEW s \in DOMAIN sess' PROVE Rotated(s)'
  BY DEF UseInv, TokensInv, Rotated
<1> QED
  BY <1>1, <1>2 DEF UseInv, TokensInv, SingleUseInTurn

\* A step of one request that mints nothing, presents nothing and does not
\* get past the lookup keeps what is said of the requests.
LEMMA RequestsKept ==
    ASSUME UseInv, NEW r \in Request, minted' = minted, raced \subseteq raced',
           \A x \in Request : x # r => req'[x] = req[x],
           req'[r].tok \in {req[r].tok, NoSession},
           req'[r].pc \in Rotating => req[r].pc \in Rotating /\ req'[r].tok = req[r].tok
    PROVE  /\ \A x \in Request : Once(x)'
           /\ \A x, y \in Request : Alone(x, y)'
<1>1. ASSUME NEW x \in Request PROVE Once(x)'
  BY DEF UseInv, Once
<1>2. ASSUME NEW x \in Request, NEW y \in Request PROVE Alone(x, y)'
  <2>1. Alone(x, y) /\ Alone(y, x)
    BY DEF UseInv
  <2> QED
    BY <2>1 DEF Alone
<1> QED
  BY <1>1, <1>2

\* The statements that neither look a token up nor write a row.
LEMMA QuietUse ==
    ASSUME IInv, UseInv, NEW r \in Request,
           \/ StartRegister(r) \/ InsertUser(r)
           \/ \E u \in User : StartLogin(r, u)
           \/ SelectUser(r) \/ Begin(r) \/ Revoke(r) \/ Insert(r) \/ Link(r)
           \/ LoadEmail(r) \/ Answer(r) \/ HangUp(r) \/ Drop(r)
    PROVE  UseInv' /\ UNCHANGED <<sess, minted, raced>>
<1>1. /\ UNCHANGED <<sess, minted, raced>>
      /\ known \subseteq known'
  BY DEF StartRegister, InsertUser, StartLogin, SelectUser, Begin, Revoke, Insert, Link,
     LoadEmail, Answer, HangUp, Drop
<1>2. \A x \in Request : x # r => req'[x] = req[x]
  BY DEF IInv, TypeOK, StartRegister, InsertUser, StartLogin, SelectUser, Begin, Revoke,
     Insert, Link, LoadEmail, Answer, HangUp, Drop, Goto, Finish
<1>3. /\ req'[r].tok \in {req[r].tok, NoSession}
      /\ req'[r].pc \in Rotating => req[r].pc \in Rotating /\ req'[r].tok = req[r].tok
  <2>1. req \in [Request -> RequestState] /\ req[r] \in RequestState
    BY DEF IInv, TypeOK
  <2>2. CASE Finish(r)
    BY <2>1, <2>2 DEF Finish, Idle, Rotating
  <2>3. CASE \E pc \in {"insertUser", "insertSession", "answer"} : Goto(r, pc)
    BY <2>1, <2>3 DEF Goto, RequestState, Rotating
  <2>4. CASE \E u \in User, pc \in {"insertSession", "selectUser"} :
                req' = [req EXCEPT ![r].pc = pc, ![r].user = u]
    BY <2>1, <2>4 DEF RequestState, Rotating
  <2>5. CASE /\ req[r].pc \in Rotating
             /\ \E pc \in {"revoke", "insert", "commit", "landing"} : Goto(r, pc)
    BY <2>1, <2>5 DEF Goto, RequestState, Rotating
  <2>6. CASE /\ req[r].pc \in Rotating
             /\ req' = [req EXCEPT ![r].pc = "link", ![r].new = nextId,
                                   ![r].exp = now + RefreshTtl]
    BY <2>1, <2>6 DEF RequestState, Rotating
  <2> QED
    BY <2>2, <2>3, <2>4, <2>5, <2>6 DEF StartRegister, InsertUser, StartLogin, SelectUser,
       Begin, Revoke, Insert, Link, LoadEmail, Answer, HangUp, Drop, At, Rotating
<1>4. TokensInv'
  BY <1>1, TokensKept
<1>5. /\ \A x \in Request : Once(x)'
      /\ \A x, y \in Request : Alone(x, y)'
  BY <1>1, <1>2, <1>3, RequestsKept
<1> QED
  BY <1>1, <1>4, <1>5 DEF UseInv

\* A new session has an id that no client holds.
LEMMA InsertSessionUse ==
    ASSUME IInv, UseInv, NEW r \in Request, InsertSession(r)
    PROVE  UseInv'
<1>1. /\ UNCHANGED <<known, minted, raced>>
      /\ nextId \notin known
      /\ \/ sess' = sess
         \/ sess' = Inserted(nextId, req[r].user, now + RefreshTtl)
  BY SessionsAssumption DEF InsertSession, IInv, Known, TypeOK
<1>2. \A s \in DOMAIN sess' :
            \/ s \in DOMAIN sess /\ sess'[s] = sess[s]
            \/ s \notin known /\ ~sess'[s].revoked
  BY <1>1 DEF Inserted
<1>3. req \in [Request -> RequestState] /\ req[r] \in RequestState
  BY DEF IInv, TypeOK
<1>4. /\ \A x \in Request : x # r => req'[x] = req[x]
      /\ \/ req'[r] = Idle
         \/ req'[r] = [req[r] EXCEPT !.pc = "answer", !.new = nextId]
  BY <1>3 DEF InsertSession, Finish
<1>5. req'[r].tok \in {req[r].tok, NoSession} /\ req'[r].pc \notin Rotating
  <2>1. CASE req'[r] = Idle
    BY <2>1 DEF Idle, Rotating
  <2>2. CASE req'[r] = [req[r] EXCEPT !.pc = "answer", !.new = nextId]
    BY <2>2, <1>3 DEF RequestState, Rotating
  <2> QED
    BY <2>1, <2>2, <1>4
<1>6. TokensInv'
  BY <1>1, <1>2, TokensKept
<1>7. /\ \A x \in Request : Once(x)'
      /\ \A x, y \in Request : Alone(x, y)'
  BY <1>1, <1>4, <1>5, RequestsKept
<1> QED
  BY <1>6, <1>7 DEF UseInv

\* A token presented while it is being presented is raced for.
LEMMA StartRefreshUse ==
    ASSUME IInv, UseInv, NEW r \in Request, NEW t \in known \cup {NoSession},
           StartRefresh(r, t)
    PROVE  UseInv'
<1>1. /\ UNCHANGED <<sess, known, minted>>
      /\ raced \subseteq raced'
      /\ \A x \in Request : t # NoSession /\ req[x].tok = t => t \in raced'
  BY DEF StartRefresh
<1>2. /\ \A x \in Request : x # r => req'[x] = req[x]
      /\ req'[r].tok = t /\ req'[r].pc = "lookup"
  <2>1. req \in [Request -> RequestState] /\ req[r] \in RequestState
    BY DEF IInv, TypeOK
  <2>2. /\ \A x \in Request : x # r => req'[x] = req[x]
        /\ req'[r] = [req[r] EXCEPT !.pc = "lookup", !.tok = t, !.late = Spent(t)]
    BY <2>1 DEF StartRefresh
  <2> QED
    BY <2>1, <2>2 DEF RequestState
<1>3. TokensInv'
  BY <1>1, TokensKept
<1>4. ASSUME NEW x \in Request PROVE Once(x)'
  <2>1. Once(x)
    BY DEF UseInv
  <2>2. CASE x = r
    BY <2>2, <1>2 DEF Once, Rotating
  <2>3. CASE x # r
    BY <2>1, <2>3, <1>1, <1>2 DEF Once
  <2> QED
    BY <2>2, <2>3
<1>5. ASSUME NEW x \in Request, NEW y \in Request PROVE Alone(x, y)'
  <2>1. Alone(x, y)
    BY DEF UseInv
  <2>2. CASE x # r /\ y # r
    BY <2>1, <2>2, <1>1, <1>2 DEF Alone
  <2>3. CASE x = r \/ y = r
    BY <2>3, <1>1, <1>2 DEF Alone
  <2> QED
    BY <2>2, <2>3
<1> QED
  BY <1>1, <1>3, <1>4, <1>5 DEF UseInv

\* A row that the lookup finds is not revoked, and so has not been rotated.
LEMMA LookupUse ==
    ASSUME IInv, UseInv, NEW r \in Request, Lookup(r)
    PROVE  UseInv'
<1>1. UNCHANGED <<sess, known, minted, raced>>
  BY DEF Lookup
<1>t. req \in [Request -> RequestState] /\ req[r] \in RequestState
  BY DEF IInv, TypeOK
<1>2. TokensInv'
  BY <1>1, TokensKept
<1>3. CASE Valid(req[r].tok)
  <2>1. /\ \A x \in Request : x # r => req'[x] = req[x]
        /\ req'[r].tok = req[r].tok
    BY <1>3, <1>t DEF Lookup, RequestState
  <2>2. \A p \in minted : p[1] # req[r].tok
    BY <1>3 DEF Valid, UseInv, TokensInv, Used
  <2>3. ASSUME NEW x \in Request PROVE Once(x)'
    BY <2>1, <2>2, <1>1 DEF UseInv, Once
  <2>4. ASSUME NEW x \in Request, NEW y \in Request PROVE Alone(x, y)'
    <3>1. Alone(x, y) /\ req'[x].tok = req[x].tok /\ req'[y].tok = req[y].tok
      BY <2>1 DEF UseInv
    <3> QED
      BY <3>1, <1>1 DEF Alone
  <2> QED
    BY <2>3, <2>4, <1>1, <1>2 DEF UseInv
<1>4. CASE ~Valid(req[r].tok)
  <2>1. /\ \A x \in Request : x # r => req'[x] = req[x]
        /\ req'[r] = Idle
    BY <1>4, <1>t DEF Lookup, Finish
  <2>2. req'[r].tok = NoSession /\ req'[r].pc \notin Rotating
    BY <2>1 DEF Idle, Rotating
  <2>3. /\ \A x \in Request : Once(x)'
        /\ \A x, y \in Request : Alone(x, y)'
    BY <1>1, <2>1, <2>2, RequestsKept
  <2> QED
    BY <2>3, <1>2 DEF UseInv
<1> QED
  BY <1>3, <1>4

\* The commit of a rotation: no one else can commit one of the same token,
\* and no one has, unless the token is raced for.
LEMMA CommitUse ==
    ASSUME IInv, UseInv, NEW r \in Request, Commit(r)
    PROVE  UseInv'
<1> DEFINE t == req[r].tok
           n == req[r].new
<1>t. req \in [Request -> RequestState] /\ req[r] \in RequestState
  BY DEF IInv, TypeOK
<1>1. /\ UNCHANGED <<known, raced>>
      /\ minted' = minted \cup {<<t, n>>}
      /\ req[r].pc \in Rotating /\ req[r].pc \in Pending
      /\ t \in known /\ t # NoSession /\ t \in DOMAIN sess
      /\ n \notin known /\ n \notin DOMAIN sess
  <2>1. Old(r) /\ New(r)
    BY DEF IInv
  <2> QED
    BY <2>1 DEF Commit, At, Old, New, Rotating, Pending, SessionId, NoSession
<1>2. /\ \A x \in Request : x # r => req'[x] = req[x]
      /\ req'[r].tok \in {t, NoSession} /\ req'[r].pc \in {"loadEmail", "idle"}
  <2>1. /\ \A x \in Request : x # r => req'[x] = req[x]
        /\ req'[r] \in {[req[r] EXCEPT !.pc = "loadEmail"], Idle}
    BY <1>t DEF Commit, Goto, Finish
  <2> QED
    BY <2>1, <1>t DEF RequestState, Idle
<1>3. /\ DOMAIN sess' = DOMAIN sess \cup {n}
      /\ \A s \in DOMAIN sess : s # t => sess'[s] = sess[s]
      /\ sess'[t].revoked = TRUE /\ sess'[t].next = n
      /\ sess'[n].revoked = FALSE
  <2>1. sess[t] \in Row
    BY <1>1 DEF IInv, TypeOK
  <2>2. /\ DOMAIN sess' = DOMAIN sess \cup {n}
        /\ \A s \in DOMAIN sess : s # t => sess'[s] = sess[s]
        /\ sess'[t] = [sess[t] EXCEPT !.revoked = TRUE, !.next = n]
    BY <1>1 DEF Commit, Inserted, Replaced
  <2>3. sess'[n] = [user |-> req[r].user, exp |-> req[r].exp, revoked |-> FALSE,
                    next |-> NoSession]
    BY <1>1 DEF Commit, Inserted, Replaced
  <2> QED
    BY <2>1, <2>2, <2>3 DEF Row
<1>4. t \notin raced => \A p \in minted : p[1] # t
  BY <1>1 DEF UseInv, Once
<1>5. ASSUME NEW p \in minted' PROVE Used(p)'
  <2>1. CASE p = <<t, n>>
    BY <2>1, <1>1, <1>3 DEF Used
  <2>2. CASE p \in minted
    <3>1. Used(p)
      BY <2>2 DEF UseInv, TokensInv
    <3>2. p[1] # n
      BY <3>1, <1>1 DEF Used
    <3>3. CASE p[1] = t
      BY <3>1, <3>3, <2>2, <1>1, <1>3, <1>4 DEF Used
    <3>4. CASE p[1] # t
      BY <3>1, <3>2, <3>4, <1>1, <1>3 DEF Used
    <3> QED
      BY <3>3, <3>4
  <2> QED
    BY <2>1, <2>2, <1>1
<1>6. SingleUseInTurn'
  BY <1>1, <1>4 DEF UseInv, TokensInv, SingleUseInTurn
<1>9. ASSUME NEW s \in DOMAIN sess' PROVE Rotated(s)'
  <2>1. CASE s = t
    <3>1. <<t, n>> \in minted' /\ <<t, n>>[1] = t
      BY <1>1
    <3> QED
      BY <2>1, <3>1 DEF Rotated
  <2>2. CASE s = n
    BY <2>2, <1>3 DEF Rotated
  <2>3. CASE s # t /\ s # n
    BY <2>3, <1>1, <1>3 DEF UseInv, TokensInv, Rotated
  <2> QED
    BY <2>1, <2>2, <2>3
<1>7. ASSUME NEW x \in Request PROVE Once(x)'
  <2>1. CASE x = r
    BY <2>1, <1>2 DEF Once, Rotating
  <2>2. CASE x # r
    <3>1. Once(x) /\ Alone(x, r)
      BY DEF UseInv
    <3> QED
      BY <3>1, <2>2, <1>1, <1>2 DEF Once, Alone
  <2> QED
    BY <2>1, <2>2
<1>8. ASSUME NEW x \in Request, NEW y \in Request PROVE Alone(x, y)'
  <2>1. /\ Alone(x, y)
        /\ \A z \in {x, y} : req'[z].tok \in {req[z].tok, NoSession}
    BY <1>2 DEF UseInv
  <2> QED
    BY <2>1, <1>1 DEF Alone
<1> QED
  BY <1>5, <1>6, <1>7, <1>8, <1>9 DEF UseInv, TokensInv

\* The operator takes rows away or leaves them, and the clock leaves them.
LEMMA OutsideUse ==
    ASSUME IInv, UseInv, (\E u \in User : SetActive(u) \/ DeleteUser(u)) \/ Tick
    PROVE  UseInv'
<1>1. /\ UNCHANGED <<req, known, minted, raced>>
      /\ \A s \in DOMAIN sess' : s \in DOMAIN sess /\ sess'[s] = sess[s]
  BY DEF SetActive, DeleteUser, Tick
<1>2. TokensInv'
  BY <1>1, TokensKept
<1>3. /\ \A x \in Request : Once(x)'
      /\ \A x, y \in Request : Alone(x, y)'
  BY <1>1 DEF UseInv, Once, Alone
<1> QED
  BY <1>2, <1>3 DEF UseInv

\* Every step, whoever takes it.
LEMMA StepUse == IInv /\ UseInv /\ [Next]_vars => UseInv'
<1> SUFFICES ASSUME IInv, UseInv, [Next]_vars PROVE UseInv'
  OBVIOUS
<1>1. CASE Next
  BY <1>1, QuietUse, InsertSessionUse, StartRefreshUse, LookupUse, CommitUse, OutsideUse
     DEF Next, Serve
<1>2. CASE UNCHANGED vars
  BY <1>2 DEF vars, UseInv, TokensInv, Used, Rotated, SingleUseInTurn, Alone, Once
<1> QED
  BY <1>1, <1>2

LEMMA UseInvariance == Spec => [](IInv /\ UseInv)
BY InitIInv, StepIInv, InitUse, StepUse, PTL DEF Spec

-----------------------------------------------------------------------------
(* What a token is good for *)

\* A token is rotated twice only by uses that overlap, one that its client has
\* given up during COMMIT being open until it lands or is rolled back; what
\* fails, is answered or is rolled back may be retried (service.rs, refresh).
THEOREM OneUse == Spec => []SingleUseInTurn
<1>1. UseInv => SingleUseInTurn
  BY DEF UseInv, TokensInv
<1> QED
  BY <1>1, UseInvariance, PTL

\* And replaced_by leads from a token whose uses never overlapped, an
\* abandoned COMMIT included, to the one successor that refresh gave it.
THEOREM AuditTrailLeads == Spec => []AuditTrail
<1>1. UseInv => AuditTrail
  BY DEF UseInv, TokensInv, Used, AuditTrail
<1> QED
  BY <1>1, UseInvariance, PTL

-----------------------------------------------------------------------------
(* The refinement *)

\* At the start no token is issued.
LEMMA InitTokens == Init => Tokens!Init
<1> SUFFICES ASSUME Init PROVE Tokens!Init
  OBVIOUS
<1>1. Owner = [t \in {} |-> CHOOSE u \in User : TRUE]
  BY DEF Init, Owner
<1>2. Retired = {} /\ Closed = {}
  BY DEF Init, Retired, Closed
<1> QED
  BY <1>1, <1>2 DEF Init, Tokens!Init

\* What the accounts and the rows say is the same when they are, but for
\* accounts that were and are not deleted.
LEMMA Stutter ==
    ASSUME UNCHANGED <<sess, minted, raced>>,
           \A u \in User : users'[u] = "deleted" <=> users[u] = "deleted"
    PROVE  UNCHANGED Tokens!vars
BY DEF Tokens!vars, Owner, Retired, Closed

\* A new session is a token issued to an open account.
LEMMA InsertSessionTokens ==
    ASSUME IInv, UseInv, NEW r \in Request, InsertSession(r)
    PROVE  Tokens!Next \/ UNCHANGED Tokens!vars
<1>1. CASE sess' = sess
  BY <1>1, Stutter DEF InsertSession
<1>2. CASE /\ Exists(req[r].user)
           /\ sess' = Inserted(nextId, req[r].user, now + RefreshTtl)
  <2> DEFINE u == req[r].user
  <2>1. /\ nextId \in SessionId /\ nextId \notin DOMAIN sess /\ nextId \notin known
        /\ u \in User /\ users[u] # "deleted"
        /\ UNCHANGED <<users, minted, raced>>
    <3>1. Old(r) /\ TypeOK
      BY DEF IInv
    <3> QED
      BY <3>1, <1>2, SessionsAssumption DEF InsertSession, At, Old, HasUser, Exists, IInv,
         Rows, Known, TypeOK, SessionId
  <2>2. Owner' = Tokens!With(Owner, nextId, u)
    BY <2>1, <1>2 DEF Owner, Inserted, Tokens!With
  <2>3. Retired' = Retired /\ Closed' = Closed
    BY <2>1, <1>2 DEF Retired, Closed, Inserted
  <2>4. nextId \in Tokens!Fresh
    BY <2>1 DEF Tokens!Fresh, Owner, UseInv, TokensInv, Used
  <2>5. u \in User \ Closed
    BY <2>1 DEF Closed
  <2> QED
    BY <2>1, <2>2, <2>3, <2>4, <2>5 DEF Tokens!Next, Tokens!Issue
<1> QED
  BY <1>1, <1>2 DEF InsertSession

\* A commit trades a token that is usable, or raced for, for a new one.
LEMMA CommitTokens ==
    ASSUME IInv, UseInv, NEW r \in Request, Commit(r)
    PROVE  Tokens!Next
<1> DEFINE t == req[r].tok
           n == req[r].new
<1>1. /\ UNCHANGED <<users, known, raced>>
      /\ minted' = minted \cup {<<t, n>>}
      /\ t \in DOMAIN sess /\ n \notin DOMAIN sess /\ n \notin known /\ n \in SessionId
      /\ sess[t].user = req[r].user
      /\ sess[t] \in Row
      /\ req[r].pc \in Rotating
  <2>1. Old(r) /\ New(r) /\ TypeOK
    BY DEF IInv
  <2> QED
    BY <2>1 DEF Commit, At, Old, New, Rotating, Pending, HasNew, TypeOK
<1>2. /\ DOMAIN sess' = DOMAIN sess \cup {n}
      /\ \A s \in DOMAIN sess : s # t => sess'[s] = sess[s]
      /\ sess'[t] = [sess[t] EXCEPT !.revoked = TRUE, !.next = n]
      /\ sess'[n].user = req[r].user /\ sess'[n].revoked = FALSE
  BY <1>1 DEF Commit, Inserted, Replaced
<1>3. sess'[t].user = sess[t].user /\ sess'[t].revoked = TRUE
  BY <1>1, <1>2 DEF Row
<1>4. Owner' = Tokens!With(Owner, n, Owner[t])
  <2>1. \A s \in DOMAIN sess' :
            sess'[s].user = IF s = n THEN sess[t].user ELSE sess[s].user
    BY <1>1, <1>2, <1>3
  <2> QED
    BY <2>1, <1>1, <1>2 DEF Owner, Tokens!With
<1>5. Retired' = Retired \cup {t}
  BY <1>1, <1>2, <1>3 DEF Retired
<1>6. Closed' = Closed
  BY <1>1 DEF Closed
<1>7. n \in Tokens!Fresh
  BY <1>1 DEF Tokens!Fresh, Owner, UseInv, TokensInv, Used
<1>8. t \in Retired => t \in raced
  BY <1>1 DEF Retired, UseInv, TokensInv, Rotated, Once
<1>9. t \in DOMAIN Owner
  BY <1>1 DEF Owner
<1> QED
  BY <1>1, <1>4, <1>5, <1>6, <1>7, <1>8, <1>9 DEF Tokens!Next, Tokens!Rotate

\* The end of an account closes it; deactivating it changes nothing here.
LEMMA OperatorTokens ==
    ASSUME IInv, NEW u \in User, SetActive(u) \/ DeleteUser(u)
    PROVE  Tokens!Next \/ UNCHANGED Tokens!vars
<1>t. users \in [User -> Status]
  BY DEF IInv, TypeOK
<1>1. CASE SetActive(u)
  BY <1>t, <1>1, Stutter DEF SetActive, Exists
<1>2. CASE DeleteUser(u)
  <2> DEFINE left == {s \in DOMAIN sess : sess[s].user # u}
  <2>1. /\ UNCHANGED <<minted, raced>>
        /\ sess' = [s \in left |-> sess[s]]
        /\ users' = [users EXCEPT ![u] = "deleted"]
        /\ u \in User \ Closed
    BY <1>2 DEF DeleteUser, Exists, Closed
  <2>2. left = {t \in DOMAIN Owner : Owner[t] # u}
    BY DEF Owner
  <2>3. Owner' = [t \in left |-> Owner[t]]
    BY <2>1 DEF Owner
  <2>4. Retired' = Retired \cap left
    BY <2>1 DEF Retired
  <2>5. Closed' = Closed \cup {u}
    BY <2>1, <1>t DEF Closed
  <2> HIDE DEF left
  <2> QED
    BY <2>1, <2>2, <2>3, <2>4, <2>5 DEF Tokens!Next, Tokens!Close
<1> QED
  BY <1>1, <1>2

\* A token presented is raced for, or nothing changes.
LEMMA StartRefreshTokens ==
    ASSUME IInv, NEW r \in Request, NEW t \in known \cup {NoSession}, StartRefresh(r, t)
    PROVE  Tokens!Next \/ UNCHANGED Tokens!vars
<1>1. UNCHANGED <<users, sess, minted>>
  BY DEF StartRefresh
<1>2. CASE raced' = raced
  BY <1>1, <1>2, Stutter
<1>3. CASE t \in known /\ raced' = raced \cup {t}
  <2>1. t \in SessionId
    BY <1>3 DEF IInv, TypeOK
  <2>2. UNCHANGED <<Owner, Retired, Closed>>
    BY <1>1 DEF Owner, Retired, Closed
  <2> QED
    BY <1>1, <1>3, <2>1, <2>2 DEF Tokens!Next, Tokens!Race
<1> QED
  BY <1>2, <1>3 DEF StartRefresh

\* Every step is one of the abstract token's, or leaves it alone.
LEMMA StepTokens ==
    ASSUME IInv, UseInv, [Next]_vars
    PROVE  [Tokens!Next]_(Tokens!vars)
<1>1. ASSUME NEW r \in Request,
             \/ StartRegister(r)
             \/ \E u \in User : StartLogin(r, u)
             \/ SelectUser(r) \/ Begin(r) \/ Revoke(r) \/ Insert(r) \/ Link(r)
             \/ LoadEmail(r) \/ Answer(r) \/ HangUp(r) \/ Drop(r) \/ Lookup(r)
      PROVE  UNCHANGED Tokens!vars
  <2>1. UNCHANGED <<users, sess, minted, raced>>
    BY <1>1 DEF StartRegister, StartLogin, SelectUser, Begin, Revoke, Insert, Link,
       LoadEmail, Answer, HangUp, Drop, Lookup
  <2> QED
    BY <2>1, Stutter
<1>2. ASSUME NEW r \in Request, InsertUser(r) PROVE UNCHANGED Tokens!vars
  <2>1. users \in [User -> Status]
    BY DEF IInv, TypeOK
  <2>2. \A u \in User : users'[u] = "deleted" <=> users[u] = "deleted"
    BY <2>1, <1>2 DEF InsertUser
  <2> QED
    BY <1>2, <2>2, Stutter DEF InsertUser
<1>3. CASE Tick \/ UNCHANGED vars
  BY <1>3, Stutter DEF Tick, vars
<1> QED
  BY <1>1, <1>2, <1>3, InsertSessionTokens, CommitTokens, OperatorTokens,
     StartRefreshTokens DEF Next, Serve

\* The service (service.rs), with its requests, transactions, failures and
\* COMMITs that land after their client has gone, does to the tokens of its
\* users only what RotatingTokens says: a second rotation takes a Race.
THEOREM Rotates == Spec => ImplementsRotation
<1>1. Spec => Tokens!Init
  BY InitTokens DEF Spec
<1>2. IInv /\ UseInv /\ [Next]_vars => [Tokens!Next]_(Tokens!vars)
  BY StepTokens
<1> QED
  BY <1>1, <1>2, UseInvariance, PTL DEF Spec, ImplementsRotation, Tokens!Spec
=============================================================================
