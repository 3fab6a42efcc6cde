------------------------- MODULE TableRequestProofs -------------------------
(***************************************************************************)
(* What a request on a table may rest on, for any users, tables, requests, *)
(* leeways and times to live: the gate within the whole is the gate by     *)
(* itself, so that what RegistryCacheProofs says of it holds here.         *)
(***************************************************************************)
EXTENDS TableRequest, TLAPS

Alone == INSTANCE RegistryCacheProofs WITH req <- gate

-----------------------------------------------------------------------------
(* The gate by itself *)

\* Two names for one formula.
LEMMA Same == (Gate!Init <=> Alone!Init) /\ (Gate!Next <=> Alone!Next)
<1>1. Gate!Init <=> Alone!Init
  BY
      DEF Gate!Init, Alone!Init, Gate!Presence, Alone!Presence, Gate!Config, 
          Alone!Config, Gate!NoValue, Alone!NoValue, Gate!NoEntry, Alone!NoEntry, 
          Gate!Idle, Alone!Idle, Gate!Cap, Alone!Cap, Gate!HasConfig, 
          Alone!HasConfig, Gate!Loaded, Alone!Loaded
<1>2. Gate!Next <=> Alone!Next
  BY
      DEF Gate!vars, Alone!vars, Gate!database, Alone!database, Gate!Presence, 
          Alone!Presence, Gate!Config, Alone!Config, Gate!NoValue, Alone!NoValue, 
          Gate!Cap, Alone!Cap, Gate!NoEntry, Alone!NoEntry, Gate!Idle, Alone!Idle, 
          Gate!Loaded, Alone!Loaded, Gate!HasConfig, Alone!HasConfig, Gate!At, 
          Alone!At, Gate!Goto, Alone!Goto, Gate!Finish, Alone!Finish, Gate!Fresh, 
          Alone!Fresh, Gate!Start, Alone!Start, Gate!KnowExists, Alone!KnowExists, 
          Gate!Admits, Alone!Admits, Gate!KnowConfig, Alone!KnowConfig, 
          Gate!GetExists, Alone!GetExists, Gate!ReadExists, Alone!ReadExists, 
          Gate!PutExists, Alone!PutExists, Gate!GetConfig, Alone!GetConfig, 
          Gate!ReadConfig, Alone!ReadConfig, Gate!PutConfig, Alone!PutConfig, 
          Gate!Run, Alone!Run, Gate!Drop, Alone!Drop, Gate!Evict, Alone!Evict, 
          Gate!Aged, Alone!Aged, Gate!Later, Alone!Later, Gate!Tick, Alone!Tick, 
          Gate!Mark, Alone!Mark, Gate!SetRegistry, Alone!SetRegistry, Gate!SetRow, 
          Alone!SetRow, Gate!Serve, Alone!Serve, Gate!Next, Alone!Next
<1> QED
  BY <1>1, <1>2

\* A step of the whole is a step of the gate or none.
LEMMA GateStep == [Move]_allVars => [Gate!Next]_gateVars
<1> SUFFICES ASSUME [Move]_allVars PROVE [Gate!Next]_gateVars
  OBVIOUS
<1>1. ASSUME NEW r \in Request, NEW t \in Table, Enter(r, t) PROVE Gate!Next
  BY <1>1 DEF Enter, Gate!Next
<1>2. ASSUME NEW r \in Request, Pass(r) PROVE Gate!Next
  BY <1>2 DEF Pass, Gate!Next
<1>3. ASSUME NEW r \in Request, HangUp(r) PROVE [Gate!Next]_gateVars
  BY <1>3 DEF HangUp, Gate!Next
<1>4. ASSUME Operator PROVE Gate!Next
  BY <1>4 DEF Operator, Gate!Next
<1>5. ASSUME Tick PROVE Gate!Next
  BY <1>5 DEF Tick, Gate!Next
<1>6. CASE UNCHANGED allVars
  BY <1>6 DEF allVars, gateVars
<1> QED
  BY <1>1, <1>2, <1>3, <1>4, <1>5, <1>6 DEF Move, Work, Me

\* Whatever runs beside it, the gate of a table request behaves as
\* RegistryCache does.
THEOREM GateAlone == System => Alone!Spec
<1>1. Begin => Alone!Init
  BY Same DEF Begin
<1>2. [Move]_allVars => [Alone!Next]_(Alone!vars)
  BY GateStep, Same DEF gateVars, Alone!vars
<1> QED
  BY <1>1, <1>2, PTL DEF System, Alone!Spec

-----------------------------------------------------------------------------
(* Who a request is taken for *)

\* A request in flight is for a user its token has been verified for, and
\* late at most while the account it still has to load is not active.
Sound(c) ==
    /\ c \in Call
    /\ c.pc = "load" =>
          /\ c.user \in User
          /\ c.age <= AccessTtl + LeewayOf(c.kind)
          /\ c.late => ~accounts[c.user]
    /\ c.pc = "serve" =>
          /\ ~c.late
          /\ c.user = NoUser => c.kind = "optional"
          /\ c.age <= AccessTtl + LeewayOf(c.kind)

AuthInv ==
    /\ accounts \in [User -> BOOLEAN]
    /\ call \in [Request -> Call]
    /\ \A r \in Request : Sound(call[r])

\* A step of one request.
LEMMA CallStep ==
    ASSUME AuthInv, NEW r \in Request, NEW c, Sound(c), Arrived(r, c), UNCHANGED accounts
    PROVE  AuthInv'
BY DEF AuthInv, Sound, Arrived

\* Nobody's request is sound, at rest and when it is served.
LEMMA Nobodys == \A pc \in {"idle", "serve"} : Sound(Anonymous(pc))
BY AccessGateAssumption DEF Anonymous, Sound, Call, Kind, Stale, LeewayOf

\* So is the request that was and whose user is known or unknown now.
LEMMA Outcomes ==
    ASSUME AuthInv, NEW r \in Request, UNCHANGED accounts
    PROVE  /\ End(r) => AuthInv'
           /\ Unknown(r) => AuthInv'
           /\ call[r].pc = "load" /\ accounts[call[r].user] /\ Known(r) => AuthInv'
<1>1. End(r) => AuthInv'
  BY Nobodys, CallStep DEF End, NoCall
<1>2. Unknown(r) => AuthInv'
  BY <1>1, Nobodys, CallStep DEF Unknown
<1>3. ASSUME call[r].pc = "load", accounts[call[r].user], Known(r) PROVE AuthInv'
  <2> DEFINE c == [call[r] EXCEPT !.pc = "serve"]
  <2>1. call[r] \in Call /\ Sound(call[r])
    BY DEF AuthInv
  <2>2. Sound(c)
    BY <1>3, <2>1, AccessGateAssumption DEF Sound, Call, Kind, Stale, LeewayOf
  <2> QED
    BY <1>3, <2>2, CallStep DEF Known
<1> QED
  BY <1>1, <1>2, <1>3

\* Every step of a request or of the operator keeps requests sound.
LEMMA AuthNext == AuthInv /\ [Next]_authVars => AuthInv'
<1> SUFFICES ASSUME AuthInv, [Next]_authVars PROVE AuthInv'
  OBVIOUS
<1>1. ASSUME NEW r \in Request, NEW kind \in Kind, NEW u \in User, NEW age \in 0..Stale,
             Arrive(r, kind, u, age)
      PROVE  AuthInv'
  <2> DEFINE c == [pc |-> "load", kind |-> kind, user |-> u, age |-> age,
                   late |-> ~accounts[u]]
  <2>1. Sound(c)
    BY <1>1 DEF AuthInv, Arrive, Unexpired, Sound, Call
  <2> QED
    BY <1>1, <2>1, CallStep DEF Arrive
<1>2. ASSUME NEW r \in Request, ArriveWithout(r) PROVE AuthInv'
  BY <1>2, Nobodys, CallStep DEF ArriveWithout
<1>3. ASSUME NEW r \in Request, LoadUser(r) PROVE AuthInv'
  BY <1>3, Outcomes DEF LoadUser, Doing
<1>4. ASSUME NEW r \in Request, LoadFails(r) \/ Answer(r) \/ Abandon(r) PROVE AuthInv'
  BY <1>4, Outcomes DEF LoadFails, Answer, Abandon
<1>5. ASSUME NEW u \in User, SetActive(u, ~accounts[u]) PROVE AuthInv'
  <2>1. accounts' \in [User -> BOOLEAN] /\ call' \in [Request -> Call]
    BY <1>5 DEF SetActive, AuthInv, Call
  <2>2. ASSUME NEW r \in Request PROVE Sound(call[r])'
    <3> DEFINE active == ~accounts[u]
               c == [call[r] EXCEPT !.late = @ /\ ~(active /\ call[r].user = u)]
    <3>1. call[r] \in Call /\ Sound(call[r])
      BY DEF AuthInv
    <3>2. call'[r] = c /\ accounts' = [accounts EXCEPT ![u] = active]
      BY <1>5 DEF SetActive
    <3>3. /\ c.pc = call[r].pc /\ c.user = call[r].user /\ c.kind = call[r].kind
          /\ c.age = call[r].age
          /\ c.late = (call[r].late /\ ~(active /\ call[r].user = u))
          /\ c \in Call
      BY <3>1 DEF Call
    <3>4. c.pc = "load" /\ c.late => ~accounts'[c.user]
      BY <3>1, <3>2, <3>3 DEF Sound, AuthInv
    <3> QED
      BY <3>1, <3>2, <3>3, <3>4 DEF Sound
  <2> QED
    BY <2>1, <2>2 DEF AuthInv
<1>6. CASE UNCHANGED authVars
  BY <1>6 DEF authVars, AuthInv, Sound
<1> QED
  BY <1>1, <1>2, <1>3, <1>4, <1>5, <1>6 DEF Next

-----------------------------------------------------------------------------
(* The two together *)

\* A request that is at the gate has come from OptionalUser, and the gate
\* knows whether it has a user.
Linked ==
    \A r \in Request : gate[r].pc # "idle" =>
        /\ call[r].pc = "serve" /\ call[r].kind = "optional"
        /\ gate[r].user = (call[r].user # NoUser)

IInv == AuthInv /\ Linked

\* A step of a request at the gate ends it or leaves its user alone.
LEMMA GateKeepsUser ==
    ASSUME Gate!TypeOK, NEW r \in Request, Gate!Serve(r)
    PROVE  /\ gate[r].pc # "idle"
           /\ \A x \in Request : x # r => gate'[x] = gate[x]
           /\ gate'[r] = Gate!Idle \/ (gate'[r].user = gate[r].user)
<1> USE DEF Gate!TypeOK, Gate!RequestState, Gate!At
<1> DEFINE Kept == /\ \A x \in Request : x # r => gate'[x] = gate[x]
                   /\ gate'[r] = Gate!Idle \/ (gate'[r].user = gate[r].user)
<1>1. ASSUME NEW pc, NEW v, Gate!Goto(r, pc, v) PROVE Kept
  BY <1>1 DEF Gate!Goto
<1>2. Gate!Finish(r) => Kept
  BY DEF Gate!Finish
<1>3. ASSUME NEW v, Gate!KnowExists(r, v) \/ Gate!KnowConfig(r, v) PROVE Kept
  BY <1>1, <1>2, <1>3 DEF Gate!KnowExists, Gate!KnowConfig
<1> HIDE DEF Kept
<1>4. Gate!GetExists(r) \/ Gate!ReadExists(r) \/ Gate!PutExists(r) => Kept
  BY <1>1, <1>3 DEF Gate!GetExists, Gate!ReadExists, Gate!PutExists
<1>5. Gate!GetConfig(r) \/ Gate!ReadConfig(r) \/ Gate!PutConfig(r) => Kept
  BY <1>1, <1>2, <1>3 DEF Gate!GetConfig, Gate!ReadConfig, Gate!PutConfig
<1>6. Gate!Run(r) => Kept
  BY <1>2 DEF Gate!Run
<1>7. gate[r].pc # "idle"
  BY DEF Gate!Serve, Gate!GetExists, Gate!ReadExists, Gate!PutExists,
         Gate!GetConfig, Gate!ReadConfig, Gate!PutConfig, Gate!Run
<1> QED
  BY <1>4, <1>5, <1>6, <1>7 DEF Gate!Serve, Kept

\* The end of a request at the gate is, for the extractors, an answer.
LEMMA AuthStep == Gate!TypeOK /\ Linked /\ [Move]_allVars => [Next]_authVars
<1> SUFFICES ASSUME Gate!TypeOK, Linked, [Move]_allVars PROVE [Next]_authVars
  OBVIOUS
<1>1. ASSUME NEW r \in Request, Pass(r) PROVE [Next]_authVars
  <2>1. Doing(r, "serve")
    BY <1>1, GateKeepsUser DEF Pass, Linked, Doing
  <2> QED
    BY <1>1, <2>1 DEF Pass, Answer, Next, authVars
<1>2. ASSUME NEW r \in Request, Me(r) \/ HangUp(r) PROVE Next
  BY <1>2 DEF Me, HangUp, Next
<1>3. ASSUME NEW r \in Request, NEW t \in Table, Enter(r, t) PROVE UNCHANGED authVars
  BY <1>3 DEF Enter
<1>4. ASSUME NEW r \in Request, LoadUser(r) \/ LoadFails(r) \/ ArriveWithout(r) PROVE Next
  BY <1>4 DEF Next
<1>5. ASSUME NEW r \in Request, NEW kind \in Kind, NEW u \in User, NEW age \in 0..Stale,
             Arrive(r, kind, u, age)
      PROVE  Next
  BY <1>5 DEF Next
<1>6. ASSUME NEW u \in User, SetActive(u, ~accounts[u]) PROVE Next
  BY <1>6 DEF Next
<1>7. Tick => UNCHANGED authVars
  BY DEF Tick
<1>8. UNCHANGED allVars => UNCHANGED authVars
  BY DEF allVars
<1> QED
  BY <1>1, <1>2, <1>3, <1>4, <1>5, <1>6, <1>7, <1>8 DEF Move, Work

\* A step of the extractors for a request that is not at the gate.
LEMMA Aside ==
    ASSUME Linked, NEW r \in Request, gate[r].pc = "idle", UNCHANGED gate,
           \A x \in Request : x # r => call'[x] = call[x]
    PROVE  Linked'
BY DEF Linked

\* A request reaches the gate from OptionalUser and leaves it with its answer.
LEMMA LinkedStep == AuthInv /\ Gate!TypeOK /\ Linked /\ [Move]_allVars => Linked'
<1> SUFFICES ASSUME AuthInv, Gate!TypeOK, Linked, [Move]_allVars PROVE Linked'
  OBVIOUS
<1> USE DEF AuthInv, Gate!TypeOK, Gate!RequestState
<1>1. ASSUME NEW r \in Request, NEW t \in Table, Enter(r, t) PROVE Linked'
  <2>1. /\ call[r].pc = "serve" /\ call[r].kind = "optional" /\ UNCHANGED call
        /\ \A x \in Request : x # r => gate'[x] = gate[x]
        /\ gate'[r].user = (call[r].user # NoUser)
    BY <1>1 DEF Enter, Doing, Gate!Start, Gate!Idle, authVars
  <2> QED
    BY <2>1 DEF Linked
<1>2. ASSUME NEW r \in Request, Pass(r) PROVE Linked'
  <2>1. /\ gate[r].pc # "idle"
        /\ \A x \in Request : x # r => gate'[x] = gate[x]
        /\ gate'[r] = Gate!Idle \/ (gate'[r].user = gate[r].user)
    BY <1>2, GateKeepsUser DEF Pass
  <2>2. \A x \in Request : x # r => call'[x] = call[x]
    BY <1>2 DEF Pass, End, Arrived
  <2>3. CASE gate'[r] = Gate!Idle
    BY <2>1, <2>2, <2>3 DEF Linked, Gate!Idle
  <2>4. CASE gate'[r] # Gate!Idle
    <3>1. UNCHANGED call
      BY <1>2, <2>4 DEF Pass
    <3> QED
      BY <2>1, <2>4, <3>1 DEF Linked
  <2> QED
    BY <2>3, <2>4
<1>3. ASSUME NEW r \in Request, HangUp(r) PROVE Linked'
  <2>1. \A x \in Request : x # r => call'[x] = call[x]
    BY <1>3 DEF HangUp, Abandon, End, Arrived
  <2>2. CASE gate[r] = Gate!Idle
    BY <1>3, <2>1, <2>2, Aside DEF HangUp, gateVars, Gate!Idle
  <2>3. CASE gate[r] # Gate!Idle
    <3>1. gate' = [gate EXCEPT ![r] = Gate!Idle]
      BY <1>3, <2>3 DEF HangUp, Gate!Drop, Gate!Finish
    <3> QED
      BY <2>1, <3>1 DEF Linked, Gate!Idle
  <2> QED
    BY <2>2, <2>3
<1>4. ASSUME NEW r \in Request, Me(r) \/ (LoadUser(r) /\ UNCHANGED gateVars)
                                   \/ (LoadFails(r) /\ UNCHANGED gateVars)
                                   \/ (ArriveWithout(r) /\ UNCHANGED gateVars)
      PROVE  Linked'
  <2>1. gate[r].pc = "idle" /\ UNCHANGED gate
    BY <1>4 DEF Linked, Me, LoadUser, LoadFails, ArriveWithout, Doing, gateVars
  <2>2. \A x \in Request : x # r => call'[x] = call[x]
    BY <1>4 DEF Me, Answer, LoadUser, LoadFails, ArriveWithout, Known, Unknown, End, Arrived
  <2> QED
    BY <2>1, <2>2, Aside
<1>5. ASSUME NEW r \in Request, NEW kind \in Kind, NEW u \in User, NEW age \in 0..Stale,
             Arrive(r, kind, u, age), UNCHANGED gateVars
      PROVE  Linked'
  <2>1. gate[r].pc = "idle" /\ UNCHANGED gate
    BY <1>5 DEF Linked, Arrive, Doing, gateVars
  <2> QED
    BY <1>5, <2>1, Aside DEF Arrive, Arrived
<1>6. ASSUME NEW u \in User, SetActive(u, ~accounts[u]), UNCHANGED gateVars PROVE Linked'
  <2>1. \A x \in Request : /\ call'[x].pc = call[x].pc /\ call'[x].kind = call[x].kind
                           /\ call'[x].user = call[x].user
    BY <1>6 DEF SetActive, Call
  <2> QED
    BY <1>6, <2>1 DEF Linked, gateVars
<1>7. ASSUME Tick PROVE Linked'
  <2>1. \A x \in Request : gate'[x].pc = gate[x].pc /\ gate'[x].user = gate[x].user
    BY <1>7 DEF Tick, Gate!Tick, Gate!At
  <2> QED
    BY <1>7, <2>1 DEF Linked, Tick, authVars
<1>8. ASSUME Operator, UNCHANGED authVars PROVE Linked'
  <2>1. UNCHANGED gate
    BY <1>8 DEF Operator, Gate!SetRegistry, Gate!SetRow, Gate!Mark, Gate!Evict
  <2> QED
    BY <1>8, <2>1 DEF Linked, authVars
<1>9. CASE UNCHANGED allVars
  BY <1>9 DEF Linked, allVars, authVars, gateVars
<1> QED
  BY <1>1, <1>2, <1>3, <1>4, <1>5, <1>6, <1>7, <1>8, <1>9 DEF Move, Work

\* The gate's types under either name.
LEMMA GateTypes == Alone!TypeOK => Gate!TypeOK
BY DEF Gate!TypeOK, Alone!TypeOK, Gate!Presence, Alone!Presence, Gate!Config, Alone!Config,
       Gate!NoValue, Alone!NoValue, Gate!Entry, Alone!Entry, Gate!NoEntry, Alone!NoEntry,
       Gate!RequestState, Alone!RequestState, Gate!Pc, Alone!Pc, Gate!Cap, Alone!Cap

\* The invariant of the whole holds: that of the gate is known already.
LEMMA Invariance == System => [](IInv /\ Gate!TypeOK)
<1>1. System => []Gate!TypeOK
  BY GateAlone, Alone!TypeCorrect, TableRequestAssumption, GateTypes, PTL
<1>2. Begin => IInv
  <2> SUFFICES ASSUME Begin PROVE IInv
    OBVIOUS
  <2>1. AuthInv
    BY Nobodys DEF Begin, Init, AuthInv, NoCall, Sound
  <2>2. Linked
    BY DEF Begin, Gate!Init, Gate!Idle, Linked
  <2> QED
    BY <2>1, <2>2 DEF IInv
<1>3. IInv /\ Gate!TypeOK /\ [Move]_allVars => IInv'
  BY AuthNext, AuthStep, LinkedStep DEF IInv
<1> QED
  BY <1>1, <1>2, <1>3, PTL DEF System

-----------------------------------------------------------------------------
(* Theorems *)

\* Accounts, requests, registry and caches stay well-formed (extractors.rs,
\* registry/mod.rs).
THEOREM TypesCorrect == System => []Types
<1>1. IInv /\ Gate!TypeOK => Types
  BY DEF IInv, AuthInv, Types, TypeOK
<1> QED
  BY <1>1, Invariance, PTL

\* A handler runs as a user only on a good token of an account that was
\* active since the request arrived (middleware.rs, extractors.rs).
THEOREM IsTakenForTheOwner == System => []TakenForTheOwner
<1>1. IInv => TakenForTheOwner
  BY DEF IInv, AuthInv, Sound, TakenForTheOwner, Doing
<1> QED
  BY <1>1, Invariance, PTL

\* A statement on a table runs for a reason that held within the window, and
\* where a user is required for one that is rightly taken for it (routes.rs).
THEOREM IsReachedRightly == System => []ReachedRightly
<1>1. System => []Alone!GateFresh
  BY GateAlone, Alone!GateIsFresh, TableRequestAssumption, PTL
<1>2. ASSUME IInv, Alone!GateFresh PROVE ReachedRightly
  <2> SUFFICES ASSUME NEW r \in Request, gate[r].pc = "run"
               PROVE  IF gate[r].val = "absent"
                      THEN sinceExists["absent"] <= Gate!Window + gate[r].wait
                      ELSE /\ \/ gate[r].val = "public"
                              \/ (gate[r].val = "auth" /\ call[r].user # NoUser /\ ~call[r].late)
                           /\ sinceConfig[gate[r].table][gate[r].val]
                                 <= Gate!Window + gate[r].wait
    BY DEF ReachedRightly
  <2>1. IF gate[r].val = "absent"
        THEN sinceExists["absent"] <= Gate!Window + gate[r].wait
        ELSE /\ gate[r].val \in {"public", "auth"}
             /\ gate[r].val = "auth" => gate[r].user
             /\ sinceConfig[gate[r].table][gate[r].val] <= Gate!Window + gate[r].wait
    BY <1>2 DEF Alone!GateFresh, Alone!At, Alone!Window, Gate!Window
  <2>2. gate[r].user = (call[r].user # NoUser) /\ ~call[r].late
    BY <1>2 DEF IInv, Linked, AuthInv, Sound
  <2> QED
    BY <2>1, <2>2
<1> QED
  BY <1>1, <1>2, Invariance, PTL
=============================================================================
