-------------------------- MODULE TableMetaProofs --------------------------
(***************************************************************************)
(* How far the guards of update_rows and insert_rows may lag behind the    *)
(* table, for any columns and requests, any time to live and any bound on  *)
(* a step.                                                                 *)
(***************************************************************************)
EXTENDS TableMeta, TLAPS

-----------------------------------------------------------------------------
(* The inductive invariant *)

\* A column that is not there, now, has not been there for no time.
Current ==
    \A c \in Column :
        /\ c \notin columns => sinceColumn[c] = 0
        /\ c \notin key => sinceKey[c] = 0

\* What metadata lacks was lacking so many ticks ago.
Lacks(known, n) == \A c \in Column : c \notin known => sinceColumn[c] <= n
LacksKey(pk, n) == \A c \in Column : c \notin pk => sinceKey[c] <= n

\* A statement that was built on such metadata.
Guarded(r) ==
    /\ req[r].op = "update" => sinceKey[req[r].col] <= KeyWindow + req[r].wait
    /\ req[r].op = "update" /\ req[r].user => req[r].col # Owner
    /\ req[r].op = "insert" /\ req[r].user /\ ~req[r].forced =>
          sinceColumn[Owner] <= ColumnWindow + req[r].wait

\* What a request has read was so when it read it.
Held(r) ==
    /\ At(r, "readKey") => Lacks(req[r].columns, req[r].wait)
    /\ At(r, "put") => /\ Lacks(req[r].columns, MaxStep + req[r].wait)
                       /\ LacksKey(req[r].key, req[r].wait)
    /\ At(r, "run") => Guarded(r)

IInv ==
    /\ TypeOK
    /\ Current
    /\ MetaBounded
    /\ \A r \in Request : Held(r)

-----------------------------------------------------------------------------
(* It holds of the initial states and is kept by every step *)

\* At the start the cache is empty and there are no requests.
LEMMA InitIInv == Init => IInv
<1> SUFFICES ASSUME Init PROVE IInv
  OBVIOUS
<1> USE TableMetaAssumption DEF Init
<1>1. TypeOK
  BY DEF TypeOK, Cap, RequestState, Idle, Pc
<1>2. Current
  BY DEF Current
<1>3. MetaBounded
  BY DEF MetaBounded
<1>4. \A r \in Request : Held(r)
  BY DEF Held, Idle, At
<1> QED
  BY <1>1, <1>2, <1>3, <1>4 DEF IInv

\* A step of one request, after which it holds what it may hold and the cache
\* what it may hold.
LEMMA RequestStep ==
    ASSUME IInv, NEW r \in Request, NEW q \in RequestState,
           UNCHANGED database,
           req' = [req EXCEPT ![r] = q],
           Held(r)', MetaBounded', cache' \in Entry \cup {NoEntry}
    PROVE  IInv'
<1>1. TypeOK'
  BY DEF IInv, TypeOK, database
<1>2. Current'
  BY DEF IInv, Current, database
<1>3. ASSUME NEW x \in Request PROVE Held(x)'
  <2>1. CASE x = r
    BY <2>1
  <2>2. CASE x # r
    <3>1. req'[x] = req[x]
      BY <2>2 DEF IInv, TypeOK
    <3> QED
      BY <3>1 DEF IInv, Held, Guarded, Lacks, LacksKey, At, database
  <2> QED
    BY <2>1, <2>2
<1> QED
  BY <1>1, <1>2, <1>3 DEF IInv

\* The request ends.
LEMMA FinishStep ==
    ASSUME IInv, NEW r \in Request, Finish(r), UNCHANGED database,
           MetaBounded', cache' \in Entry \cup {NoEntry}
    PROVE  IInv'
<1>1. Idle \in RequestState
  BY TableMetaAssumption DEF Idle, RequestState, Pc
<1>2. Held(r)'
  BY DEF Finish, Held, At, Idle, IInv, TypeOK
<1> QED
  BY <1>1, <1>2, RequestStep DEF Finish

\* The bounds are integers.
LEMMA Arithmetic ==
    ASSUME TypeOK
    PROVE  /\ MaxStep \in Nat /\ Ttl \in Nat /\ Ttl > 0 /\ Cap \in Nat
           /\ KeyWindow \in Int /\ ColumnWindow \in Int
           /\ KeyWindow = Ttl - 1 + MaxStep /\ ColumnWindow = Ttl - 1 + 2 * MaxStep
           /\ \A c \in Column : sinceColumn[c] \in Int /\ sinceKey[c] \in Int
           /\ \A r \in Request : req[r].wait \in 0..MaxStep
BY TableMetaAssumption DEF TypeOK, Cap, KeyWindow, ColumnWindow, RequestState

\* The handler builds its statement on metadata within the windows.
LEMMA BuildStep ==
    ASSUME IInv, NEW r \in Request, NEW known \in SUBSET Column, NEW pk \in SUBSET Column,
           Build(r, known, pk), UNCHANGED database,
           Lacks(known, ColumnWindow), LacksKey(pk, KeyWindow),
           MetaBounded', cache' \in Entry \cup {NoEntry}
    PROVE  IInv'
<1> DEFINE forced == req[r].op = "insert" /\ Owner \in known /\ req[r].user
           go == req[r].op = "update" => MayUpdate(r, known, pk)
           q == [req[r] EXCEPT !.pc = "run", !.forced = forced, !.wait = 0]
<1>a. /\ MaxStep \in Nat /\ KeyWindow \in Int /\ ColumnWindow \in Int
      /\ \A c \in Column : sinceColumn[c] \in Int /\ sinceKey[c] \in Int
  BY Arithmetic DEF IInv
<1>1. CASE ~go
  BY <1>1, FinishStep DEF Build
<1>2. CASE go
  <2>1. req' = [req EXCEPT ![r] = q]
    BY <1>2 DEF Build
  <2>2. req[r] \in RequestState
    BY DEF IInv, TypeOK
  <2>3. forced \in BOOLEAN
    BY <2>2 DEF RequestState
  <2>4. /\ q \in RequestState
        /\ q.pc = "run" /\ q.forced = forced /\ q.wait = 0
        /\ q.op = req[r].op /\ q.user = req[r].user /\ q.col = req[r].col
        /\ q.col \in Column
    <3>1. 0 \in 0..MaxStep
      BY <1>a
    <3> HIDE DEF forced
    <3>2. q \in RequestState
      BY <2>2, <2>3, <3>1 DEF RequestState, Pc
    <3> QED
      BY <2>2, <3>2 DEF RequestState
  <2>5. req'[r] = q
    BY <2>1 DEF IInv, TypeOK
  <2>6. q.op = "update" => sinceKey[q.col] <= KeyWindow
    BY <1>2, <2>4 DEF MayUpdate, LacksKey
  <2>7. q.op = "update" /\ q.user => q.col # Owner
    BY <1>2, <2>4 DEF MayUpdate
  <2>8. q.op = "insert" /\ q.user /\ ~q.forced => sinceColumn[Owner] <= ColumnWindow
    BY <2>4, TableMetaAssumption DEF Lacks
  <2>9. Held(r)'
    <3>1. sinceColumn' = sinceColumn /\ sinceKey' = sinceKey
      BY DEF database
    <3> HIDE DEF q, forced, go
    <3>2. Guarded(r)'
      BY <1>a, <2>4, <2>5, <2>6, <2>7, <2>8, <3>1, TableMetaAssumption
         DEF Guarded, KeyWindow, ColumnWindow
    <3> QED
      BY <2>4, <2>5, <3>2 DEF Held, At
  <2> HIDE DEF q
  <2> QED
    BY <2>1, <2>4, <2>9, RequestStep
<1> QED
  BY <1>1, <1>2

\* A request that moves on to another query.
LEMMA GotoStep ==
    ASSUME IInv, NEW r \in Request,
           NEW pc \in {"readExists", "readColumns", "readKey", "put"},
           NEW known \in SUBSET Column, NEW pk \in SUBSET Column,
           Goto(r, pc, known, pk), UNCHANGED <<database, cache>>,
           pc = "readKey" => Lacks(known, 0),
           pc = "put" => Lacks(known, MaxStep) /\ LacksKey(pk, 0)
    PROVE  IInv'
<1> DEFINE q == [req[r] EXCEPT !.pc = pc, !.columns = known, !.key = pk, !.wait = 0]
<1>1. req' = [req EXCEPT ![r] = q]
  BY DEF Goto
<1>2. req[r] \in RequestState /\ MaxStep \in Nat
  BY TableMetaAssumption DEF IInv, TypeOK
<1>3. /\ q \in RequestState
      /\ q.pc = pc /\ q.columns = known /\ q.key = pk /\ q.wait = 0
  <2>1. 0 \in 0..MaxStep /\ pc \in Pc
    BY <1>2 DEF Pc
  <2>2. q \in RequestState
    BY <1>2, <2>1 DEF RequestState
  <2> QED
    BY <1>2, <2>2 DEF RequestState
<1>4. req'[r] = q
  BY <1>1 DEF IInv, TypeOK
<1> HIDE DEF q
<1>5. Held(r)'
  BY <1>2, <1>3, <1>4 DEF Held, At, Lacks, LacksKey, database
<1>6. MetaBounded' /\ cache' \in Entry \cup {NoEntry}
  BY DEF IInv, TypeOK, MetaBounded, database
<1> QED
  BY <1>1, <1>3, <1>5, <1>6, RequestStep

\* The actions of a request.
LEMMA ServeStep ==
    ASSUME IInv, NEW r \in Request, Serve(r) \/ Drop(r)
    PROVE  IInv'
<1>a. /\ MaxStep \in Nat /\ Ttl \in Nat /\ Ttl > 0
      /\ KeyWindow = Ttl - 1 + MaxStep /\ ColumnWindow = Ttl - 1 + 2 * MaxStep
      /\ \A c \in Column : sinceColumn[c] \in Int /\ sinceKey[c] \in Int
      /\ req[r].wait \in 0..MaxStep
      /\ req[r] \in RequestState
      /\ columns \in SUBSET Column /\ key \in SUBSET Column
  BY Arithmetic DEF IInv, TypeOK
<1>c. UNCHANGED <<database, cache>> => MetaBounded' /\ cache' \in Entry \cup {NoEntry}
  BY DEF IInv, TypeOK, MetaBounded, database
<1>1. CASE Get(r)
  <2>1. CASE cache # NoEntry
    <3>1. /\ cache.columns \in SUBSET Column /\ cache.key \in SUBSET Column
          /\ cache.age \in 0..(Ttl - 1)
      BY <2>1 DEF IInv, TypeOK, Entry
    <3>2. Lacks(cache.columns, ColumnWindow) /\ LacksKey(cache.key, KeyWindow)
      BY <1>a, <2>1, <3>1 DEF IInv, MetaBounded, Lacks, LacksKey
    <3> QED
      BY <1>1, <1>c, <2>1, <3>1, <3>2, BuildStep DEF Get
  <2>2. CASE cache = NoEntry
    BY <1>1, <2>2, GotoStep DEF Get
  <2> QED
    BY <2>1, <2>2
<1>2. CASE ReadExists(r)
  BY <1>2, <1>c, GotoStep, FinishStep DEF ReadExists
<1>3. CASE ReadColumns(r)
  <2>1. Lacks(columns, 0)
    BY DEF Lacks, IInv, Current
  <2> QED
    BY <1>3, <1>a, <2>1, GotoStep DEF ReadColumns
<1>4. CASE ReadKey(r)
  <2>1. LacksKey(key, 0)
    BY DEF LacksKey, IInv, Current
  <2>2. Lacks(req[r].columns, MaxStep)
    BY <1>4, <1>a DEF ReadKey, IInv, Held, Lacks
  <2>3. req[r].columns \in SUBSET Column
    BY <1>a DEF RequestState
  <2> QED
    BY <1>4, <1>a, <2>1, <2>2, <2>3, GotoStep DEF ReadKey
<1>5. CASE Put(r)
  <2>1. Lacks(req[r].columns, 2 * MaxStep) /\ LacksKey(req[r].key, MaxStep)
    BY <1>5, <1>a DEF Put, IInv, Held, Lacks, LacksKey
  <2>2. req[r].columns \in SUBSET Column /\ req[r].key \in SUBSET Column
    BY <1>a DEF RequestState
  <2>3. cache' \in Entry \cup {NoEntry}
    BY <1>5, <1>a, <2>2 DEF Put, Fresh, Entry
  <2>4. MetaBounded'
    BY <1>5, <1>a, <2>1 DEF Put, Fresh, MetaBounded, Lacks, LacksKey, database
  <2>5. Lacks(req[r].columns, ColumnWindow) /\ LacksKey(req[r].key, KeyWindow)
    BY <1>a, <2>1 DEF Lacks, LacksKey
  <2> QED
    BY <1>5, <2>2, <2>3, <2>4, <2>5, BuildStep DEF Put
<1>6. CASE Run(r) \/ Drop(r)
  BY <1>6, <1>c, FinishStep DEF Run, Drop
<1> QED
  BY <1>1, <1>2, <1>3, <1>4, <1>5, <1>6 DEF Serve

LEMMA StartStep ==
    ASSUME IInv, NEW r \in Request, NEW op \in {"update", "insert"}, NEW user \in BOOLEAN,
           NEW col \in Column, Start(r, op, user, col)
    PROVE  IInv'
<1> DEFINE q == [Idle EXCEPT !.pc = "get", !.op = op, !.user = user, !.col = col]
<1>1. q \in RequestState /\ q.pc = "get"
  <2>1. Idle \in RequestState
    BY TableMetaAssumption DEF Idle, RequestState, Pc
  <2> QED
    BY <2>1 DEF RequestState, Pc
<1>2. req' = [req EXCEPT ![r] = q] /\ UNCHANGED <<database, cache>>
  BY DEF Start
<1>3. req'[r] = q
  BY <1>2 DEF IInv, TypeOK
<1> HIDE DEF q
<1>4. Held(r)'
  BY <1>1, <1>3 DEF Held, At
<1>5. MetaBounded' /\ cache' \in Entry \cup {NoEntry}
  BY <1>2 DEF IInv, TypeOK, MetaBounded, database
<1> QED
  BY <1>1, <1>2, <1>4, <1>5, RequestStep

LEMMA EvictStep ==
    ASSUME IInv, Evict
    PROVE  IInv'
BY DEF Evict, IInv, TypeOK, Current, MetaBounded, Held, Guarded, Lacks, LacksKey, At, database

\* A change of the table takes reasons away, and no time passes.
LEMMA AlterStep ==
    ASSUME IInv, NEW C \in SUBSET Column, NEW K \in SUBSET Column, Alter(C, K)
    PROVE  IInv'
<1>a. /\ MaxStep \in Nat /\ Cap \in Nat /\ Ttl \in Nat /\ Ttl > 0
      /\ KeyWindow = Ttl - 1 + MaxStep /\ ColumnWindow = Ttl - 1 + 2 * MaxStep
      /\ \A r \in Request : req[r].wait \in 0..MaxStep
  BY Arithmetic DEF IInv
<1>1. TypeOK'
  BY <1>a DEF Alter, IInv, TypeOK
<1>2. Current'
  BY DEF Alter, Current
<1>3. \A c \in Column : /\ sinceColumn'[c] <= sinceColumn[c] /\ sinceKey'[c] <= sinceKey[c]
                      /\ sinceColumn[c] \in 0..Cap /\ sinceColumn'[c] \in 0..Cap
                      /\ sinceKey[c] \in 0..Cap /\ sinceKey'[c] \in 0..Cap
  BY <1>a DEF Alter, IInv, TypeOK
<1>4. UNCHANGED <<cache, req>>
  BY DEF Alter
<1>5. MetaBounded'
  <2>1. cache # NoEntry => cache.age \in 0..(Ttl - 1)
    BY DEF IInv, TypeOK, Entry
  <2> QED
    BY <1>a, <1>3, <1>4, <2>1 DEF IInv, MetaBounded
<1>6. ASSUME NEW r \in Request PROVE Held(r)'
  <2>1. Held(r) /\ req[r].wait \in 0..MaxStep /\ req[r].col \in Column
    BY <1>a DEF IInv, TypeOK, RequestState
  <2>2. At(r, "run") => Guarded(r)'
    <3>1. At(r, "run") => Guarded(r)
      BY <2>1 DEF Held
    <3>2. /\ req[r].op = "update" => sinceKey'[req[r].col] <= sinceKey[req[r].col]
          /\ sinceColumn'[Owner] <= sinceColumn[Owner]
      BY <1>3, <2>1, TableMetaAssumption
    <3> QED
      BY <1>a, <1>3, <1>4, <2>1, <3>1, <3>2, TableMetaAssumption
         DEF Guarded, KeyWindow, ColumnWindow
  <2>3. At(r, "readKey") => Lacks(req[r].columns, req[r].wait)'
    BY <1>a, <1>3, <1>4, <2>1 DEF Held, Lacks
  <2>4. At(r, "put") => /\ Lacks(req[r].columns, MaxStep + req[r].wait)'
                        /\ LacksKey(req[r].key, req[r].wait)'
    BY <1>a, <1>3, <1>4, <2>1 DEF Held, Lacks, LacksKey
  <2> QED
    BY <1>4, <2>2, <2>3, <2>4 DEF Held, At
<1> QED
  BY <1>1, <1>2, <1>5, <1>6 DEF IInv

\* Time makes an entry, a wait and a reason older alike.
LEMMA TickStep ==
    ASSUME IInv, Tick
    PROVE  IInv'
<1>a. /\ MaxStep \in Nat /\ Cap \in Nat /\ Ttl \in Nat /\ Ttl > 0
      /\ KeyWindow = Ttl - 1 + MaxStep /\ ColumnWindow = Ttl - 1 + 2 * MaxStep
      /\ req \in [Request -> RequestState]
  BY Arithmetic DEF IInv, TypeOK
<1>1. \A c \in Column : /\ sinceColumn'[c] <= sinceColumn[c] + 1
                      /\ sinceKey'[c] <= sinceKey[c] + 1
                      /\ sinceColumn[c] \in 0..Cap /\ sinceColumn'[c] \in 0..Cap
                      /\ sinceKey[c] \in 0..Cap /\ sinceKey'[c] \in 0..Cap
  BY <1>a DEF Tick, Longer, Later, IInv, TypeOK
<1>2. ASSUME NEW r \in Request
      PROVE  \/ At(r, "idle") /\ req'[r] = req[r]
             \/ /\ req'[r] = [req[r] EXCEPT !.wait = @ + 1]
                /\ req'[r] \in RequestState
                /\ req'[r].wait = req[r].wait + 1
                /\ req'[r].pc = req[r].pc /\ req'[r].op = req[r].op
                /\ req'[r].user = req[r].user /\ req'[r].col = req[r].col
                /\ req'[r].columns = req[r].columns /\ req'[r].key = req[r].key
                /\ req'[r].forced = req[r].forced
  <2>1. req[r] \in RequestState
    BY <1>a
  <2>2. CASE At(r, "idle")
    BY <2>2 DEF Tick
  <2>3. CASE ~At(r, "idle")
    <3>1. req[r].wait + 1 \in 0..MaxStep
      BY <1>a, <2>1, <2>3 DEF Tick, RequestState
    <3>2. req'[r] = [req[r] EXCEPT !.wait = req[r].wait + 1]
      BY <2>3 DEF Tick
    <3> QED
      BY <2>1, <3>1, <3>2 DEF RequestState
  <2> QED
    BY <2>2, <2>3
<1>3. \/ cache' = NoEntry
      \/ /\ cache # NoEntry
         /\ cache' \in Entry
         /\ cache'.columns = cache.columns
         /\ cache'.key = cache.key
         /\ cache'.age = cache.age + 1
  <2>1. CASE cache = NoEntry \/ cache.age + 1 = Ttl
    BY <2>1 DEF Tick, Aged
  <2>2. CASE ~(cache = NoEntry \/ cache.age + 1 = Ttl)
    <3>1. cache \in Entry /\ cache # NoEntry /\ cache.age + 1 # Ttl
      BY <2>2 DEF IInv, TypeOK
    <3>2. cache' = [cache EXCEPT !.age = cache.age + 1]
      BY <3>1 DEF Tick, Aged
    <3>3. cache.age + 1 \in 0..(Ttl - 1)
      BY <1>a, <3>1 DEF Entry
    <3> QED
      BY <3>1, <3>2, <3>3 DEF Entry
  <2> QED
    BY <2>1, <2>2
<1>4. TypeOK'
  <2>1. \A r \in Request : req'[r] \in RequestState
    BY <1>a, <1>2
  <2>2. req' \in [Request -> RequestState]
    BY <2>1 DEF Tick
  <2>3. sinceColumn' \in [Column -> 0..Cap] /\ sinceKey' \in [Column -> 0..Cap]
    BY <1>1 DEF Tick, Longer
  <2> QED
    BY <1>3, <2>2, <2>3 DEF Tick, IInv, TypeOK
<1>5. Current'
  BY DEF Tick, Longer, Current
<1>6. MetaBounded'
  <2>1. cache # NoEntry => cache.age \in 0..(Ttl - 1)
    BY DEF IInv, TypeOK, Entry
  <2> QED
    BY <1>a, <1>1, <1>3, <2>1 DEF IInv, MetaBounded
<1>7. ASSUME NEW r \in Request PROVE Held(r)'
  <2>1. Held(r) /\ req[r].wait \in Int /\ req[r].col \in Column
    BY <1>a DEF IInv, RequestState
  <2>2. CASE At(r, "idle") /\ req'[r] = req[r]
    BY <2>2 DEF Held, At
  <2>3. CASE /\ req'[r].wait = req[r].wait + 1
             /\ req'[r].pc = req[r].pc /\ req'[r].op = req[r].op
             /\ req'[r].user = req[r].user /\ req'[r].col = req[r].col
             /\ req'[r].columns = req[r].columns /\ req'[r].key = req[r].key
             /\ req'[r].forced = req[r].forced
    <3>1. At(r, "run") => Guarded(r)'
      <4>1. /\ sinceKey'[req[r].col] <= sinceKey[req[r].col] + 1
            /\ sinceColumn'[Owner] <= sinceColumn[Owner] + 1
            /\ {sinceKey'[req[r].col], sinceKey[req[r].col],
                sinceColumn'[Owner], sinceColumn[Owner]} \subseteq Int
        BY <1>1, <2>1, TableMetaAssumption
      <4> QED
        BY <1>a, <2>1, <2>3, <4>1 DEF Held, Guarded, KeyWindow, ColumnWindow
    <3>2. At(r, "readKey") => Lacks(req[r].columns, req[r].wait + 1)'
      BY <1>1, <2>1, <2>3 DEF Held, Lacks
    <3>3. At(r, "put") => /\ Lacks(req[r].columns, MaxStep + req[r].wait)'
                          /\ LacksKey(req[r].key, req[r].wait)'
      BY <1>a, <1>1, <2>1, <2>3 DEF Held, Lacks, LacksKey
    <3>4. At(r, "readKey") => Lacks(req[r].columns, req[r].wait)'
      BY <1>a, <1>1, <2>1, <2>3 DEF Held, Lacks
    <3> QED
      BY <2>3, <3>1, <3>3, <3>4 DEF Held, At
  <2> QED
    BY <1>2, <2>2, <2>3
<1> QED
  BY <1>4, <1>5, <1>6, <1>7 DEF IInv

\* One case per action.
LEMMA NextIInv == IInv /\ [Next]_vars => IInv'
<1> SUFFICES ASSUME IInv, [Next]_vars PROVE IInv'
  OBVIOUS
<1>1. ASSUME NEW r \in Request, Serve(r) \/ Drop(r) PROVE IInv'
  BY <1>1, ServeStep
<1>2. ASSUME NEW r \in Request, NEW op \in {"update", "insert"}, NEW user \in BOOLEAN,
             NEW col \in Column, Start(r, op, user, col)
      PROVE  IInv'
  BY <1>2, StartStep
<1>3. ASSUME NEW C \in SUBSET Column, NEW K \in SUBSET Column, Alter(C, K) PROVE IInv'
  BY <1>3, AlterStep
<1>4. CASE UNCHANGED vars
  BY <1>4 DEF vars, IInv, TypeOK, Current, MetaBounded, Held, Guarded, Lacks, LacksKey, At
<1> QED
  BY <1>1, <1>2, <1>3, <1>4, EvictStep, TickStep DEF Next

-----------------------------------------------------------------------------
(* The theorems *)

\* IInv holds at the start and after every step.
THEOREM InductiveInvariant == Spec => []IInv
BY InitIInv, NextIInv, PTL DEF Spec

\* Cache, requests and ghosts stay well-formed.
THEOREM TypeCorrect == Spec => []TypeOK
<1>1. IInv => TypeOK
  BY DEF IInv
<1> QED
  BY <1>1, InductiveInvariant, PTL

\* load_table_meta caches nothing that lacks a column or key column for longer
\* than its age and two, or one, steps, though it reads them separately.
THEOREM MetaIsBounded == Spec => []MetaBounded
<1>1. IInv => MetaBounded
  BY DEF IInv
<1> QED
  BY <1>1, InductiveInvariant, PTL

\* update_rows and insert_rows enforce what became a primary key or user_id a
\* window ago, and no update with a user ever sets user_id.
THEOREM GuardsDoCatchUp == Spec => []GuardsCatchUp
<1>1. IInv => GuardsCatchUp
  BY DEF IInv, Held, Guarded, GuardsCatchUp
<1> QED
  BY <1>1, InductiveInvariant, PTL
=============================================================================
