------------------------ MODULE RegistryCacheProofs ------------------------
(***************************************************************************)
(* How far the gate may lag behind the registry, for any number of tables  *)
(* and requests, any time to live and any bound on a step.                 *)
(***************************************************************************)
EXTENDS RegistryCache, TLAPS

-----------------------------------------------------------------------------
(* The inductive invariant *)

\* The database has, now, what it has.
Current ==
    /\ sinceExists[registry] = 0
    /\ \A t \in Table, c \in Config : HasConfig(t, c) => sinceConfig[t][c] = 0

\* What a request has read was so when it read it; what let one in was so a
\* window before it was let in.
Held(r) ==
    LET v == req[r].val
        t == req[r].table
        w == req[r].wait
    IN  /\ req[r].pc # "idle" => t \in Table
        /\ req[r].pc = "putExists" => v \in Presence /\ sinceExists[v] <= w
        /\ req[r].pc = "putConfig" => v \in Config /\ sinceConfig[t][v] <= w
        /\ req[r].pc = "run" =>
            \/ v = "absent" /\ sinceExists[v] <= Window + w
            \/ /\ v \in Config /\ Admits(v, req[r].user)
               /\ sinceConfig[t][v] <= Window + w

IInv ==
    /\ TypeOK
    /\ Current
    /\ EntriesBounded
    /\ \A r \in Request : Held(r)

-----------------------------------------------------------------------------
(* It holds of the initial states and is kept by every step *)

\* At the start the caches are empty and there are no requests.
LEMMA InitIInv == Init => IInv
<1> SUFFICES ASSUME Init PROVE IInv
  OBVIOUS
<1> USE RegistryCacheAssumption DEF Init
<1>1. TypeOK
  BY DEF TypeOK, Presence, Config, Cap, RequestState, Idle, Pc, NoValue, HasConfig
<1>2. Current
  BY DEF Current, Presence
<1>3. EntriesBounded
  BY DEF EntriesBounded
<1>4. \A r \in Request : Held(r)
  BY DEF Held, Idle
<1> QED
  BY <1>1, <1>2, <1>3, <1>4 DEF IInv

\* A step of one request, by which it holds what it may hold and the caches
\* what they may hold.
LEMMA RequestStep ==
    ASSUME IInv, NEW r \in Request, NEW q \in RequestState,
           UNCHANGED database,
           req' = [req EXCEPT ![r] = q],
           Held(r)', EntriesBounded',
           existsCache' \in Entry(Presence) \cup {NoEntry},
           configCache' \in [Table -> Entry(Config) \cup {NoEntry}]
    PROVE  IInv'
<1>1. TypeOK'
  BY DEF IInv, TypeOK, database
<1>2. Current'
  BY DEF IInv, Current, HasConfig, Loaded, database
<1>3. ASSUME NEW x \in Request PROVE Held(x)'
  <2>1. CASE x = r
    BY <2>1
  <2>2. CASE x # r
    <3>1. req'[x] = req[x]
      BY <2>2 DEF IInv, TypeOK
    <3> QED
      BY <3>1 DEF IInv, Held, database
  <2> QED
    BY <2>1, <2>2
<1> QED
  BY <1>1, <1>2, <1>3 DEF IInv

\* One that leaves the caches alone.
LEMMA LookStep ==
    ASSUME IInv, NEW r \in Request, NEW q \in RequestState,
           UNCHANGED <<database, existsCache, configCache>>,
           req' = [req EXCEPT ![r] = q],
           Held(r)'
    PROVE  IInv'
<1>1. EntriesBounded'
  BY DEF IInv, EntriesBounded, database
<1> QED
  BY <1>1, RequestStep DEF IInv, TypeOK

\* A request ends.
LEMMA FinishStep ==
    ASSUME IInv, NEW r \in Request, Finish(r),
           UNCHANGED <<database, existsCache, configCache>>
    PROVE  IInv'
<1>1. Idle \in RequestState
  BY RegistryCacheAssumption DEF Idle, RequestState, Pc
<1>2. Held(r)'
  BY DEF Finish, Held, Idle, IInv, TypeOK
<1> QED
  BY <1>1, <1>2, LookStep DEF Finish

\* A request moves on: the fields of its record.
LEMMA GotoFields ==
    ASSUME TypeOK, NEW r \in Request, NEW pc \in Pc,
           NEW val \in Presence \cup Config \cup {NoValue}, Goto(r, pc, val)
    PROVE  /\ req'[r] \in RequestState
           /\ req' = [req EXCEPT ![r] = req'[r]]
           /\ req'[r].pc = pc /\ req'[r].val = val /\ req'[r].wait = 0
           /\ req'[r].table = req[r].table /\ req'[r].user = req[r].user
<1> DEFINE q == [req[r] EXCEPT !.pc = pc, !.val = val, !.wait = 0]
<1>1. req[r] \in RequestState
  BY DEF TypeOK
<1>2. 0 \in 0..MaxStep
  BY RegistryCacheAssumption
<1>3. q \in RequestState
  BY <1>1, <1>2 DEF RequestState
<1>4. q.pc = pc /\ q.val = val /\ q.wait = 0 /\ q.table = req[r].table /\ q.user = req[r].user
  BY <1>1 DEF RequestState
<1> HIDE DEF q
<1>5. req' = [req EXCEPT ![r] = q] /\ req'[r] = q
  BY DEF Goto, TypeOK, q
<1> QED
  BY <1>3, <1>4, <1>5

\* The gate decides on a configuration that was the table's when it was read
\* or put in the cache.
LEMMA KnowConfigStep ==
    ASSUME IInv, NEW r \in Request, NEW c \in Config, KnowConfig(r, c),
           req[r].table \in Table,
           sinceConfig[req[r].table][c] <= Window,
           UNCHANGED database, EntriesBounded',
           existsCache' \in Entry(Presence) \cup {NoEntry},
           configCache' \in [Table -> Entry(Config) \cup {NoEntry}]
    PROVE  IInv'
<1>w. /\ Window \in Int
      /\ sinceConfig[req[r].table][c] \in Int
  BY RegistryCacheAssumption DEF Window, IInv, TypeOK
<1>1. CASE Admits(c, req[r].user)
  <2>1. Goto(r, "run", c)
    BY <1>1 DEF KnowConfig
  <2>2. /\ req'[r] \in RequestState
        /\ req' = [req EXCEPT ![r] = req'[r]]
        /\ req'[r].pc = "run" /\ req'[r].val = c /\ req'[r].wait = 0
        /\ req'[r].table = req[r].table /\ req'[r].user = req[r].user
    BY <2>1, GotoFields DEF IInv, Pc
  <2>3. Held(r)'
    BY <2>2, <1>1, <1>w DEF Held, Admits, database, Window
  <2> QED
    BY <2>2, <2>3, RequestStep
<1>2. CASE ~Admits(c, req[r].user)
  <2>1. req' = [req EXCEPT ![r] = Idle] /\ Idle \in RequestState
    BY <1>2, RegistryCacheAssumption DEF KnowConfig, Finish, Idle, RequestState, Pc
  <2>2. Held(r)'
    BY <2>1 DEF Held, Idle, IInv, TypeOK
  <2> QED
    BY <2>1, <2>2, RequestStep
<1> QED
  BY <1>1, <1>2

\* And on the presence of the registry likewise.
LEMMA KnowExistsStep ==
    ASSUME IInv, NEW r \in Request, NEW v \in Presence, KnowExists(r, v),
           req[r].table \in Table,
           sinceExists[v] <= Window,
           UNCHANGED database, EntriesBounded',
           existsCache' \in Entry(Presence) \cup {NoEntry},
           configCache' \in [Table -> Entry(Config) \cup {NoEntry}]
    PROVE  IInv'
<1>w. /\ Window \in Int
      /\ sinceExists[v] \in Int
  BY RegistryCacheAssumption DEF Window, IInv, TypeOK
<1>1. CASE v = "absent"
  <2>1. Goto(r, "run", v)
    BY <1>1 DEF KnowExists
  <2>2. /\ req'[r] \in RequestState
        /\ req' = [req EXCEPT ![r] = req'[r]]
        /\ req'[r].pc = "run" /\ req'[r].val = v /\ req'[r].wait = 0
        /\ req'[r].table = req[r].table
    BY <2>1, GotoFields DEF IInv, Pc
  <2>3. Held(r)'
    BY <2>2, <1>1, <1>w DEF Held, database, Window
  <2> QED
    BY <2>2, <2>3, RequestStep
<1>2. CASE v # "absent"
  <2>1. Goto(r, "getConfig", NoValue)
    BY <1>2 DEF KnowExists
  <2>2. /\ req'[r] \in RequestState
        /\ req' = [req EXCEPT ![r] = req'[r]]
        /\ req'[r].pc = "getConfig" /\ req'[r].table = req[r].table
    BY <2>1, GotoFields DEF IInv, Pc
  <2>3. Held(r)'
    BY <2>2 DEF Held
  <2> QED
    BY <2>2, <2>3, RequestStep
<1> QED
  BY <1>1, <1>2

\* The steps of ensure_exposed.
LEMMA ServeStep ==
    ASSUME IInv, NEW r \in Request, Serve(r)
    PROVE  IInv'
<1> USE RegistryCacheAssumption
<1>t. TypeOK /\ EntriesBounded /\ Held(r) /\ Current
  BY DEF IInv
<1>u. req[r].wait \in 0..MaxStep
  <2>1. req[r] \in RequestState
    BY <1>t DEF TypeOK
  <2> QED
    BY <2>1 DEF RequestState
<1>1. CASE GetExists(r)
  <2> USE <1>1
  <2>1. /\ req[r].table \in Table
        /\ EntriesBounded'
    BY <1>t DEF GetExists, At, Held, EntriesBounded, database
  <2>2. CASE existsCache # NoEntry
    <3>1. /\ existsCache.val \in Presence
          /\ sinceExists[existsCache.val] <= Window
      BY <2>2, <1>t DEF TypeOK, Entry, EntriesBounded, Window
    <3> QED
      BY <3>1, <2>1, <2>2, <1>t, KnowExistsStep DEF GetExists, TypeOK
  <2>3. CASE existsCache = NoEntry
    <3>1. Goto(r, "readExists", NoValue)
      BY <2>3 DEF GetExists
    <3>2. /\ req'[r] \in RequestState
          /\ req' = [req EXCEPT ![r] = req'[r]]
          /\ req'[r].pc = "readExists" /\ req'[r].table = req[r].table
      BY <3>1, <1>t, GotoFields DEF Pc
    <3>3. Held(r)'
      BY <3>2, <2>1 DEF Held
    <3> QED
      BY <3>2, <3>3, LookStep DEF GetExists
  <2> QED
    BY <2>2, <2>3
<1>2. CASE ReadExists(r)
  <2>1. /\ req'[r] \in RequestState
        /\ req' = [req EXCEPT ![r] = req'[r]]
        /\ req'[r].pc = "putExists" /\ req'[r].val = registry /\ req'[r].wait = 0
        /\ req'[r].table = req[r].table
    BY <1>2, <1>t, GotoFields DEF ReadExists, TypeOK, Pc
  <2>2. Held(r)'
    BY <2>1, <1>2, <1>t DEF Held, Current, TypeOK, ReadExists, At, database
  <2> QED
    BY <2>1, <2>2, <1>2, LookStep DEF ReadExists
<1>3. CASE PutExists(r)
  <2> DEFINE v == req[r].val
  <2>1. /\ v \in Presence
        /\ req[r].table \in Table
        /\ sinceExists[v] <= MaxStep
        /\ sinceExists[v] \in Int
    BY <1>3, <1>t, <1>u DEF PutExists, At, Held, TypeOK
  <2>2. existsCache' = [val |-> v, age |-> 0] /\ UNCHANGED <<database, configCache>>
    BY <1>3 DEF PutExists, Fresh
  <2>3. EntriesBounded'
    BY <2>1, <2>2, <1>t DEF EntriesBounded, database
  <2>4. /\ existsCache' \in Entry(Presence) \cup {NoEntry}
        /\ configCache' \in [Table -> Entry(Config) \cup {NoEntry}]
    BY <2>1, <2>2, <1>t DEF Entry, TypeOK
  <2>5. sinceExists[v] <= Window
    BY <2>1 DEF Window
  <2> QED
    BY <2>1, <2>2, <2>3, <2>4, <2>5, <1>3, KnowExistsStep DEF PutExists
<1>4. CASE GetConfig(r)
  <2> USE <1>4
  <2>1. /\ req[r].table \in Table
        /\ EntriesBounded'
    BY <1>t DEF GetConfig, At, Held, EntriesBounded, database
  <2> DEFINE e == configCache[req[r].table]
  <2>2. CASE e # NoEntry
    <3>1. /\ e.val \in Config
          /\ sinceConfig[req[r].table][e.val] <= Window
      <4>1. e \in Entry(Config)
        BY <2>1, <2>2, <1>t DEF TypeOK
      <4>2. sinceConfig[req[r].table][e.val] <= e.age + MaxStep
        BY <2>1, <2>2, <1>t DEF EntriesBounded
      <4>3. sinceConfig[req[r].table][e.val] \in Int
        BY <4>1, <2>1, <1>t DEF TypeOK, Entry
      <4> QED
        BY <4>1, <4>2, <4>3 DEF Entry, Window
    <3> QED
      BY <3>1, <2>1, <2>2, <1>t, KnowConfigStep DEF GetConfig, TypeOK
  <2>3. CASE e = NoEntry
    <3>1. Goto(r, "readConfig", NoValue)
      BY <2>3 DEF GetConfig
    <3>2. /\ req'[r] \in RequestState
          /\ req' = [req EXCEPT ![r] = req'[r]]
          /\ req'[r].pc = "readConfig" /\ req'[r].table = req[r].table
      BY <3>1, <1>t, GotoFields DEF Pc
    <3>3. Held(r)'
      BY <3>2, <2>1 DEF Held
    <3> QED
      BY <3>2, <3>3, LookStep DEF GetConfig
  <2> QED
    BY <2>2, <2>3
<1>5. CASE ReadConfig(r)
  <2> DEFINE t == req[r].table
  <2>1. t \in Table
    BY <1>5, <1>t DEF ReadConfig, At, Held
  <2>2. CASE registry = "present" /\ Goto(r, "putConfig", Loaded(t))
    <3>1. Loaded(t) \in Config /\ HasConfig(t, Loaded(t))
      BY <2>1, <2>2, <1>t DEF Loaded, HasConfig, Config, TypeOK
    <3>2. /\ req'[r] \in RequestState
          /\ req' = [req EXCEPT ![r] = req'[r]]
          /\ req'[r].pc = "putConfig" /\ req'[r].val = Loaded(t) /\ req'[r].wait = 0
          /\ req'[r].table = t
      BY <2>2, <3>1, <1>t, GotoFields DEF Pc
    <3>3. sinceConfig[t][Loaded(t)] = 0
      BY <3>1, <2>1, <1>t DEF Current
    <3>4. Held(r)'
      BY <3>1, <3>2, <3>3, <2>1, <1>5 DEF Held, ReadConfig, database
    <3> QED
      BY <3>2, <3>4, <1>5, LookStep DEF ReadConfig
  <2> QED
    BY <2>2, <1>5, FinishStep DEF ReadConfig
<1>6. CASE PutConfig(r)
  <2> DEFINE v == req[r].val
             t == req[r].table
  <2>1. /\ v \in Config
        /\ t \in Table
        /\ sinceConfig[t][v] <= MaxStep
        /\ sinceConfig[t][v] \in Int
    BY <1>6, <1>t, <1>u DEF PutConfig, At, Held, TypeOK
  <2>2. /\ configCache' = [configCache EXCEPT ![t] = [val |-> v, age |-> 0]]
        /\ UNCHANGED <<database, existsCache>>
    BY <1>6 DEF PutConfig, Fresh
  <2>3. EntriesBounded'
    BY <2>1, <2>2, <1>t DEF EntriesBounded, database, TypeOK
  <2>4. /\ existsCache' \in Entry(Presence) \cup {NoEntry}
        /\ configCache' \in [Table -> Entry(Config) \cup {NoEntry}]
    BY <2>1, <2>2, <1>t DEF Entry, TypeOK
  <2>5. sinceConfig[t][v] <= Window
    BY <2>1 DEF Window
  <2> QED
    BY <2>1, <2>2, <2>3, <2>4, <2>5, <1>6, KnowConfigStep DEF PutConfig
<1>7. CASE Run(r)
  BY <1>7, FinishStep DEF Run
<1> QED
  BY <1>1, <1>2, <1>3, <1>4, <1>5, <1>6, <1>7 DEF Serve

\* A request arrives.
LEMMA StartStep ==
    ASSUME IInv, NEW r \in Request, NEW t \in Table, NEW user \in BOOLEAN, Start(r, t, user)
    PROVE  IInv'
<1> DEFINE q == [Idle EXCEPT !.pc = "getExists", !.table = t, !.user = user]
<1>1. q \in RequestState
  <2>1. Idle \in RequestState
    BY RegistryCacheAssumption DEF Idle, RequestState, Pc
  <2> QED
    BY <2>1 DEF RequestState, Pc
<1>2. q.pc = "getExists" /\ q.table = t
  BY DEF Idle
<1> HIDE DEF q
<1>3. req' = [req EXCEPT ![r] = q] /\ req'[r] = q
  BY DEF Start, IInv, TypeOK, q
<1>4. Held(r)'
  BY <1>2, <1>3 DEF Held
<1> QED
  BY <1>1, <1>3, <1>4, LookStep DEF Start

\* The capacity of the caches, and a restart, only forget.
LEMMA EvictStep ==
    ASSUME IInv, Evict
    PROVE  IInv'
<1>1. TypeOK'
  BY DEF IInv, TypeOK, Evict, database
<1>2. Current'
  BY DEF IInv, Current, HasConfig, Loaded, Evict, database
<1>3. EntriesBounded'
  BY DEF IInv, TypeOK, EntriesBounded, Evict, database
<1>4. \A r \in Request : Held(r)'
  BY DEF IInv, Held, Evict, database
<1> QED
  BY <1>1, <1>2, <1>3, <1>4 DEF IInv

\* A change of the database makes some value true now and no other older.
LEMMA OperatorStep ==
    ASSUME IInv, Mark, registry' \in Presence, row' \in [Table -> Config \cup {NoValue}]
    PROVE  IInv'
<1> USE RegistryCacheAssumption
<1>t. TypeOK
  BY DEF IInv
<1>1. TypeOK'
  <2>1. /\ sinceExists' \in [Presence -> 0..Cap]
        /\ sinceConfig' \in [Table -> [Config -> 0..Cap]]
    BY <1>t DEF TypeOK, Mark, Cap
  <2> QED
    BY <2>1, <1>t DEF TypeOK, Mark
<1>s. /\ \A v \in Presence : sinceExists'[v] <= sinceExists[v]
      /\ \A t \in Table, c \in Config : sinceConfig'[t][c] <= sinceConfig[t][c]
      /\ \A v \in Presence : sinceExists[v] \in Int /\ sinceExists'[v] \in Int
      /\ \A t \in Table, c \in Config :
            sinceConfig[t][c] \in Int /\ sinceConfig'[t][c] \in Int
      /\ UNCHANGED <<existsCache, configCache, req>>
  BY <1>t, <1>1 DEF TypeOK, Mark, Cap
<1>2. Current'
  BY DEF Current, Mark
<1>3. EntriesBounded'
  <2>1. ASSUME existsCache # NoEntry
        PROVE  /\ existsCache.val \in Presence
               /\ existsCache.age \in Int
    BY <2>1, <1>t DEF TypeOK, Entry
  <2>2. ASSUME NEW t \in Table, configCache[t] # NoEntry
        PROVE  /\ configCache[t].val \in Config
               /\ configCache[t].age \in Int
    <3>1. configCache[t] \in Entry(Config)
      BY <2>2, <1>t DEF TypeOK
    <3> QED
      BY <3>1 DEF Entry
  <2> QED
    BY <2>1, <2>2, <1>s DEF IInv, EntriesBounded
<1>4. ASSUME NEW r \in Request PROVE Held(r)'
  <2>1. Held(r) /\ req[r] \in RequestState
    BY <1>t DEF IInv, TypeOK
  <2>2. req[r].wait \in Int /\ Window \in Int
    BY <2>1 DEF RequestState, Window
  <2> QED
    BY <2>1, <2>2, <1>s DEF Held, Presence
<1> QED
  BY <1>1, <1>2, <1>3, <1>4 DEF IInv

\* A tick ages everything by one, and what the database has by nothing.
LEMMA TickStep ==
    ASSUME IInv, Tick
    PROVE  IInv'
<1> USE RegistryCacheAssumption
<1>t. TypeOK
  BY DEF IInv
<1>l. \A n \in 0..Cap : Later(n) \in 0..Cap /\ Later(n) <= n + 1
  BY DEF Later, Cap
<1>a. ASSUME NEW V, NEW e \in Entry(V) \cup {NoEntry}
      PROVE  /\ Aged(e) \in Entry(V) \cup {NoEntry}
             /\ Aged(e) # NoEntry => /\ e # NoEntry
                                     /\ e \in Entry(V)
                                     /\ Aged(e).val = e.val
                                     /\ Aged(e).age = e.age + 1
  <2>1. CASE e = NoEntry \/ e.age + 1 = Ttl
    BY <2>1 DEF Aged
  <2>2. CASE e # NoEntry /\ e.age + 1 # Ttl
    <3>1. e \in Entry(V) /\ Aged(e) = [e EXCEPT !.age = @ + 1]
      BY <2>2 DEF Aged
    <3>2. Aged(e).val = e.val /\ Aged(e).age = e.age + 1
      BY <3>1 DEF Entry
    <3>3. e.age + 1 \in 0..(Ttl - 1)
      BY <3>1, <2>2 DEF Entry
    <3>4. Aged(e) \in Entry(V)
      BY <3>1, <3>3 DEF Entry
    <3> QED
      BY <3>1, <3>2, <3>4, <2>2
  <2> QED
    BY <2>1, <2>2
<1>s. /\ \A v \in Presence : sinceExists'[v] <= sinceExists[v] + 1
      /\ \A t \in Table, c \in Config : sinceConfig'[t][c] <= sinceConfig[t][c] + 1
      /\ sinceExists' \in [Presence -> 0..Cap]
      /\ sinceConfig' \in [Table -> [Config -> 0..Cap]]
  <2>1. /\ sinceExists' \in [Presence -> 0..Cap]
        /\ sinceConfig' \in [Table -> [Config -> 0..Cap]]
    BY <1>t, <1>l DEF TypeOK, Tick, Cap
  <2>2. \A v \in Presence : sinceExists'[v] <= sinceExists[v] + 1
    BY <1>t, <1>l DEF TypeOK, Tick
  <2>3. ASSUME NEW t \in Table, NEW c \in Config
        PROVE  sinceConfig'[t][c] <= sinceConfig[t][c] + 1
    BY <1>t, <1>l DEF TypeOK, Tick
  <2> QED
    BY <2>1, <2>2, <2>3
<1>i. /\ \A v \in Presence : sinceExists[v] \in Int /\ sinceExists'[v] \in Int
      /\ \A t \in Table, c \in Config :
            sinceConfig[t][c] \in Int /\ sinceConfig'[t][c] \in Int
  BY <1>t, <1>s DEF TypeOK, Cap
<1>q. ASSUME NEW r \in Request
      PROVE  /\ req'[r] \in RequestState
             /\ req[r].pc = "idle" => req'[r] = req[r]
             /\ req[r].pc # "idle" => req'[r].wait = req[r].wait + 1
             /\ req'[r].pc = req[r].pc /\ req'[r].val = req[r].val
             /\ req'[r].table = req[r].table /\ req'[r].user = req[r].user
             /\ req[r].wait \in Int
  <2>1. req[r] \in RequestState
    BY <1>t DEF TypeOK
  <2>2. CASE req[r].pc = "idle"
    <3>1. req'[r] = req[r]
      BY <2>2 DEF Tick, At
    <3> QED
      BY <3>1, <2>1, <2>2 DEF RequestState
  <2>3. CASE req[r].pc # "idle"
    <3>1. req'[r] = [req[r] EXCEPT !.wait = @ + 1] /\ req[r].wait < MaxStep
      BY <2>3 DEF Tick, At
    <3>2. req[r].wait \in 0..MaxStep
      BY <2>1 DEF RequestState
    <3>3. req[r].wait + 1 \in 0..MaxStep
      BY <3>1, <3>2
    <3> QED
      BY <3>1, <3>2, <3>3, <2>1, <2>3 DEF RequestState
  <2> QED
    BY <2>2, <2>3
<1>1. TypeOK'
  <2>1. existsCache' \in Entry(Presence) \cup {NoEntry}
    BY <1>a, <1>t DEF TypeOK, Tick
  <2>2. configCache' \in [Table -> Entry(Config) \cup {NoEntry}]
    <3>1. \A t \in Table : Aged(configCache[t]) \in Entry(Config) \cup {NoEntry}
      BY <1>a, <1>t DEF TypeOK
    <3> QED
      BY <3>1 DEF Tick
  <2>3. req' \in [Request -> RequestState]
    <3>1. req' = [r \in Request |-> req'[r]]
      BY DEF Tick
    <3> QED
      BY <3>1, <1>q
  <2> QED
    BY <2>1, <2>2, <2>3, <1>s, <1>t DEF TypeOK, Tick
<1>2. Current'
  BY <1>t DEF TypeOK, Current, Tick, HasConfig, Loaded
<1>3. EntriesBounded'
  <2>1. ASSUME existsCache' # NoEntry
        PROVE  sinceExists'[existsCache'.val] <= existsCache'.age + MaxStep
    <3>1. /\ existsCache # NoEntry /\ existsCache \in Entry(Presence)
          /\ existsCache'.val = existsCache.val
          /\ existsCache'.age = existsCache.age + 1
      BY <2>1, <1>a, <1>t DEF TypeOK, Tick
    <3> QED
      BY <3>1, <1>s, <1>i DEF Entry, IInv, EntriesBounded
  <2>2. ASSUME NEW t \in Table, configCache'[t] # NoEntry
        PROVE  sinceConfig'[t][configCache'[t].val] <= configCache'[t].age + MaxStep
    <3>1. /\ configCache[t] # NoEntry /\ configCache[t] \in Entry(Config)
          /\ configCache'[t].val = configCache[t].val
          /\ configCache'[t].age = configCache[t].age + 1
      BY <2>2, <1>a, <1>t DEF TypeOK, Tick
    <3>2. sinceConfig[t][configCache[t].val] <= configCache[t].age + MaxStep
      BY <3>1 DEF IInv, EntriesBounded
    <3>3. configCache[t].val \in Config /\ configCache[t].age \in Int
      BY <3>1 DEF Entry
    <3> QED
      BY <3>1, <3>2, <3>3, <1>s, <1>i
  <2> QED
    BY <2>1, <2>2 DEF EntriesBounded
<1>4. ASSUME NEW r \in Request PROVE Held(r)'
  <2>1. Held(r) /\ Window \in Int
    BY DEF IInv, Window
  <2> QED
    BY <2>1, <1>q, <1>s, <1>i DEF Held, Window, Presence
<1> QED
  BY <1>1, <1>2, <1>3, <1>4 DEF IInv

\* Every step of the requests, the caches, the clock and the operator.
LEMMA StepIInv == IInv /\ [Next]_vars => IInv'
<1> SUFFICES ASSUME IInv, [Next]_vars PROVE IInv'
  OBVIOUS
<1>1. ASSUME NEW r \in Request, NEW t \in Table, NEW user \in BOOLEAN, Start(r, t, user)
      PROVE  IInv'
  BY <1>1, StartStep
<1>2. ASSUME NEW r \in Request, Serve(r) PROVE IInv'
  BY <1>2, ServeStep
<1>3. ASSUME NEW r \in Request, Drop(r) PROVE IInv'
  BY <1>3, FinishStep DEF Drop
<1>4. CASE Evict
  BY <1>4, EvictStep
<1>5. CASE Tick
  BY <1>5, TickStep
<1>6. ASSUME NEW v \in Presence, SetRegistry(v) PROVE IInv'
  BY <1>6, OperatorStep DEF SetRegistry
<1>7. ASSUME NEW t \in Table, NEW c \in Config \cup {NoValue}, SetRow(t, c) PROVE IInv'
  BY <1>7, OperatorStep DEF SetRow, IInv, TypeOK
<1>8. CASE UNCHANGED vars
  <2> USE <1>8 DEF vars
  <2>1. TypeOK' /\ Current' /\ EntriesBounded'
    BY DEF IInv, TypeOK, Current, EntriesBounded, HasConfig, Loaded
  <2>2. \A r \in Request : Held(r)'
    BY DEF IInv, Held
  <2> QED
    BY <2>1, <2>2 DEF IInv
<1> QED
  BY <1>1, <1>2, <1>3, <1>4, <1>5, <1>6, <1>7, <1>8 DEF Next

-----------------------------------------------------------------------------
(* What the registry promises *)

\* The inductive invariant holds in every reachable state.
LEMMA Invariance == Spec => []IInv
BY InitIInv, StepIInv, PTL DEF Spec

\* The caches, the requests and the ghosts stay well-formed for any number of
\* tables and requests (registry/mod.rs, registry/cache.rs).
THEOREM TypeCorrect == Spec => []TypeOK
<1>1. IInv => TypeOK
  BY DEF IInv
<1> QED
  BY <1>1, Invariance, PTL

\* No interleaving of the requests that fill a cache makes an entry older
\* than its age and one step (registry/mod.rs: get, query, insert).
THEOREM EntriesAreBounded == Spec => []EntriesBounded
<1>1. IInv => EntriesBounded
  BY DEF IInv
<1> QED
  BY <1>1, Invariance, PTL

\* ensure_exposed lets a request in only for a reason that held within the
\* time to live and two steps (registry/mod.rs, routes.rs).
THEOREM GateIsFresh == Spec => []GateFresh
<1>1. ASSUME IInv PROVE GateFresh
  <2> SUFFICES ASSUME NEW r \in Request, At(r, "run")
               PROVE  IF req[r].val = "absent"
                      THEN sinceExists[req[r].val] <= Window + req[r].wait
                      ELSE /\ req[r].val \in {"public", "auth"}
                           /\ req[r].val = "auth" => req[r].user
                           /\ sinceConfig[req[r].table][req[r].val] <= Window + req[r].wait
    BY DEF GateFresh
  <2>1. Held(r) /\ req[r].pc = "run"
    BY <1>1 DEF IInv, At
  <2>2. CASE req[r].val = "absent"
    BY <2>1, <2>2 DEF Held, Config
  <2>3. CASE req[r].val # "absent"
    <3>1. /\ Admits(req[r].val, req[r].user)
          /\ sinceConfig[req[r].table][req[r].val] <= Window + req[r].wait
      BY <2>1, <2>3 DEF Held
    <3> QED
      BY <3>1, <2>3 DEF Admits
  <2> QED
    BY <2>2, <2>3
<1> QED
  BY <1>1, Invariance, PTL
=============================================================================
