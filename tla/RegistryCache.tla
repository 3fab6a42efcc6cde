---------------------------- MODULE RegistryCache ----------------------------
(***************************************************************************)
(* Who may reach a table (oxyd-core/src/virtual_crud/registry): requests   *)
(* run ensure_exposed over the two caches it reads through, table_exists   *)
(* and table_config, while an operator edits oxyd_internal._oxyd_tables    *)
(* underneath.  Every await is a step of its own: the lookup in a cache,   *)
(* the query after a miss, and the insertion of its result.                *)
(*                                                                         *)
(* Nothing records the present instant: an entry has an age, a request the *)
(* ticks it has spent in its step, and, as a ghost, each value the ticks   *)
(* since the database last held it.                                        *)
(***************************************************************************)
EXTENDS Integers

CONSTANTS
    Table,    \* tables a client may name
    NoTable,  \* "no table" in a request
    Request,  \* requests the server runs at the same time
    Ttl,      \* time_to_live of the caches
    MaxStep   \* bound: the ticks a request spends in one step

ASSUME RegistryCacheAssumption ==
    /\ NoTable \notin Table
    /\ Ttl \in Nat \ {0}
    /\ MaxStep \in Nat

VARIABLES
    registry,     \* oxyd_internal._oxyd_tables, "present" or "absent"
    row,          \* its row for each table
    existsCache,  \* RegistryCache.table_exists, under its one key
    configCache,  \* RegistryCache.table_config, by table
    req,          \* the requests in flight
    sinceExists,  \* ghost: ticks since the registry was in each state
    sinceConfig   \* ghost: ticks since each table had each configuration

vars == <<registry, row, existsCache, configCache, req, sinceExists, sinceConfig>>

database == <<registry, row, sinceExists, sinceConfig>>

Presence == {"present", "absent"}

\* OxydTableConfig, as far as ensure_exposed looks into it: is_exposed is
\* false, or it is true and require_auth is true ("auth") or false.
Config == {"hidden", "auth", "public"}

NoValue == "none"

\* Bound: more ticks than any property speaks of.
Cap == Ttl + 2 * MaxStep

Entry(V) == [val: V, age: 0..(Ttl - 1)]
NoEntry == [val |-> NoValue, age |-> 0]

Pc == {"idle", "getExists", "readExists", "putExists",
       "getConfig", "readConfig", "putConfig", "run"}

\* val: what the last query returned or, at "run", what let the request in;
\* user: OptionalUser is Some; wait: ticks at this pc.
RequestState == [pc: Pc, table: Table \cup {NoTable}, user: BOOLEAN,
                 val: Presence \cup Config \cup {NoValue}, wait: 0..MaxStep]

Idle == [pc |-> "idle", table |-> NoTable, user |-> FALSE, val |-> NoValue, wait |-> 0]

TypeOK ==
    /\ registry \in Presence
    /\ row \in [Table -> Config \cup {NoValue}]
    /\ existsCache \in Entry(Presence) \cup {NoEntry}
    /\ configCache \in [Table -> Entry(Config) \cup {NoEntry}]
    /\ req \in [Request -> RequestState]
    /\ sinceExists \in [Presence -> 0..Cap]
    /\ sinceConfig \in [Table -> [Config -> 0..Cap]]

\* What db_fetch_table_config finds for t while the registry is present; no
\* row is loaded as a configuration that is not exposed.
Loaded(t) == IF row[t] = NoValue THEN "hidden" ELSE row[t]
HasConfig(t, c) == registry = "present" /\ Loaded(t) = c

\* Bound: the server starts long after the last change.
Init ==
    /\ registry \in Presence
    /\ row = [t \in Table |-> NoValue]
    /\ existsCache = NoEntry
    /\ configCache = [t \in Table |-> NoEntry]
    /\ req = [r \in Request |-> Idle]
    /\ sinceExists = [v \in Presence |-> IF registry = v THEN 0 ELSE Cap]
    /\ sinceConfig = [t \in Table |-> [c \in Config |-> IF HasConfig(t, c) THEN 0 ELSE Cap]]

-----------------------------------------------------------------------------
(* ensure_exposed *)

At(r, pc) == req[r].pc = pc

\* r goes to its next step, having learnt val.
Goto(r, pc, val) ==
    req' = [req EXCEPT ![r] = [@ EXCEPT !.pc = pc, !.val = val, !.wait = 0]]

Finish(r) == req' = [req EXCEPT ![r] = Idle]

Fresh(v) == [val |-> v, age |-> 0]

Start(r, t, user) ==
    /\ At(r, "idle")
    /\ req' = [req EXCEPT ![r] = [Idle EXCEPT !.pc = "getExists", !.table = t, !.user = user]]
    /\ UNCHANGED <<database, existsCache, configCache>>

\* Without a registry the table is open to all; with one, look for its row.
KnowExists(r, v) ==
    IF v = "absent" THEN Goto(r, "run", v) ELSE Goto(r, "getConfig", NoValue)

\* A table not exposed is "not found", one that requires auth asks for a user.
Admits(c, user) == c = "public" \/ (c = "auth" /\ user)

KnowConfig(r, c) ==
    IF Admits(c, req[r].user) THEN Goto(r, "run", c) ELSE Finish(r)

\* Mutant: time_to_idle instead of time_to_live, a hit renews the entry.
GetExistsRenewing(r) ==
    /\ At(r, "getExists")
    /\ IF existsCache # NoEntry
       THEN KnowExists(r, existsCache.val) /\ existsCache' = Fresh(existsCache.val)
       ELSE Goto(r, "readExists", NoValue) /\ UNCHANGED existsCache
    /\ UNCHANGED <<database, configCache>>

GetExists(r) ==
    /\ At(r, "getExists")
    /\ IF existsCache # NoEntry THEN KnowExists(r, existsCache.val)
                                ELSE Goto(r, "readExists", NoValue)
    /\ UNCHANGED <<database, existsCache, configCache>>

ReadExists(r) ==
    /\ At(r, "readExists")
    /\ Goto(r, "putExists", registry)
    /\ UNCHANGED <<database, existsCache, configCache>>

PutExists(r) ==
    /\ At(r, "putExists")
    /\ existsCache' = Fresh(req[r].val)
    /\ KnowExists(r, req[r].val)
    /\ UNCHANGED <<database, configCache>>

GetConfig(r) ==
    LET e == configCache[req[r].table]
    IN  /\ At(r, "getConfig")
        /\ IF e # NoEntry THEN KnowConfig(r, e.val) ELSE Goto(r, "readConfig", NoValue)
        /\ UNCHANGED <<database, existsCache, configCache>>

\* The query fails when the registry has gone since it was found to exist.
ReadConfig(r) ==
    /\ At(r, "readConfig")
    /\ \/ registry = "present" /\ Goto(r, "putConfig", Loaded(req[r].table))
       \/ registry = "absent" /\ Finish(r)
    /\ UNCHANGED <<database, existsCache, configCache>>

PutConfig(r) ==
    /\ At(r, "putConfig")
    /\ configCache' = [configCache EXCEPT ![req[r].table] = Fresh(req[r].val)]
    /\ KnowConfig(r, req[r].val)
    /\ UNCHANGED <<database, existsCache>>

\* The handler's statement on the table, after the gate.
Run(r) ==
    /\ At(r, "run")
    /\ Finish(r)
    /\ UNCHANGED <<database, existsCache, configCache>>

\* A database error or a client that hangs up, at any await: nothing is
\* inserted.
Drop(r) ==
    /\ ~At(r, "idle")
    /\ Finish(r)
    /\ UNCHANGED <<database, existsCache, configCache>>

-----------------------------------------------------------------------------
(* The cache by itself: capacity, restart and time to live *)

Evict ==
    /\ \/ existsCache' = NoEntry /\ UNCHANGED configCache
       \/ \E t \in Table : configCache' = [configCache EXCEPT ![t] = NoEntry]
                           /\ UNCHANGED existsCache
    /\ UNCHANGED <<database, req>>

\* Mutant: no time_to_live, an entry stays until it is evicted.
AgedForever(e) ==
    IF e = NoEntry THEN NoEntry
    ELSE [e EXCEPT !.age = IF @ + 1 < Ttl THEN @ + 1 ELSE @]

\* Mutant: an entry is still served at the instant it expires.
AgedTooLong(e) ==
    IF e = NoEntry \/ e.age = Ttl THEN NoEntry ELSE [e EXCEPT !.age = @ + 1]

\* An entry is served while it is younger than time_to_live.
Aged(e) ==
    IF e = NoEntry \/ e.age + 1 = Ttl THEN NoEntry ELSE [e EXCEPT !.age = @ + 1]

Later(n) == IF n = Cap THEN Cap ELSE n + 1

Tick ==
    /\ \A r \in Request : ~At(r, "idle") => req[r].wait < MaxStep
    /\ existsCache' = Aged(existsCache)
    /\ configCache' = [t \in Table |-> Aged(configCache[t])]
    /\ req' = [r \in Request |->
                  IF At(r, "idle") THEN req[r] ELSE [req[r] EXCEPT !.wait = @ + 1]]
    /\ sinceExists' = [v \in Presence |->
                          IF registry = v THEN 0 ELSE Later(sinceExists[v])]
    /\ sinceConfig' = [t \in Table |-> [c \in Config |->
                          IF HasConfig(t, c) THEN 0 ELSE Later(sinceConfig[t][c])]]
    /\ UNCHANGED <<registry, row>>

-----------------------------------------------------------------------------
(* The operator, who works on the database directly *)

\* What a change makes true is true from now on.
Mark ==
    /\ sinceExists' = [v \in Presence |-> IF registry' = v THEN 0 ELSE sinceExists[v]]
    /\ sinceConfig' = [t \in Table |-> [c \in Config |->
                          IF HasConfig(t, c)' THEN 0 ELSE sinceConfig[t][c]]]
    /\ UNCHANGED <<existsCache, configCache, req>>

\* CREATE TABLE or DROP TABLE oxyd_internal._oxyd_tables.
SetRegistry(v) ==
    /\ registry' = v
    /\ row' = [t \in Table |-> NoValue]
    /\ Mark

\* INSERT, UPDATE or DELETE of the row of t.
SetRow(t, c) ==
    /\ registry = "present"
    /\ row' = [row EXCEPT ![t] = c]
    /\ UNCHANGED registry
    /\ Mark

-----------------------------------------------------------------------------
Serve(r) ==
    \/ GetExists(r) \/ ReadExists(r) \/ PutExists(r)
    \/ GetConfig(r) \/ ReadConfig(r) \/ PutConfig(r)
    \/ Run(r)

Next ==
    \/ \E r \in Request :
        \/ \E t \in Table, user \in BOOLEAN : Start(r, t, user)
        \/ Serve(r)
        \/ Drop(r)
    \/ Evict
    \/ Tick
    \/ \E v \in Presence \ {registry} : SetRegistry(v)
    \/ \E t \in Table, c \in Config \cup {NoValue} : row[t] # c /\ SetRow(t, c)

Spec == Init /\ [][Next]_vars

\* Time passes, and the runtime polls every task that is ready.
FairSpec == Spec /\ WF_vars(Tick) /\ \A r \in Request : WF_vars(Serve(r))

-----------------------------------------------------------------------------
(* Properties *)

\* A cached answer was the database's within the entry's age and the time
\* its insertion took, whichever order the requests that fill the cache end
\* in: a slow one puts an old value over a newer, but not for longer.
EntriesBounded ==
    /\ existsCache # NoEntry =>
          sinceExists[existsCache.val] <= existsCache.age + MaxStep
    /\ \A t \in Table : configCache[t] # NoEntry =>
          sinceConfig[t][configCache[t].val] <= configCache[t].age + MaxStep

\* The ticks by which the gate may lag behind the database.
Window == Ttl - 1 + MaxStep

\* What let a running request in was so within the window before the gate
\* decided: there was no registry, or the table was exposed and public, or
\* exposed and the request has a user.  No mix of the two caches lets in a
\* request that the registry refused all that time, and its creation closes
\* the development mode no later.
GateFresh ==
    \A r \in Request : At(r, "run") =>
        LET v == req[r].val
        IN  IF v = "absent"
            THEN sinceExists[v] <= Window + req[r].wait
            ELSE /\ v \in {"public", "auth"}
                 /\ v = "auth" => req[r].user
                 /\ sinceConfig[req[r].table][v] <= Window + req[r].wait

\* A table that stays hidden is in the end reached by no request, though no
\* one ever clears the cache.
HiddenInTheEnd ==
    \A t \in Table :
        <>[](HasConfig(t, "hidden"))
            => <>[](\A r \in Request : ~(At(r, "run") /\ req[r].table = t))
=============================================================================
