----------------------------- MODULE TableMeta -----------------------------
(***************************************************************************)
(* What the write handlers know of a table.  load_table_meta               *)
(* (oxyd-core/src/virtual_crud/registry) reads columns and primary key in  *)
(* queries of their own and caches them; update_rows and insert_rows base  *)
(* their guards on that, while an operator alters the table.               *)
(*                                                                         *)
(* Time is kept as in RegistryCache: an entry has an age, a request the    *)
(* ticks it has spent in its step, and, as a ghost, each column the ticks  *)
(* since the guards had no reason to look after it.  select_rows and       *)
(* delete_rows ask the metadata only for names that Postgres would refuse  *)
(* as well, and are left out.                                              *)
(***************************************************************************)
EXTENDS Integers

CONSTANTS
    Column,   \* names of columns
    Owner,    \* user_id
    Request,  \* requests the server runs at the same time
    Ttl,      \* time_to_live of the cache
    MaxStep   \* bound: the ticks a request spends in one step

ASSUME TableMetaAssumption ==
    /\ Owner \in Column
    /\ Ttl \in Nat \ {0}
    /\ MaxStep \in Nat

VARIABLES
    columns,      \* the table's columns; none if there is no table
    key,          \* those of its primary key
    cache,        \* RegistryCache.table_meta for the table
    req,          \* the requests in flight
    sinceColumn,  \* ghost: ticks since each column was last not there
    sinceKey      \* ghost: ticks since each was last not in the primary key

vars == <<columns, key, cache, req, sinceColumn, sinceKey>>

database == <<columns, key, sinceColumn, sinceKey>>

\* Bound: more ticks than any property speaks of.
Cap == Ttl + 3 * MaxStep

Entry == [columns: SUBSET Column, key: SUBSET Column, age: 0..(Ttl - 1)]
NoEntry == [columns |-> {}, key |-> {}, age |-> Ttl]

Pc == {"idle", "get", "readExists", "readColumns", "readKey", "put", "run"}

\* user: there is a CurrentUser; col: the column that the body sets;
\* columns, key: what it has read; forced: the statement sets user_id;
\* wait: ticks at this pc.
RequestState == [pc: Pc, op: {"update", "insert"}, user: BOOLEAN, col: Column,
                 columns: SUBSET Column, key: SUBSET Column, forced: BOOLEAN,
                 wait: 0..MaxStep]

Idle == [pc |-> "idle", op |-> "update", user |-> FALSE, col |-> Owner,
         columns |-> {}, key |-> {}, forced |-> FALSE, wait |-> 0]

TypeOK ==
    /\ columns \subseteq Column
    /\ key \subseteq columns
    /\ cache \in Entry \cup {NoEntry}
    /\ req \in [Request -> RequestState]
    /\ sinceColumn \in [Column -> 0..Cap]
    /\ sinceKey \in [Column -> 0..Cap]

\* Bound: the server starts long after the last change.
Init ==
    /\ columns \in SUBSET Column
    /\ key \in SUBSET columns
    /\ cache = NoEntry
    /\ req = [r \in Request |-> Idle]
    /\ sinceColumn = [c \in Column |-> IF c \in columns THEN Cap ELSE 0]
    /\ sinceKey = [c \in Column |-> IF c \in key THEN Cap ELSE 0]

-----------------------------------------------------------------------------
(* load_table_meta *)

At(r, pc) == req[r].pc = pc

Finish(r) == req' = [req EXCEPT ![r] = Idle]

Start(r, op, user, col) ==
    /\ At(r, "idle")
    /\ req' = [req EXCEPT ![r] = [Idle EXCEPT !.pc = "get", !.op = op, !.user = user, !.col = col]]
    /\ UNCHANGED <<database, cache>>

\* "unknown column", "cannot update primary key column", "cannot update
\* user_id": whether update_rows goes on, given what it knows.
MayUpdate(r, known, pk) ==
    LET col == req[r].col
    IN  /\ col \in known
        /\ col \notin pk
        /\ ~(Owner \in known /\ req[r].user /\ col = Owner)

\* Mutant: primary key columns are not refused.
BuildOnKey(r, known, pk) ==
    LET forced == req[r].op = "insert" /\ Owner \in known /\ req[r].user
    IN  IF req[r].op = "update" => MayUpdate(r, known, {})
        THEN req' = [req EXCEPT ![r] = [@ EXCEPT !.pc = "run", !.forced = forced, !.wait = 0]]
        ELSE Finish(r)

\* With metadata at hand the handler refuses, or builds its statement; an
\* insert with a user sets user_id if it knows of such a column.
Build(r, known, pk) ==
    LET forced == req[r].op = "insert" /\ Owner \in known /\ req[r].user
    IN  IF req[r].op = "update" => MayUpdate(r, known, pk)
        THEN req' = [req EXCEPT ![r] = [@ EXCEPT !.pc = "run", !.forced = forced, !.wait = 0]]
        ELSE Finish(r)

Goto(r, pc, known, pk) ==
    req' = [req EXCEPT ![r] = [@ EXCEPT !.pc = pc, !.columns = known, !.key = pk, !.wait = 0]]

Get(r) ==
    /\ At(r, "get")
    /\ IF cache # NoEntry THEN Build(r, cache.columns, cache.key)
                          ELSE Goto(r, "readExists", {}, {})
    /\ UNCHANGED <<database, cache>>

\* No table: 404.
ReadExists(r) ==
    /\ At(r, "readExists")
    /\ IF columns = {} THEN Finish(r) ELSE Goto(r, "readColumns", {}, {})
    /\ UNCHANGED <<database, cache>>

ReadColumns(r) ==
    /\ At(r, "readColumns")
    /\ Goto(r, "readKey", columns, {})
    /\ UNCHANGED <<database, cache>>

ReadKey(r) ==
    /\ At(r, "readKey")
    /\ Goto(r, "put", req[r].columns, key)
    /\ UNCHANGED <<database, cache>>

Fresh(known, pk) == [columns |-> known, key |-> pk, age |-> 0]

Put(r) ==
    /\ At(r, "put")
    /\ cache' = Fresh(req[r].columns, req[r].key)
    /\ Build(r, req[r].columns, req[r].key)
    /\ UNCHANGED database

\* The UPDATE or INSERT.
Run(r) ==
    /\ At(r, "run")
    /\ Finish(r)
    /\ UNCHANGED <<database, cache>>

\* A database error or a client that hangs up, at any await.
Drop(r) ==
    /\ ~At(r, "idle")
    /\ Finish(r)
    /\ UNCHANGED <<database, cache>>

-----------------------------------------------------------------------------
(* The cache by itself, the clock, and the operator *)

Evict ==
    /\ cache # NoEntry
    /\ cache' = NoEntry
    /\ UNCHANGED <<database, req>>

\* Mutant: no time_to_live.
AgedForever(e) == IF e = NoEntry \/ e.age + 1 = Ttl THEN e ELSE [e EXCEPT !.age = @ + 1]

\* Mutant: an entry is still served at the instant it expires.
AgedTooLong(e) == IF e = NoEntry \/ e.age = Ttl THEN NoEntry ELSE [e EXCEPT !.age = @ + 1]

Aged(e) == IF e = NoEntry \/ e.age + 1 = Ttl THEN NoEntry ELSE [e EXCEPT !.age = @ + 1]

Later(n) == IF n = Cap THEN Cap ELSE n + 1

\* Ticks since each column was last not in S, after one more with it there.
Longer(since, S) == [c \in Column |-> IF c \in S THEN Later(since[c]) ELSE 0]

Tick ==
    /\ \A r \in Request : ~At(r, "idle") => req[r].wait < MaxStep
    /\ cache' = Aged(cache)
    /\ req' = [r \in Request |->
                  IF At(r, "idle") THEN req[r] ELSE [req[r] EXCEPT !.wait = @ + 1]]
    /\ sinceColumn' = Longer(sinceColumn, columns)
    /\ sinceKey' = Longer(sinceKey, key)
    /\ UNCHANGED <<columns, key>>

\* CREATE, ALTER or DROP TABLE: what it takes away is away from now on.
Alter(C, K) ==
    /\ K \subseteq C
    /\ columns' = C
    /\ key' = K
    /\ sinceColumn' = [c \in Column |-> IF c \in C THEN sinceColumn[c] ELSE 0]
    /\ sinceKey' = [c \in Column |-> IF c \in K THEN sinceKey[c] ELSE 0]
    /\ UNCHANGED <<cache, req>>

-----------------------------------------------------------------------------
Serve(r) ==
    \/ Get(r) \/ ReadExists(r) \/ ReadColumns(r) \/ ReadKey(r) \/ Put(r)
    \/ Run(r)

Next ==
    \/ \E r \in Request :
        \/ \E op \in {"update", "insert"}, user \in BOOLEAN, col \in Column :
              Start(r, op, user, col)
        \/ Serve(r)
        \/ Drop(r)
    \/ Evict
    \/ Tick
    \/ \E C, K \in SUBSET Column : Alter(C, K)

Spec == Init /\ [][Next]_vars

-----------------------------------------------------------------------------
(* Properties *)

\* Metadata that lacks a column, or a column of the primary key, is no older
\* than the entry and the steps between the query and the insertion, though
\* its two halves may never have been true together.
MetaBounded ==
    cache # NoEntry =>
        \A c \in Column :
            /\ c \notin cache.columns => sinceColumn[c] <= cache.age + 2 * MaxStep
            /\ c \notin cache.key => sinceKey[c] <= cache.age + MaxStep

\* The ticks by which the guards may lag behind the table.
KeyWindow == Ttl - 1 + MaxStep
ColumnWindow == Ttl - 1 + 2 * MaxStep

\* An UPDATE of a column runs only if that column was no primary key within
\* the window before the guard, and with a user never sets user_id, however
\* stale the metadata is; an INSERT with a user leaves user_id alone only if
\* there was no such column within the window.
GuardsCatchUp ==
    \A r \in Request : At(r, "run") =>
        /\ req[r].op = "update" => sinceKey[req[r].col] <= KeyWindow + req[r].wait
        /\ req[r].op = "update" /\ req[r].user => req[r].col # Owner
        /\ req[r].op = "insert" /\ req[r].user /\ ~req[r].forced =>
              sinceColumn[Owner] <= ColumnWindow + req[r].wait

=============================================================================
