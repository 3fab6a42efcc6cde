# A TLA+ model of oxyd

oxyd is an HTTP server (Rust, Axum, SQLx) in front of Postgres. It gives
clients accounts with access and refresh tokens, and generic list, insert,
update and delete on the tables of the database. Its handlers are short and
sequential. What makes it hard is that they run concurrently over shared state
they do not own: a connection pool, tables that an operator edits directly,
and three caches. The models here are about that.

All paths below are under `src/oxyd-core/` unless they start otherwise.

## Inventory

| part | state | operations | works with |
| --- | --- | --- | --- |
| auth service, `src/auth/service.rs` | `oxyd_auth.users`, `oxyd_auth.refresh_sessions` | register, login, refresh | the pool, clients, an operator |
| access tokens, `src/auth/middleware.rs`, `extractors.rs` | none (JWT, `users`) | auth_middleware, RequireUser, OptionalUser | the auth service, every table handler |
| registry gate, `src/virtual_crud/registry/` | `oxyd_internal._oxyd_tables`, the caches `table_exists` and `table_config` | ensure_exposed | an operator, the table handlers |
| table metadata, same directory | the catalogue of Postgres, the cache `table_meta` | load_table_meta | DDL, the builders of statements |
| CRUD execution, `select.rs`, `insert.rs`, `update.rs`, `delete.rs` | the tables, `app.current_user_id` of each connection | select_rows, insert_rows, update_rows, delete_rows | the pool, row level security |
| query language, `query.rs`, `select.rs` | none | parse_query_options, build_where_sql, build_select_sql | the metadata |
| HTTP handlers, `routes.rs` | none | list, insert, update, delete: gate, authentication, statement | all of the above |
| start-up, errors, state | pool size, lifetimes, secret | | |
| permissions, `migrations/000`, `005` | grants | | |

A table request goes through OptionalUser (who is it), `ensure_exposed` (may
this table be reached, is a user needed), `parse_query_options`,
`load_table_meta`, and one transaction that sets the user and runs one
statement. An auth request goes to the service directly. Nothing is shared
in memory but the caches; everything else meets in Postgres.

What is hard, and what correct means, by part:

- **Auth service.** Two requests with one token; a crash, a hang-up or a
  foreign key violation between the statements of a rotation; a COMMIT that
  takes effect after its client has given up and tries again; an operator who
  deletes or deactivates the user in between; requests that hold a connection
  while they wait for a row lock. Correct: a rotation happens wholly or not at
  all, a spent token buys nothing, a token is used once, the chain of
  `replaced_by` is complete, and every request ends.
- **Registry gate.** Two caches filled at different instants by requests that
  overtake each other, with no invalidation. Correct: a decision is never
  older than a known window, and a table that is hidden is in the end hidden.
- **Table metadata.** Three reads with no transaction, cached, while the table
  is altered. Correct: the guards on primary key and `user_id` are never
  further behind than a known window.
- **CRUD execution.** The user of a statement is a setting of the pooled
  connection it runs on, a bulk write locks its rows one by one, and a client
  may hang up at any of its awaits. Correct: nobody reads or writes another
  user's rows, a request acts on the table at once or not at all, no connection
  is lost, and requests wait in a circle only where Postgres sees it.
- **Access tokens.** The account is loaded an await after the token is verified,
  the two code paths have two leeways, and on one of them an error turns a user
  into an anonymous caller. Correct: nobody is taken for a user who was not
  active since the request arrived, and fewer rights never open a table.
- **Query language.** The numbering and the types of placeholders over four
  hand-written builders, limits at the edge of their type, four tables of error
  codes. Correct: the statement with its values is what the request says, and a
  value of another type than its column's is the client's error.

`PROJECT.json` lists each hazard at its line, with the properties that cover it.

## Modules

| module | what it is |
| --- | --- |
| `Sessions` | register, login and refresh, one action per SQL statement |
| `RotatingTokens` | the abstract rotating token, with no requests or rows |
| `SessionsRotation` | the mapping by which `Sessions` implements it |
| `RegistryCache` | `ensure_exposed` over its two caches |
| `TableMeta` | `load_table_meta`, its cache, and the guards of the writes |
| `RowSecurity` | the transactions of the four operations under row level security |
| `OwnedTable` | the abstract table that keeps a row to its owner |
| `AccessGate` | who a request is taken for: the middleware and the two extractors |
| `TableRequest` | `AccessGate` and `RegistryCache` composed into a request on a table |
| `TableQuery` | from a query string and a body to a statement, its values and a status |
| `SessionsProofs`, `RegistryCacheProofs`, `TableMetaProofs`, `RowSecurityProofs`, `TableRequestProofs`, `TableQueryProofs` | theorems |
| `SessionsRotationProofs` | theorems about what one use of a token mints |
| `MCSessions`, `MCRegistryCache`, `MCTableMeta`, `MCRowSecurity`, `MCTableRequest`, `MCTableQuery` | instances for TLC |

Definitions named as mutants in a comment are not part of a model. Each is a
plausible mistake in the code that some property must notice.

### Sessions

A refresh token is named by the id of the row that stores its hash. A request
is a record whose `pc` is the statement it runs next: `lookup` (the SELECT,
outside the transaction), `begin`, `revoke`, `insert`, `link`, `commit`,
`loadEmail` for refresh. What a transaction writes shows at `Commit` (READ
COMMITTED); `Locks` is the row lock that its first UPDATE takes. `Drop` ends a
request at any await, for a database error, an acquire timeout, a hang-up or a
crash: the transaction is lost and what was committed is kept. `HangUp` is the
other thing that may come of it while COMMIT is on its way: the ROLLBACK of the
dropped transaction is queued behind the COMMIT, so that the request is gone for
its client, holds its connection and its lock (`landing`), and takes effect
later or never. The operator deactivates and deletes users (with the cascade of
migration 002).

Two ghosts say what the properties compare: `minted` has a pair for every
rotation that was committed, and `raced` has every token that was presented
while another use of it was open, be it of a request whose client has given up
and whose COMMIT is on its way. Nothing in the code orders those two, so the
service promises a single use only of the other tokens: `SingleUseInTurn`,
`AuditTrail`, and the guard of `Rotate` in `RotatingTokens`. A retry after the
first use has ended, in whatever way, is in that promise; one before is not, and
is Finding 1. That abstract token has an owner, may be retired, and goes when its
account is closed; it knows nothing of requests, rows, transactions or failures.

Abstracted: e-mails and passwords are the outcomes they decide, a token hash is
its row. `DeleteUser` is one step. In Postgres its cascade can close a cycle of
locks with the foreign key check of a refresh, and one of the two is then
aborted: a `Drop`, or a deletion that did not happen. The clocks of the server
and the database are taken to agree.

### RegistryCache

A request passes `getExists`, `readExists`, `putExists`, `getConfig`,
`readConfig`, `putConfig` and, if it is let in, `run`. A lookup in a cache, a
query and an insertion are separate steps, so requests overtake each other.
There is no clock: an entry has an age, a request the ticks spent in its step,
and a ghost counts for each possible value the ticks since the database last
held it. Capacity and restart are `Evict`, at any time.

### TableMeta

The same measure of time for `get`, `readExists`, `readColumns`, `readKey`,
`put`, `run`. The table is its columns and its primary key, which `Alter`
changes at any moment to anything. `MayUpdate` is the guard of update_rows and
`forced` says whether insert_rows sets `user_id`. list and delete use the
metadata only to refuse names that Postgres refuses as well, and are left out
here; what they then answer is `DriftErrors` of `TableQuery`.

### RowSecurity

The table is `posts` of migration 004, with its four policies. A connection has
a state (idle or in a transaction), the value of `app.current_user_id`, and the
value it falls back to at the end of the transaction. A custom setting is NULL
on a new connection; once it has been set for a transaction it is the empty
string, not NULL, after it. That is how Postgres behaves, and `Fallback` says it.
Requests come with a user or, on a table that requires none, without; whether
their metadata knows of `user_id` is left open, which is what `TableMeta` allows.

An UPDATE or DELETE finds its rows (`Scan`) and then locks them one by one, in
any order (`Lock`): a row that has changed meanwhile is looked at again and
written, left out or refused. Two of them may wait for each other; `Deadlock` is
Postgres ending one of them with 40P01. An error undoes at once what the
transaction wrote and locked, and the request then sends its ROLLBACK.

A client may hang up at any await (`Drop`). sqlx queues a ROLLBACK on the
connection, behind what is being executed there: the statement that waits for a
row goes on waiting, and a COMMIT on its way may still take effect. The request
then stays, as `gone`, until its connection is back. `GiveUp` is a hang-up or an
acquire timeout without a transaction.

Places for rows are reused, which stands for later rows that match the same
filter; a bulk write that waits for a place takes a row that was put there
meanwhile for the one it found.

`OwnedTable` is what the four operations promise of a table: a request arrives,
acts in one step that moves rows between its caller and nobody, and leaves. It
has no connections, settings, policies or locks. `Table`, at the end of
`RowSecurity`, maps a row to its owner and a request to whether it is there,
may still act, or has acted; the instant of acting is `Commit`, also where it
comes after the client has gone. The owners that a request gets to see are not in
it, and are left to `Isolation`.

### AccessGate

`auth_middleware` (in front of `/auth/me`), `RequireUser` (which no route uses)
and `OptionalUser` (every table route) each verify the token in one step,
`Arrive`, and load the account in a later one, `LoadUser` or `LoadFails`. A
token is its user and its age, and there is no clock: the age is what it is on
arrival, and a client may have a token of any age for any account, since
`refresh` never looks at `is_active` and goes on issuing them. Ages above
`Stale`, which nobody accepts, are one. The middleware's leeway is ten seconds,
the extractors have the library's default of sixty: `LeewayOf`. A deletion is a
deactivation that is not taken back, since the query finds no row in either case.
The ghost `late` is true while the account has not been active since the
request arrived.

### TableRequest

The handlers of `routes.rs` as a composition: a request comes out of
`AccessGate` as a user or as nobody, enters `ensure_exposed`
(`Gate == INSTANCE RegistryCache WITH req <- gate`), and its answer ends both.
The two share the requests and the passage of time. Requests on `/auth/me` run
beside them, since the accounts are the same. The order in the code is
extractors, gate, query string, metadata, statement; the body is parsed by the
extractor after the user is loaded, and a body that is no JSON ends a request
like a hang-up.

### TableQuery

From a query string and a body to a statement, its values and a status:
`parse_query_options`, `build_where_sql`, `build_select_sql` and the building
half of the three writes. A text is the sequence of its parts (between the dots
of a filter, between the commas of a select), because splitting at the first dot
is all the code does to it, except for numbers: `Number` is what parsing makes
of one, `Decimal` how the code writes it.

`Parse` makes the options; `Select`, `Insert`, `Update`, `Delete` check names
and guards and begin a statement; then each turn of a loop of the builders is a
step: `SetColumn`, `AddFilter`, `AddItem` (one place of one tuple), `AddLimit`,
`AddOffset`. A statement is a record with the places written so far, each with a
placeholder where the code writes `$n`, and the values are a list beside it, so
that numbering them wrongly is possible. Filters come in the order of a
`HashMap`, which is any. `Execute` is Postgres preparing and running the
statement: parameters whose type does not fit, values that are refused as they
are bound or cast, rows refused by a length, a constraint or a policy, a table or
a column that went or changed while the metadata was cached; `StatusOf` is what
the handler makes of the code. `PgCastOf` is the whole of `pg_cast_of`. Which
texts a cast refuses, and how, is the constant `Refused`, with `CastCodes` the
codes there are for each type: numbers raise 22P02 and 22003, dates and times
22007, 22008, 22009 and 22023, and any text 22021 for a NUL byte.
`information_schema` names enums and extension types alike, `USER-DEFINED`;
`TakesText` are the columns of those (as `citext`) that go with a text all the
same. Wording and the JSON of the rows are left out. The transaction around the
statement is `RowSecurity`'s.

## Runs

| run | instance | what it shows |
| --- | --- | --- |
| `sessions` | 2 users, 2 requests, 4 sessions, 3 instants | `TypeOK`; `RotationAtomic`: revocation, successor and link appear together, within one account and in order; `ReplayRefused`: a token already spent on arrival gets past nothing; `SingleUseInTurn`: a token that is not presented while a use of it is open is rotated once; `AuditTrail`: `replaced_by` leads to its successor; `ImplementsRotation`: the service is a rotating token |
| `sessions_live` | 3 requests, 2 connections, 1 user | `Answered`: every request ends, though one waits for a row with a connection and one for a connection |
| `sessions_double_rotation` | as `sessions` | finding: one token is rotated twice |
| `registry_safety` | 1 table, 2 requests, time to live 2, steps of at most 1 tick | `TypeOK`, `EntriesBounded`, `GateFresh`: nothing is let in for a reason older than time to live and two steps |
| `row_security` | 2 users, 2 requests, 2 connections, 2 rows | `TypeOK`; `Isolation`: nobody reads or writes another's rows; `ContextOfHolder`: a transaction runs as its request's user or as nobody; `ImplementsTable`: each request acts on the table at once or not at all |
| `row_security_live` | 1 user, 2 requests, 2 connections, 2 rows | `NoHiddenStandstill`: some request can go on, or some wait in a circle for rows alone; `Answered`: every one ends, with failures, hang-ups and deadlocks |
| `row_security_anonymous` | 1 user, 2 requests, 1 connection | finding: an anonymous statement finds a setting |
| `table_meta` | 1 column that may be `user_id` and primary key, 2 requests | `TypeOK`, `MetaBounded`, `GuardsCatchUp`: the guards lag by no more than the window; with a user no update ever sets `user_id` |
| `table_request` | 1 user, 1 table, 1 request at a time, time to live 1 | `Types`; `TakenForTheOwner`: nobody runs as a user that was not active since the request arrived, or by a token beyond its leeway; `ReachedRightly`: a statement reaches a table for a reason of the window and, where users are required, as a user; `ImplementsGate`: the composition is the registry gate, its fairness included; `HiddenInTheEnd`, `LockedOutInTheEnd`: a table that stays hidden and an account that stays closed are in the end out of reach |
| `query` | 7 columns of 6 types, some 1,295,000 states | `TypeOK`; `Numbered`: placeholders and values match at every turn of every loop; `AsAsked`: the statement with its values says what the request says; `OwnerKept`: the rows of a bulk insert are the user's, and no update moves a row; `MistypedRefused`: a value that meets a column of another type reaches no row and is answered with 400 |
| `query_range` | 2 columns, two filters | finding: of two filters on one column one is lost |
| `query_limit` | 2 columns, a limit | finding: a list with a limit is refused |

### Findings

Four places where a comment says one thing and the program does another.

1. `src/auth/service.rs:157`, "the moment a refresh is used, it is
   invalidated". The lookup is before the transaction, and the UPDATE tests
   neither `revoked` nor how many rows it changed. Two requests that both look
   up first both rotate (`SingleUse`). It does not take two clients: one that gives
   up while COMMIT is on its way, and retries before it has taken effect, gets
   past the lookup as well. The second rotation also overwrites `replaced_by`, so
   that line 186, "linking via replaced_by for auditability", fails with it: one
   of the two successors is linked by nothing.
2. `src/virtual_crud/select.rs:179`, anonymous users have no context and `SET
   LOCAL` "automatically goes away". It leaves an empty string, on which the
   cast of the policies fails: the same anonymous request finds no rows on one
   connection and an error on another (`AnonymousWithoutContext`). `Isolation`
   is not touched.
3. `src/virtual_crud/query.rs:26`, everything that is not reserved "is treated
   as a filter". The handlers extract a `HashMap` (`routes.rs:72`), which keeps
   the last of several pairs with one key: `id=gte.0&id=lte.2` is `id <= 2`,
   also for an UPDATE or DELETE (`EveryFilterApplies`).
4. `src/virtual_crud/select.rs:186`, "We bound everything as text; Postgres
   will cast when needed". It does not for `LIMIT $n` and `OFFSET $n`, the only
   placeholders without a cast: their type is bigint, and a text parameter is
   refused with 42804, which the handler answers with 400
   (`CastsWhenNeeded`). This rests on what Postgres does with the type that
   sqlx declares for a `String`, which is not in this repository.

`src/virtual_crud/update.rs:21`, "does not update PK columns", holds as far as
the metadata is fresh: `GuardsCatchUp` is the exact statement.

Three more disagreements have no run. In each the code is modelled as it is and
the property next to it is silent, so that it does not pass as if all were well:

- `query.rs:60` clamps a limit against an accidental "download the world" and
  `virtual_crud/README.md:107` gives it as 1 to 1000. A number beyond an i64 does
  not parse and is no limit at all. `AsAsked` says of a limit or offset that an
  i64 holds where it ends up, and nothing of a larger one.
- `insert.rs:22` and `virtual_crud/README.md:198` call an array a bulk insert. An
  array of empty objects, without a user, is DEFAULT VALUES and thus one row,
  however long it is. `AsAsked` says nothing of an insertion without a column.
- `virtual_crud/README.md:277` promises 400 for invalid input, an unknown column
  and a violated constraint. The lists of codes (`select.rs:202`,
  `insert.rs:293-298`, `update.rs:161-171`, `delete.rs:127-132`) lack, and 500
  answers, a number out of range (22003), a date out of range (22008, 22009,
  22023), a text that is too long (22001) or has a NUL byte (22021, and 22P05 in
  jsonb), a row that a policy refuses (42501), the deletion of a row that is
  referenced (23503) and an insertion into a column that has gone (42703).
  `MistypedRefused` is the part that does hold on all four lists: what goes wrong
  with types.

### Bounds, and why they are enough

- `MaxSession` 4: two logins and two rotations, which is what two overlapping
  refreshes and a replay need. `Room` and `RoomForUser` take a request in only
  while an id is left for it, so that no request is stuck for want of ids.
- `MaxTime` 2 with a lifetime of 2: a session is fresh, old and expired, and
  two sessions of different age coexist. `sessions_live` has no clock.
- Two requests, because every hazard here is between two; three in
  `sessions_live`, on two connections: one holds the row, one holds the other
  connection and waits for the row, one waits for a connection.
- `PoolSize` 2 where ten are in the program: requests overlap, and with three of
  them queue.
- Two rows in `row_security_live`, the least that two bulk writes can lock in
  opposite orders.
- `Ttl` 2 and `MaxStep` 1: an entry has two ages and a step zero or one tick,
  so that an entry outlives a request and the reverse. `MaxStep` is an
  assumption about the environment: the code sets no timeout on statements,
  and the windows are stated in terms of it. `Cap` is above every window.
- `table_meta` has one column in both roles because two columns with two
  requests exceed what TLC does in minutes. Its theorem is for any number.
- `Room` of `RowSecurity` keeps a place for each insert in flight.
- `table_request` has one request at a time, entries of age 0 only (with a time
  to live of 1 the next tick ends them) and tokens of age 0 to 3, on either side
  of both leeways (0 and 1). Accounts, rows and clock move at any instant of it.
  Requests that overtake each other at the gate, and older entries, are in
  `registry_safety`; `AccessGate` has no state that two requests share but the
  accounts. The theorems are for any number.
- `query`: up to two filters of any kind and three that each number
  differently, every combination of select, order, limit and offset with them,
  every object over three columns, arrays of two, and bodies for the other
  types. `LimitMax` 3 and `I64Max` 7 stand for 1000 and 2^63 - 1, and the numbers
  2, 5 and 9 for one within each and one beyond. The columns are an enum, a
  `citext`, a `json`, a timestamp, a `varchar` and two integers, with texts that
  their casts take and refuse by each of the codes above but 22009, 22023, 22P05.
  Users of a list or a deletion do not change the statement and are left out there.

The theorems remove the bounds from the safety properties they state.

### Fairness

- `Sessions` and `RowSecurity`: strong fairness of each request's next
  statement. A request waits in two places, the queue of the pool and the queue
  of a row lock, and both are first come first served, so a step that is enabled
  again and again is taken. That includes what Postgres and the pool owe a
  request whose client is gone (its COMMIT lands or its ROLLBACK is sent before
  the connection is offered again) and, in `RowSecurity`, the deadlock detector,
  which every wait for a row starts after `deadlock_timeout`. Failures, hang-ups,
  clients and the operator owe nothing.
- `RegistryCache`: weak fairness of the clock and of each request's next step,
  since tasks that are ready are polled.
- `TableRequest`: the same of the clock and of `Work`, the next step of a
  request that has arrived. Arrivals, errors, hang-ups and the operator owe
  nothing; `ImplementsGate` shows that this is the fairness of the gate.

`Drop` is never owed, so `Answered` does not come from timeouts. The
`sessions` runs stop where the ids run out and the `query` runs at the answer,
and the cfg of each run that may stop says so.

## Proofs

TLAPS checks every theorem for all values of the constants, from the
assumptions the modules name (`SessionsAssumption`, `RegistryCacheAssumption`,
`TableMetaAssumption`, `RowSecurityAssumption`, `AccessGateAssumption`,
`TableRequestAssumption`, `TableQueryAssumption`, `RequestAssumption`): special
values lie outside their sets, lifetimes and sizes are positive numbers, there
is a connection, and what clients send are pairs of texts and JSON values. Each
proof has an inductive invariant `IInv`, shown to hold initially and to be kept
by every action, one lemma for each action or group of alike ones.

- `SessionsProofs` (`TypeCorrect`, `RotationIsAtomic`, `ReplayIsRefused`).
  `RotationAtomic` alone is not inductive: at `Commit` one must know that the
  old row is still there, of the same user and older, and that nobody else has
  the new id. `IInv` adds this for each request in a transaction (`Old`,
  `New`, `Apart`), that every row expires within a lifetime from now and has
  an existing user (`Rows`), that the tokens clients hold have ids that were
  given (`Known`), and that a late refresh is still at its lookup with a spent
  token (`Late`).
- `SessionsRotationProofs` (`OneUse`, `AuditTrailLeads`, `Rotates`), over that
  invariant. That a token is rotated once needs to be known before the commit:
  a refresh past its lookup has a token that nobody has rotated (`Once`), for
  which no other request may be past its lookup with it, with or without a
  client, since then the token is raced for (`Alone`). After the commit the row
  is revoked (`Used`), so that a later lookup fails; and a row is revoked by a
  rotation only (`Rotated`). With this each statement maps to a step of
  `RotatingTokens` or to none: commits of registrations and logins to `Issue`, of
  refreshes, landing ones included, to `Rotate`, a second presentation to `Race`,
  deletions to `Close`.
- `RegistryCacheProofs` (`TypeCorrect`, `EntriesAreBounded`, `GateIsFresh`).
  `IInv` adds that the ghosts are right about the present (`Current`) and that
  what each request has read is as old as its wait (`Held`). A tick makes the
  three ages older by the same amount; a change of the database only makes
  reasons younger.
- `TableRequestProofs` (`GateAlone`, `TypesCorrect`, `IsTakenForTheOwner`,
  `IsReachedRightly`). Every step of the composition is one of the gate or
  leaves it alone, so every behaviour is one of `RegistryCache` (`GateAlone`),
  and what is proved there, instantiated as `Alone`, is cited and not proved
  again. What is left is the extractors' invariant `AuthInv` and that the gate
  is told the truth about its user (`Linked`). `Alone` and `Gate` are two names
  of one module; `Same` says so.
- `TableQueryProofs` (`TypeCorrect`, `PlaceholdersNumbered`, `StatementAsAsked`,
  `RowsOfTheUser`, `NoneMistyped`), for any number of columns, filters and
  rows, because the loops are steps and need no induction over data. What is
  proved of the finished statement must be known of every unfinished one:
  `IInv` says that each place holds what the request says of it (`Placed`, by
  clause in `Right`), that the placeholders are numbered by the values so far
  (`Numbered`), what the builder made sure of when it began (`Began`), that the
  options are those of the query (`Optioned`, `Requested`), and that nothing is
  executed before all loops have ended (`Complete`); completeness of each
  clause then follows from the loops' conditions. A value grows the list and
  leaves the meaning of the places before it alone (`Appended`, `Bound`). The
  map of the query keeps the last of several pairs, the largest of a set of
  indices, and that there is one is `Largest`, by the well-founded order of the
  naturals. For the statuses one must also know which clause raises which code
  (`Compared`): an insertion compares nothing, hence never meets the 42883 its
  list lacks (`Listed`), and a statement with an error in its types is not
  executed (`Blamed`).
- `TableMetaProofs` (`TypeCorrect`, `MetaIsBounded`, `GuardsDoCatchUp`). The
  same argument with two reads of different age: the columns lag by one step
  more than the key.
- `RowSecurityProofs` (`TypeCorrect`, `ContextIsTheHolders`,
  `RowsAreIsolated`, `KeepsTheTable`, `NeverStandsStillUnseen`). `IInv` adds who
  has a connection when (`Holds`), that what a request has written so far belongs
  to its user or to nobody now and afterwards (`Writes`), and that locks are
  exclusive (`Apart`), without which a commit could change what another has
  written. With this `Commit` maps to `TakeEffect` of `OwnedTable`, with or
  without a client, a start to `Arrive`, the other ends to `Leave`, and everything
  between to none. For the waits one thing more is needed, that a transaction
  which is open has a request (`Lent`): if no request can go on, each that waits
  for a connection waits for some that hold one, these wait for rows, whose
  holders have connections and wait as well, and so the requests that wait for
  rows are a circle of row waits. That Postgres then ends one of them is `Deadlock`,
  and that all end is left to `Answered`.

Only model-checked: the liveness properties (`Answered`, `HiddenInTheEnd`,
`LockedOutInTheEnd`) and the fairness in `ImplementsGate`, which need ENABLED
and so are beyond the prover. Of `ImplementsGate` the safety half is `GateAlone`.
Every invariant and every other property of the passing runs is proved.
`NoHiddenStandstill` is the part of `Answered` that can be said of a state; who
can go on does, only by fairness.

## Not modelled

- The flags `allow_insert`, `allow_update` and `allow_delete` are loaded and
  consulted nowhere, though `readme.md:7` says that the registry decides which
  operations are enabled. They have no effect on any state, hence no place in
  a model.
- Grants, start-up, wording of errors, the state record: no behaviour.
- Hashing, signatures and the parsing of JSON are taken to do what they promise.
- The rows in an answer, which Postgres turns into JSON and the code hands on.
- What a text looks like that a cast takes or refuses: `Refused` is any table of
  such texts.
- A registration that fails between its two statements leaves an account
  without a session, and so `Sessions` has it. Nothing in the repository says
  what it should be, and no property is about it.
- `refresh` does not look at `is_active` and goes on issuing tokens, and
  `Sessions` has it so. That these buy nothing is `TakenForTheOwner`.

## Plan

Done, in this order: `Sessions` with its abstract token and proofs,
`RegistryCache`, `RowSecurity`, `TableMeta`, `AccessGate` and `TableRequest`,
`TableQuery`, `SessionsRotationProofs`, `TableRequestProofs`,
`TableQueryProofs`, `OwnedTable`. Left:

1. `DeleteUser` of `Sessions` in two steps, with the lock cycle between its
   cascade and the foreign key check, and the detection of it.
2. `RowSecurity` behind `TableRequest`: the user of the gate is the user of the
   transaction, over an abstract table of rows by owner.

## Running

    tlc -workers 2 -config Sessions.cfg MCSessions.tla
    tlapm SessionsProofs.tla

`PROJECT.json` names the module and the cfg of every run. `Sessions.cfg` and
`RowSecurityLive.cfg` take two to three minutes, the others less, all proofs together a few more.
