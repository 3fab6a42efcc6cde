----------------------------- MODULE TableQuery -----------------------------
(***************************************************************************)
(* What a table request says and what is sent to Postgres                  *)
(* (oxyd-core/src/virtual_crud): parse_query_options, build_where_sql and  *)
(* the four builders of statements, up to the status that answers the      *)
(* error Postgres may raise.                                               *)
(*                                                                         *)
(* A statement is the set of its places, each with an argument that is     *)
(* written into it or that is the number of a bind; the binds are a list   *)
(* beside it.  Each turn of a loop that builds it is a step.               *)
(*                                                                         *)
(* A text is the sequence of its parts, between the dots of a filter or an *)
(* order and between the commas of a select.                               *)
(***************************************************************************)
EXTENDS Integers, SequencesExt

CONSTANTS
    Columns,     \* the columns of the table, in the order of their names
    DataType,    \* ColumnMeta.data_type of each
    TakesText,   \* those of a type that is not listed but goes with text (citext)
    PrimaryKey,  \* TableMeta.primary_key
    Number,      \* the value of each part that is a decimal number
    Decimal,     \* the text of each number up to I64Max
    I64Max,      \* the largest i64
    LimitMax,    \* 1000 in parse_query_options
    Refused,     \* the code Postgres refuses a text with, for the casts that do
    Users,         \* texts of a user's id, and <<>> for nobody
    Filters,       \* the filters of a query, each a sequence of pairs
    Options,       \* the other pairs of a query on a list or a deletion
    UpdateBodies,  \* the bodies of an update
    InsertBodies   \* and of an insertion

VARIABLES
    request,    \* what the client sent
    pc,         \* "parse", "build", "bind" or "done"
    opts,       \* QueryOptions
    statement,  \* the statement without its values
    binds,      \* its values
    raised,     \* the code of the error Postgres raised
    answer      \* the status, or 0

vars == <<request, pc, opts, statement, binds, raised, answer>>

Column == ToSet(Columns)
HasUserId == "user_id" \in Column
Reserved == {"select", "order", "limit", "offset"}
FilterOp == {"eq", "neq", "gt", "gte", "lt", "lte", "like", "ilike", "is"}

\* No text is without a part: the empty one has one part, which is empty.
Texts == Seq(STRING) \ {<<>>}
Pair == [key: STRING, value: Texts]

\* What a place of a statement may hold.
Null == [kind |-> "null"]
Default == [kind |-> "default"]
Text(t) == [kind |-> "text", text |-> t]
Ref(n, cast) == [kind |-> "ref", n |-> n, cast |-> cast]

\* A value of a body is null or goes on as a text.
Json == {Null} \cup [kind: {"text"}, text: Texts]

\* Whatever a text is cast to, it is a text of the database's encoding first
\* (22021: a NUL byte); a date may be no date (22007) or out of range (22008).
CastCodes(cast) ==
    {"22021"} \cup
    (CASE cast = "text" -> {}
       [] cast \in {"int2", "int4", "int8", "float4", "float8", "numeric"} -> {"22P02", "22003"}
       [] cast \in {"timestamptz", "timestamp", "date", "time"} ->
              {"22007", "22008", "22009", "22023"}
       [] cast = "jsonb" -> {"22P02", "22P05"}
       [] OTHER -> {"22P02"})

ASSUME TableQueryAssumption ==
    /\ DOMAIN DataType = Column /\ PrimaryKey \subseteq Column /\ TakesText \subseteq Column
    /\ I64Max \in Nat /\ LimitMax \in Nat /\ 0 < LimitMax /\ LimitMax <= I64Max
    /\ Number \in [DOMAIN Number -> Int] /\ Decimal \in [0..I64Max -> STRING]
    /\ \A p \in DOMAIN Refused : p[2] \in Texts /\ Refused[p] \in CastCodes(p[1])

ASSUME RequestAssumption ==
    /\ Users \subseteq Texts \cup {<<>>}
    /\ Filters \subseteq Seq(Pair) /\ Options \subseteq Seq(Pair)
    /\ \A b \in UpdateBodies \cup InsertBodies :
          /\ b.kind \in {"object", "array", "other"} /\ b.rows \in Seq(ToSet(b.rows))
          /\ b.kind = "object" => Len(b.rows) = 1
          /\ \A obj \in ToSet(b.rows) : obj \in [DOMAIN obj -> Json]

\* kind: "object", "array" of objects, or "other".
NoBody == [kind |-> "other", rows |-> <<>>]

NoStatement == [kind |-> "none", cols |-> {}, order |-> {}, places |-> {}]
NoOptions == [select |-> {}, filters |-> {}, order |-> {}, limit |-> {}, offset |-> {}]

\* Users of a list or a deletion do not change the statement.
Init ==
    /\ \/ \E op \in {"list", "delete"}, f \in Filters, o \in Options :
             request = [op |-> op, user |-> <<>>, query |-> f \o o, body |-> NoBody]
       \/ request \in [op: {"update"}, user: Users, query: Filters, body: UpdateBodies]
       \/ request \in [op: {"insert"}, user: Users, query: {<<>>}, body: InsertBodies]
    /\ pc = "parse" /\ opts = NoOptions
    /\ statement = NoStatement /\ binds = <<>>
    /\ raised = "" /\ answer = 0

Reply(status) == pc' = "done" /\ answer' = status

Refuse == Reply(400) /\ UNCHANGED <<request, opts, statement, binds, raised>>

-----------------------------------------------------------------------------
(* parse_query_options *)

\* Query<HashMap<String, String>>: the last of several pairs with one key.
Kept(query) ==
    [k \in {query[i].key : i \in DOMAIN query} |->
        query[Max({i \in DOMAIN query : query[i].key = k})].value]

Given(q, k) == IF k \in DOMAIN q THEN q[k] ELSE <<>>

\* value.split_once('.')
OpOf(value) == IF Len(value) > 1 THEN Head(value) ELSE "eq"

\* Mutant: without a dot there is nothing after it.
ValueAfterDot(value) == Tail(value)

ValueOf(value) == IF Len(value) > 1 THEN Tail(value) ELSE value

FilterOf(q, k) == [col |-> k, op |-> OpOf(q[k]), value |-> ValueOf(q[k])]

\* parse::<i64>, of which there is one or none.
Parsed(value) ==
    IF Len(value) = 1 /\ value[1] \in DOMAIN Number
    THEN {Number[value[1]]} \cap (-(I64Max + 1))..I64Max
    ELSE {}

AtMost(a, b) == IF a < b THEN a ELSE b
AtLeast(a, b) == IF a > b THEN a ELSE b

LimitOf(q) == {AtLeast(1, AtMost(n, LimitMax)) : n \in Parsed(Given(q, "limit"))}

OffsetOf(q) == {AtLeast(0, n) : n \in Parsed(Given(q, "offset"))}

OrderOf(q) ==
    LET parts == Given(q, "order")
    IN  IF parts = <<>> \/ parts[1] = "" THEN {}
        ELSE {[col |-> parts[1], desc |-> Len(parts) > 1 /\ parts[2] = "desc"]}

\* The set of the columns: their order is that of the answer only.
SelectOf(q) == ToSet(Given(q, "select")) \ {""}

OptionsOf(q) ==
    [select |-> SelectOf(q), filters |-> {FilterOf(q, k) : k \in DOMAIN q \ Reserved},
     order |-> OrderOf(q), limit |-> LimitOf(q), offset |-> OffsetOf(q)]

Parse ==
    LET q == Kept(request.query)
    IN  /\ pc = "parse"
        /\ IF \E k \in DOMAIN q \ Reserved : OpOf(q[k]) \notin FilterOp THEN Refuse
           ELSE /\ opts' = OptionsOf(q) /\ pc' = "build"
                /\ UNCHANGED <<request, statement, binds, raised, answer>>

-----------------------------------------------------------------------------
(* The start of the four builders *)

CastTable ==
    "smallint" :> "int2" @@ "integer" :> "int4" @@ "bigint" :> "int8"
    @@ "real" :> "float4" @@ "double precision" :> "float8"
    @@ "numeric" :> "numeric" @@ "decimal" :> "numeric" @@ "boolean" :> "bool"
    @@ "character varying" :> "text" @@ "character" :> "text" @@ "text" :> "text"
    @@ "citext" :> "text" @@ "uuid" :> "uuid"
    @@ "timestamp with time zone" :> "timestamptz"
    @@ "timestamp without time zone" :> "timestamp"
    @@ "date" :> "date" @@ "time without time zone" :> "time"
    @@ "jsonb" :> "jsonb" @@ "json" :> "json"

\* pg_cast_of, which takes every type it does not list for text.
PgCastOf(dataType) == IF dataType \in DOMAIN CastTable THEN CastTable[dataType] ELSE "text"

CastOf(col) == PgCastOf(DataType[col])

IsTexty(col) == DataType[col] \in {"character varying", "character", "text", "citext"}

WhereRefused ==
    \E f \in opts.filters :
        \/ f.col \notin Column
        \/ f.op \in {"like", "ilike"} /\ ~IsTexty(f.col)
        \/ f.op = "is" /\ f.value \notin {<<"null">>, <<"not", "null">>}

Building(op) == pc = "build" /\ request.op = op

Begin(kind, cols, order) ==
    /\ statement' = [NoStatement EXCEPT !.kind = kind, !.cols = cols, !.order = order]
    /\ pc' = "bind"
    /\ UNCHANGED <<request, opts, binds, raised, answer>>

\* build_select_sql
Select ==
    /\ Building("list")
    /\ IF \/ opts.select \ Column # {}
          \/ \E o \in opts.order : o.col \notin Column
          \/ WhereRefused
       THEN Refuse
       ELSE Begin("select", opts.select, opts.order)

\* Filters are required; select, order, limit and offset are not looked at.
Delete ==
    /\ Building("delete")
    /\ IF opts.filters = {} \/ WhereRefused THEN Refuse ELSE Begin("delete", {}, {})

Update ==
    LET obj == request.body.rows[1]
    IN  /\ Building("update")
        /\ IF \/ request.body.kind # "object"
              \/ DOMAIN obj = {} \/ opts.filters = {}
              \/ DOMAIN obj \ Column # {} \/ DOMAIN obj \cap PrimaryKey # {}
              \/ request.user # <<>> /\ "user_id" \in DOMAIN obj
              \/ WhereRefused
           THEN Refuse
           ELSE Begin("update", {}, {})

OwnerForced == HasUserId /\ request.user # <<>>

\* The union of the keys of all objects.
AllCols(rows) ==
    (UNION {DOMAIN obj : obj \in ToSet(rows)}) \cup (IF OwnerForced THEN {"user_id"} ELSE {})

Overrides(obj) ==
    /\ OwnerForced /\ "user_id" \in DOMAIN obj
    /\ obj["user_id"] \notin {Null, Text(request.user)}

\* Without any column it is DEFAULT VALUES, which is one row and has no place.
Insert ==
    LET rows == request.body.rows
    IN  /\ Building("insert")
        /\ IF \/ request.body.kind = "other" \/ rows = <<>>
              \/ \E obj \in ToSet(rows) : DOMAIN obj \ Column # {} \/ Overrides(obj)
           THEN Refuse
           ELSE Begin("insert", AllCols(rows), {})

-----------------------------------------------------------------------------
(* The loops of the builders *)

In(clause) == {p \in statement.places : p.clause = clause}

Write(clause, row, col, op, arg) ==
    statement' = [statement EXCEPT !.places =
        @ \cup {[clause |-> clause, row |-> row, col |-> col, op |-> op, arg |-> arg]}]

\* A placeholder has the number of its value: binds.push, then binds.len().
Bind(clause, row, col, op, text, cast) ==
    /\ Write(clause, row, col, op, Ref(Len(binds) + 1, cast))
    /\ binds' = Append(binds, text)

Put(clause, row, col, item) ==
    IF item.kind = "text" THEN Bind(clause, row, col, "", item.text, CastOf(col))
    ELSE Write(clause, row, col, "", item) /\ UNCHANGED binds

Position(col) == CHOOSE i \in DOMAIN Columns : Columns[i] = col

\* The keys of the object no turn has been for.
SetLeft ==
    IF statement.kind = "update"
    THEN DOMAIN request.body.rows[1] \ {p.col : p \in In("set")} ELSE {}

SetColumn ==
    /\ pc = "bind"
    /\ \E c \in SetLeft :
          /\ \A d \in SetLeft : Position(c) <= Position(d)
          /\ Put("set", 1, c, request.body.rows[1][c])
    /\ UNCHANGED <<request, pc, opts, raised, answer>>

FiltersLeft ==
    IF statement.kind \in {"select", "update", "delete"}
    THEN {f \in opts.filters : f.col \notin {p.col : p \in In("where")}} ELSE {}

\* Mutant: the filters are numbered from one again.
AddFilterNumberedApart ==
    /\ pc = "bind" /\ SetLeft = {}
    /\ \E f \in FiltersLeft :
          /\ f.op # "is"
          /\ Write("where", 0, f.col, f.op,
                   Ref(Len(binds) + 1 - Cardinality({p \in In("set") : p.arg.kind = "ref"}),
                       CastOf(f.col)))
          /\ binds' = Append(binds, f.value)
    /\ UNCHANGED <<request, pc, opts, raised, answer>>

\* build_where_sql, on the binds of SET.  Filters come in the order of a
\* HashMap, which is any.  "is" writes its value into the statement.
AddFilter ==
    /\ pc = "bind" /\ SetLeft = {}
    /\ \E f \in FiltersLeft :
          IF f.op = "is"
          THEN Write("where", 0, f.col, f.op, Text(f.value)) /\ UNCHANGED binds
          ELSE Bind("where", 0, f.col, f.op, f.value, CastOf(f.col))
    /\ UNCHANGED <<request, pc, opts, raised, answer>>

\* Mutant: the owner is set only where the client left it out.
ItemAsSent(obj, c) ==
    IF c \in DOMAIN obj THEN obj[c]
    ELSE IF c = "user_id" /\ OwnerForced THEN Text(request.user) ELSE Default

Item(obj, c) ==
    IF c = "user_id" /\ OwnerForced THEN Text(request.user)
    ELSE IF c \in DOMAIN obj THEN obj[c] ELSE Default

\* The places of the tuples no turn has been for.
ItemsLeft ==
    IF statement.kind = "insert"
    THEN ((DOMAIN request.body.rows) \X statement.cols) \ {<<p.row, p.col>> : p \in In("values")}
    ELSE {}

\* Row after row, and column after column in each.
NotAfter(a, b) == a[1] < b[1] \/ (a[1] = b[1] /\ Position(a[2]) <= Position(b[2]))

AddItem ==
    /\ pc = "bind"
    /\ \E a \in ItemsLeft :
          /\ \A b \in ItemsLeft : NotAfter(a, b)
          /\ Put("values", a[1], a[2], Item(request.body.rows[a[1]], a[2]))
    /\ UNCHANGED <<request, pc, opts, raised, answer>>

LimitLeft == IF statement.kind = "select" /\ In("limit") = {} THEN opts.limit ELSE {}
OffsetLeft == IF statement.kind = "select" /\ In("offset") = {} THEN opts.offset ELSE {}

\* LIMIT and OFFSET are bound after the filters and like them as text, but
\* have no cast.
AddLimit ==
    /\ pc = "bind" /\ FiltersLeft = {}
    /\ \E n \in LimitLeft : Bind("limit", 0, "", "", <<Decimal[n]>>, "none")
    /\ UNCHANGED <<request, pc, opts, raised, answer>>

\* Mutant: OFFSET is numbered as if there were no LIMIT.
AddOffsetTwiceNumbered ==
    /\ pc = "bind" /\ FiltersLeft = {} /\ LimitLeft = {}
    /\ \E n \in OffsetLeft :
          /\ Write("offset", 0, "", "", Ref(Len(binds) + 1 - Cardinality(In("limit")), "none"))
          /\ binds' = Append(binds, <<Decimal[n]>>)
    /\ UNCHANGED <<request, pc, opts, raised, answer>>

AddOffset ==
    /\ pc = "bind" /\ FiltersLeft = {} /\ LimitLeft = {}
    /\ \E n \in OffsetLeft : Bind("offset", 0, "", "", <<Decimal[n]>>, "none")
    /\ UNCHANGED <<request, pc, opts, raised, answer>>

Built == SetLeft = {} /\ FiltersLeft = {} /\ ItemsLeft = {} /\ LimitLeft = {} /\ OffsetLeft = {}

-----------------------------------------------------------------------------
(* Postgres and the statuses *)

\* A type pg_cast_of does not list and that does not go with text.
Uncast(col) == DataType[col] \notin DOMAIN CastTable /\ col \notin TakesText

\* The type of a parameter that Postgres assigns to a column, and the one it
\* compares with it, which for json is none.
Assigns(col) == IF Uncast(col) THEN {} ELSE {CastOf(col)}
Compares(col) == IF DataType[col] = "json" THEN {} ELSE Assigns(col)

IsRef(p) == p.arg.kind = "ref"

\* What is wrong with the types of the statement as it is prepared: a
\* comparison finds no operator, a column gives what is assigned to it its
\* type, and so do LIMIT and OFFSET, whose parameters are text.
TypeErrors ==
    {"42883" : p \in {p \in In("where") : IsRef(p) /\ p.arg.cast \notin Compares(p.col)}}
    \cup {"42804" : p \in {p \in In("set") \cup In("values") :
                              IsRef(p) /\ p.arg.cast \notin Assigns(p.col)}}
    \cup {"42804" : p \in In("limit") \cup In("offset")}

\* What is wrong with a value as it is bound and cast.
CastErrors(text, cast) == {Refused[p] : p \in DOMAIN Refused \cap {<<cast, text>>}}

ValueErrors ==
    UNION {CastErrors(binds[p.arg.n], p.arg.cast) : p \in {p \in statement.places : IsRef(p)}}

\* A row that is written may have a value too long or too large for a column,
\* or violate a constraint or a policy; one that is deleted may be referenced.
RowErrors ==
    CASE statement.kind = "select" -> {}
      [] statement.kind = "delete" -> {"23503"}
      [] OTHER -> {"22001", "22003", "23502", "23503", "23505", "23514", "42501"}

Named ==
    {p.col : p \in In("where") \cup In("set")} \cup statement.cols
    \cup {o.col : o \in statement.order}

\* The table, or a column the statement names, went or has another type since
\* the metadata that the statement was built from had been read and cached.
DriftErrors ==
    {"42P01"} \cup {"42703" : c \in Named}
    \cup {"42883" : p \in {p \in In("where") : IsRef(p)}}
    \cup {"42804" : p \in {p \in In("set") \cup In("values") : IsRef(p)}}

\* Mutant: SELECT does not list the code of an operator that does not exist,
\* as INSERT does not.
BadRequestAlike(op) ==
    {"22P02", "22007", "42804", "42846"}
    \cup (IF op \in {"insert", "update"} THEN {"23505", "23502", "23503", "23514"} ELSE {})

\* The codes each operation answers with 400.
BadRequest(op) ==
    {"22P02", "22007", "42804", "42846"}
    \cup (IF op = "insert" THEN {} ELSE {"42883", "42703"})
    \cup (IF op \in {"insert", "update"} THEN {"23505", "23502", "23503", "23514"} ELSE {})

StatusOf(op, code) ==
    IF code = "42P01" THEN 404 ELSE IF code \in BadRequest(op) THEN 400 ELSE 500

Fails(codes) ==
    /\ \E code \in codes : raised' = code /\ Reply(StatusOf(request.op, code))
    /\ UNCHANGED <<request, opts, statement, binds>>

\* The transaction around the statement is RowSecurity's.
Execute ==
    /\ pc = "bind" /\ Built
    /\ \/ Fails(DriftErrors)
       \/ IF TypeErrors # {} THEN Fails(TypeErrors)
          ELSE IF ValueErrors # {} THEN Fails(ValueErrors)
          ELSE \/ Reply(200) /\ UNCHANGED <<request, opts, statement, binds, raised>>
               \/ Fails(RowErrors)

Next ==
    \/ Parse \/ Select \/ Insert \/ Update \/ Delete
    \/ SetColumn \/ AddFilter \/ AddItem \/ AddLimit \/ AddOffset
    \/ Execute

Spec == Init /\ [][Next]_vars

-----------------------------------------------------------------------------
(* Properties *)

TypeOK ==
    /\ request.op \in {"list", "insert", "update", "delete"} /\ request.user \in Users \cup {<<>>}
    /\ pc \in {"parse", "build", "bind", "done"}
    /\ \A f \in opts.filters : f.op \in FilterOp /\ f.value \in Texts
    /\ statement.kind \in {"none", "select", "insert", "update", "delete"}
    /\ binds \in Seq(Texts)
    /\ answer \in {0, 200, 400, 404, 500}
    /\ (answer # 0) = (pc = "done")

\* At every turn of every loop each placeholder has a value and each value
\* one placeholder, whatever filters bind nothing, rows leave columns out and
\* clauses come before (query.rs, select.rs, insert.rs, update.rs:
\* binds.len()).
Numbered ==
    LET refs == {p \in statement.places : IsRef(p)}
    IN  /\ {p.arg.n : p \in refs} = DOMAIN binds
        /\ \A p, r \in refs : p.arg.n = r.arg.n => p = r

Sent == pc = "done" /\ statement.kind # "none"

Deref(arg) ==
    IF arg.kind # "ref" THEN arg
    ELSE Text(IF arg.n \in DOMAIN binds THEN binds[arg.n] ELSE <<"no value">>)

\* What a clause says once its values are in their places.
Meant(clause) ==
    {[row |-> p.row, col |-> p.col, op |-> p.op, arg |-> Deref(p.arg)] : p \in In(clause)}

Distance(a, b) == IF a < b THEN b - a ELSE a - b

\* A page clause is there for a number an i64 holds, and holds the number in a
\* range that is nearest to it.  Of a larger number it says nothing: the code
\* drops it, and with it the limit.
Pages(clause, value, range) ==
    /\ In(clause) # {} => value # <<>>
    /\ Parsed(value) # {} => In(clause) # {}
    /\ \A p \in In(clause), n \in Parsed(value) :
          \E m \in range : /\ Deref(p.arg) = Text(<<Decimal[m]>>)
                           /\ \A k \in range : Distance(n, m) <= Distance(n, k)

\* With its values in their places the statement that is executed says what
\* the request says (select.rs, insert.rs, update.rs, delete.rs): all of the
\* filters that are left in the map and no other, limits within their range,
\* each value of a body in its own column and row, a DEFAULT where there is
\* none; and no write is without a filter.  It is silent on an insertion that
\* names no column, which the code makes one row of, however many are sent.
AsAsked ==
    LET s == statement
        q == Kept(request.query)
        rows == request.body.rows
    IN  Sent =>
        /\ s.kind \in {"select", "update", "delete"} =>
              Meant("where") =
                 {[row |-> 0, col |-> k, op |-> OpOf(q[k]), arg |-> Text(ValueOf(q[k]))] :
                     k \in DOMAIN q \ Reserved}
        /\ s.kind \in {"update", "delete"} => In("where") # {}
        /\ s.kind = "select" =>
              /\ s.cols = ToSet(Given(q, "select")) \ {""}
              /\ Pages("limit", Given(q, "limit"), 1..LimitMax)
              /\ Pages("offset", Given(q, "offset"), 0..I64Max)
        /\ s.kind = "update" =>
              Meant("set") = {[row |-> 1, col |-> c, op |-> "", arg |-> rows[1][c]] :
                                 c \in DOMAIN rows[1]}
        /\ s.kind = "insert" /\ s.cols # {} =>
              /\ \A obj \in ToSet(rows) : DOMAIN obj \subseteq s.cols
              /\ {<<p.row, p.col>> : p \in In("values")} = (DOMAIN rows) \X s.cols
              /\ \A p \in In("values") :
                    \/ p.col = "user_id" /\ OwnerForced
                    \/ Deref(p.arg) = IF p.col \in DOMAIN rows[p.row]
                                      THEN rows[p.row][p.col] ELSE Default

\* A user writes rows of its own: every row of an insert, with or without an
\* owner in its object, is the user's, and no update moves a row or its key
\* (insert.rs, update.rs).
OwnerKept ==
    /\ OwnerForced =>
          /\ \A p \in In("values") : p.col = "user_id" => Deref(p.arg) = Text(request.user)
          /\ \A p \in In("set") : p.col # "user_id"
          /\ Sent /\ statement.kind = "insert" =>
                \A j \in DOMAIN request.body.rows :
                   \E p \in In("values") : p.row = j /\ p.col = "user_id"
    /\ \A p \in In("set") : p.col \notin PrimaryKey

\* "Safe fallback: treat unknown types as text" (query.rs:197) is safe in that
\* a value that meets a column of a type without a cast never reaches a row and
\* is answered with 400, as is any that meets another type than its cast's, on
\* whichever table of codes of the four operations; but for a table or a
\* column that has gone.
MistypedRefused ==
    /\ raised \in {"42883", "42804"} => answer = 400
    /\ Sent /\ raised \notin {"42P01", "42703"} =>
          \A p \in statement.places : IsRef(p) /\ p.col \in Column /\ Uncast(p.col) => answer = 400

\* "Anything that is not select, order, limit, or offset is treated as a
\* filter" (query.rs:26).
EveryFilterApplies ==
    Sent /\ statement.kind \in {"select", "update", "delete"} =>
        \A p \in ToSet(request.query) : p.key \notin Reserved =>
            [row |-> 0, col |-> p.key, op |-> OpOf(p.value), arg |-> Text(ValueOf(p.value))]
                \in Meant("where")

\* "We bound everything as text; Postgres will cast when needed."
\* (select.rs:186)
CastsWhenNeeded == raised # "42804"
=============================================================================
