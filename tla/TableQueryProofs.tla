-------------------------- MODULE TableQueryProofs --------------------------
(***************************************************************************)
(* What a statement says, how its values are numbered and what becomes of  *)
(* one that meets a column of another type, for any columns, types,        *)
(* numbers, filters, options and bodies.                                   *)
(***************************************************************************)
EXTENDS TableQuery, WellFoundedInduction, TLAPS

Kinds == {"select", "insert", "update", "delete"}

\* What Init lets a client send, whatever the operation.
Requested ==
    /\ request.op \in {"list", "insert", "update", "delete"}
    /\ request.user \in Texts \cup {<<>>} /\ request.user \in Users \cup {<<>>}
    /\ request.query \in Seq(Pair)
    /\ request.body.rows \in Seq(ToSet(request.body.rows))
    /\ request.body.kind = "object" => Len(request.body.rows) = 1
    /\ \A obj \in ToSet(request.body.rows) : obj \in [DOMAIN obj -> Json]

\* The options are those of the query from the time they are parsed.
Optioned ==
    pc \in {"build", "bind"} \/ statement.kind # "none" =>
        /\ opts = OptionsOf(Kept(request.query))
        /\ \A k \in DOMAIN Kept(request.query) \ Reserved :
              OpOf(Kept(request.query)[k]) \in FilterOp

\* What the builder of a statement has made sure of when it begins it.
Began ==
    /\ statement = [kind |-> statement.kind, cols |-> statement.cols,
                    order |-> statement.order, places |-> statement.places]
    /\ pc \in {"parse", "build"} => statement.kind = "none"
    /\ pc = "bind" => statement.kind \in Kinds
    /\ statement.kind = "none" => statement.places = {} /\ binds = <<>>
    /\ statement.kind = "select" => request.op = "list" /\ statement.cols = opts.select
    /\ statement.kind \in {"insert", "update", "delete"} => request.op = statement.kind
    /\ statement.kind \in {"update", "delete"} => opts.filters # {}
    /\ statement.kind = "insert" => statement.cols = AllCols(request.body.rows)
    /\ statement.kind = "update" =>
          /\ request.body.kind = "object"
          /\ DOMAIN request.body.rows[1] \cap PrimaryKey = {}
          /\ request.user # <<>> => "user_id" \notin DOMAIN request.body.rows[1]

\* A place holds what the request says of it.
Right(p) ==
    \/ /\ p.clause = "where" /\ statement.kind \in {"select", "update", "delete"} /\ p.row = 0
       /\ \E f \in opts.filters : p.col = f.col /\ p.op = f.op /\ Deref(p.arg) = Text(f.value)
    \/ /\ p.clause = "set" /\ statement.kind = "update" /\ p.row = 1 /\ p.op = ""
       /\ p.col \in DOMAIN request.body.rows[1]
       /\ Deref(p.arg) = request.body.rows[1][p.col]
    \/ /\ p.clause = "values" /\ statement.kind = "insert"
       /\ p.row \in DOMAIN request.body.rows /\ p.col \in statement.cols
       /\ Deref(p.arg) = Item(request.body.rows[p.row], p.col)
    \/ /\ p.clause = "limit" /\ statement.kind = "select"
       /\ \E n \in opts.limit : Deref(p.arg) = Text(<<Decimal[n]>>)
    \/ /\ p.clause = "offset" /\ statement.kind = "select"
       /\ \E n \in opts.offset : Deref(p.arg) = Text(<<Decimal[n]>>)

Placed == \A p \in statement.places : Right(p)

\* Nothing is executed before all of it has been built.
Complete == Sent => Built

\* A code is that of a request that is done, and one of the statement.
Blamed ==
    /\ raised # "" => pc = "done"
    /\ raised \in {"42883", "42804"} => answer = 400
    /\ Sent /\ raised \notin {"42P01", "42703"} /\ TypeErrors # {} => answer = 400

IInv ==
    /\ TypeOK /\ Requested /\ Optioned /\ Began
    /\ Numbered /\ Placed /\ Complete /\ Blamed

-----------------------------------------------------------------------------
(* The query and its options *)

\* The order of the naturals is well founded, so a set of them that is bounded
\* has a largest, counted down from the bound.
LEMMA Largest ==
    ASSUME NEW n \in Nat, NEW I \in SUBSET (1..n), I # {}
    PROVE  Max(I) \in I
<1> DEFINE Less == {s \in Nat \X Nat : s[1] < s[2]}
<1> DEFINE T == {n - i : i \in I}
<1>1. IsWellFoundedOn(Less, Nat)
  BY NatLessThanWellFounded, Zenon DEF OpToRel
<1>2. T \subseteq Nat /\ T # {}
  <2>1. \A i \in I : n - i \in Nat
    <3> TAKE i \in I
    <3>1. i \in 1..n
      OBVIOUS
    <3> QED
      BY <3>1
  <2>2. PICK i \in I : TRUE
    OBVIOUS
  <2> QED
    BY <2>1, <2>2
<1>3. PICK t \in T : \A s \in T : <<s, t>> \notin Less
  <2> HIDE DEF Less, T
  <2> QED
    BY <1>1, <1>2, WFMin, Zenon
<1>4. \A s \in T : t <= s
  <2> SUFFICES ASSUME NEW s \in T, s < t PROVE FALSE
    BY <1>2, <1>3
  <2>1. s \in Nat /\ t \in Nat
    BY <1>2
  <2>2. <<s, t>> \in Less
    BY <2>1
  <2> QED
    BY <1>3, <2>2
<1>5. PICK i \in I : t = n - i
  BY <1>3
<1>6. \A j \in I : i >= j
  <2> SUFFICES ASSUME NEW j \in I PROVE i >= j
    OBVIOUS
  <2>1. t <= n - j
    BY <1>4
  <2> QED
    BY <1>5, <2>1
<1> QED
  BY <1>5, <1>6 DEF Max

\* What is kept of a query is a text under each of its keys.
LEMMA KeptTyped ==
    ASSUME NEW query \in Seq(Pair), NEW k \in DOMAIN Kept(query)
    PROVE  Kept(query)[k] \in Texts
<1> DEFINE I == {i \in DOMAIN query : query[i].key = k}
<1>1. PICK i \in DOMAIN query : query[i].key = k
  BY DEF Kept
<1>2. I \in SUBSET (1..Len(query)) /\ I # {} /\ Len(query) \in Nat
  BY <1>1
<1>3. Max(I) \in I
  <2> HIDE DEF I
  <2> QED
    BY <1>2, Largest
<1>4. query[Max(I)] \in Pair
  BY <1>3
<1>5. Kept(query)[k] = query[Max(I)].value
  BY DEF Kept
<1> QED
  BY <1>4, <1>5 DEF Pair

\* A text has a value after its operator.
LEMMA ValueTyped ==
    ASSUME NEW value \in Texts
    PROVE  ValueOf(value) \in Texts
<1>1. CASE Len(value) > 1
  <2> DEFINE rest == Tail(value)
  <2>1. value \in Seq(STRING) /\ value # <<>>
    BY DEF Texts
  <2>2. rest \in Seq(STRING) /\ Len(rest) = Len(value) - 1 /\ Len(value) \in Nat
    BY <2>1
  <2> HIDE DEF rest
  <2>3. rest # <<>>
    BY <1>1, <2>2
  <2>4. rest \in Texts
    BY <2>2, <2>3 DEF Texts
  <2> QED
    BY <1>1, <2>4 DEF ValueOf, rest
<1>2. CASE ~(Len(value) > 1)
  BY <1>2 DEF ValueOf
<1> QED
  BY <1>1, <1>2

\* There is at most one number, and it is an i64.
LEMMA ParsedTyped ==
    ASSUME NEW value
    PROVE  /\ Parsed(value) \subseteq -(I64Max + 1)..I64Max
           /\ \A m, n \in Parsed(value) : m = n
BY TableQueryAssumption DEF Parsed

\* clamp(1, 1000) and max(0): the nearest number in the range.
LEMMA Clamped ==
    ASSUME NEW n \in -(I64Max + 1)..I64Max
    PROVE  /\ AtLeast(1, AtMost(n, LimitMax)) \in 1..LimitMax
           /\ \A k \in 1..LimitMax :
                 Distance(n, AtLeast(1, AtMost(n, LimitMax))) <= Distance(n, k)
           /\ AtLeast(0, n) \in 0..I64Max
           /\ \A k \in 0..I64Max : Distance(n, AtLeast(0, n)) <= Distance(n, k)
BY TableQueryAssumption DEF AtLeast, AtMost, Distance

LEMMA PagesTyped ==
    ASSUME NEW q
    PROVE  LimitOf(q) \subseteq 1..LimitMax /\ OffsetOf(q) \subseteq 0..I64Max
BY ParsedTyped, Clamped DEF LimitOf, OffsetOf

\* The filters of the options are typed, and each has a column of its own.
LEMMA FiltersTyped ==
    ASSUME Requested, NEW q, q = Kept(request.query),
           \A k \in DOMAIN q \ Reserved : OpOf(q[k]) \in FilterOp
    PROVE  /\ \A f \in OptionsOf(q).filters : f.op \in FilterOp /\ f.value \in Texts
           /\ \A f, g \in OptionsOf(q).filters : f.col = g.col => f = g
<1>1. \A k \in DOMAIN q : ValueOf(q[k]) \in Texts
  BY KeptTyped, ValueTyped DEF Requested
<1>2. OptionsOf(q).filters = {FilterOf(q, k) : k \in DOMAIN q \ Reserved}
  BY DEF OptionsOf
<1> QED
  BY <1>1, <1>2 DEF FilterOf

-----------------------------------------------------------------------------
(* The first steps *)

LEMMA InitStep == Init => IInv
<1> SUFFICES ASSUME Init PROVE IInv
  OBVIOUS
<1>1. Requested
  <2>1. ASSUME NEW op \in {"list", "delete"}, NEW f \in Filters, NEW o \in Options,
               request = [op |-> op, user |-> <<>>, query |-> f \o o, body |-> NoBody]
        PROVE  Requested
    <3>1. f \o o \in Seq(Pair)
      BY RequestAssumption
    <3>2. /\ NoBody.rows \in Seq(ToSet(NoBody.rows)) /\ ToSet(NoBody.rows) = {}
          /\ NoBody.kind # "object"
      BY DEF NoBody, ToSet
    <3> QED
      BY <2>1, <3>1, <3>2 DEF Requested
  <2>2. CASE request \in [op: {"update"}, user: Users, query: Filters, body: UpdateBodies]
    BY <2>2, RequestAssumption DEF Requested
  <2>3. CASE request \in [op: {"insert"}, user: Users, query: {<<>>}, body: InsertBodies]
    <3>1. <<>> \in Seq(Pair)
      OBVIOUS
    <3> QED
      BY <2>3, <3>1, RequestAssumption DEF Requested
  <2> QED
    BY <2>1, <2>2, <2>3, Zenon DEF Init
<1>2. /\ pc = "parse" /\ opts = NoOptions /\ statement = NoStatement /\ binds = <<>>
      /\ answer = 0
  BY Zenon DEF Init
<1>3. TypeOK
  BY <1>1, <1>2 DEF Requested, TypeOK, NoOptions, NoStatement
<1>4. Numbered
  BY <1>2 DEF Numbered, NoStatement
<1>5. Optioned /\ Began /\ Placed /\ Complete
  BY <1>2 DEF Optioned, Began, Placed, Complete, Sent, NoStatement, Kinds
<1>6. Blamed
  <2>1. raised = ""
    BY Zenon DEF Init
  <2> QED
    BY <1>2, <2>1 DEF Blamed, Sent
<1> QED
  BY <1>1, <1>3, <1>4, <1>5, <1>6 DEF IInv

\* A step that sends nothing has nobody to blame.
LEMMA Blameless ==
    ASSUME Blamed, pc # "done", UNCHANGED raised, ~Sent'
    PROVE  Blamed'
<1>1. raised' = "" /\ raised' \notin {"42883", "42804"}
  BY DEF Blamed
<1> QED
  BY <1>1 DEF Blamed

\* A refusal is a 400, with nothing built.
LEMMA Refusal ==
    ASSUME IInv, pc \in {"parse", "build"}, Refuse
    PROVE  IInv'
<1>1. statement.kind = "none"
  BY DEF IInv, Began
<1>2. /\ pc' = "done" /\ answer' = 400
      /\ UNCHANGED <<request, opts, statement, binds, raised>>
  BY DEF Refuse, Reply
<1>3. TypeOK' /\ Requested' /\ Numbered' /\ ~Sent'
  BY <1>1, <1>2 DEF IInv, TypeOK, Requested, Numbered, Sent
<1>4. Optioned' /\ Began' /\ Placed' /\ Complete'
  BY <1>1, <1>2 DEF IInv, Optioned, Began, Placed, Complete, Sent
<1>5. Blamed'
  BY <1>2, <1>3, Blameless DEF IInv
<1> QED
  BY <1>3, <1>4, <1>5 DEF IInv

LEMMA ParseStep == ASSUME IInv, Parse PROVE IInv'
<1> DEFINE q == Kept(request.query)
<1>1. pc = "parse" /\ statement.kind = "none" /\ statement.places = {}
  BY DEF Parse, IInv, Began
<1>2. CASE Refuse
  BY <1>1, <1>2, Refusal
<1>3. CASE /\ ~\E k \in DOMAIN q \ Reserved : OpOf(q[k]) \notin FilterOp
           /\ opts' = OptionsOf(q) /\ pc' = "build"
           /\ UNCHANGED <<request, statement, binds, raised, answer>>
  <2>1. \A f \in OptionsOf(q).filters : f.op \in FilterOp /\ f.value \in Texts
    BY <1>3, FiltersTyped DEF IInv
  <2>2. TypeOK'
    BY <1>1, <1>3, <2>1 DEF IInv, TypeOK
  <2>3. Requested' /\ Numbered' /\ ~Sent'
    BY <1>3 DEF IInv, Requested, Numbered, Sent
  <2>4. Optioned'
    BY <1>3 DEF Optioned
  <2>5. Began' /\ Placed' /\ Complete'
    BY <1>1, <1>3 DEF IInv, Began, Placed, Complete, Sent
  <2>6. Blamed'
    BY <1>1, <1>3, <2>3, Blameless DEF IInv
  <2> QED
    BY <2>2, <2>3, <2>4, <2>5, <2>6 DEF IInv
<1> QED
  BY <1>2, <1>3 DEF Parse

\* A statement begins without a place, and with what its builder has checked.
LEMMA Begun ==
    ASSUME IInv, pc = "build", NEW kind \in Kinds, NEW cols, NEW order,
           Begin(kind, cols, order),
           kind = "select" => request.op = "list" /\ cols = opts.select,
           kind # "select" => request.op = kind,
           kind \in {"update", "delete"} => opts.filters # {},
           kind = "insert" => cols = AllCols(request.body.rows),
           kind = "update" =>
              /\ request.body.kind = "object"
              /\ DOMAIN request.body.rows[1] \cap PrimaryKey = {}
              /\ request.user # <<>> => "user_id" \notin DOMAIN request.body.rows[1]
    PROVE  IInv'
<1>1. statement' = [kind |-> kind, cols |-> cols, order |-> order, places |-> {}]
  BY DEF Begin, NoStatement
<1>2. pc' = "bind" /\ UNCHANGED <<request, opts, binds, raised, answer>>
  BY DEF Begin
<1>3. statement.places = {} /\ binds = <<>>
  BY DEF IInv, Began
<1>4. TypeOK' /\ Requested' /\ ~Sent'
  BY <1>1, <1>2 DEF IInv, TypeOK, Requested, Sent, Kinds
<1>5. Numbered'
  BY <1>1, <1>2, <1>3 DEF Numbered
<1>6. Optioned' /\ Placed' /\ Complete'
  BY <1>1, <1>2 DEF IInv, Optioned, Placed, Complete, Sent
<1>7. Began'
  BY <1>1, <1>2 DEF Began, AllCols, OwnerForced, Kinds
<1>8. Blamed'
  BY <1>2, <1>4, Blameless DEF IInv
<1> QED
  BY <1>4, <1>5, <1>6, <1>7, <1>8 DEF IInv

\* The four builders.
LEMMA BuilderStep ==
    ASSUME IInv, Select \/ Delete \/ Update \/ Insert
    PROVE  IInv'
<1>1. CASE Select
  BY <1>1, Refusal, Begun DEF Select, Building, Kinds
<1>2. CASE Delete
  BY <1>2, Refusal, Begun DEF Delete, Building, Kinds
<1>3. CASE Update
  BY <1>3, Refusal, Begun DEF Update, Building, Kinds
<1>4. CASE Insert
  BY <1>4, Refusal, Begun DEF Insert, Building, Kinds
<1> QED
  BY <1>1, <1>2, <1>3, <1>4

-----------------------------------------------------------------------------
(* The turns of the loops *)

\* The next number is that of the value that is appended.
LEMMA Appended ==
    ASSUME NEW S, NEW s \in Seq(S), NEW e \in S
    PROVE  /\ Append(s, e) \in Seq(S)
           /\ DOMAIN Append(s, e) = DOMAIN s \cup {Len(s) + 1}
           /\ Len(s) + 1 \notin DOMAIN s
           /\ Append(s, e)[Len(s) + 1] = e
           /\ \A n \in DOMAIN s : Append(s, e)[n] = s[n]
<1>1. /\ Append(s, e) \in Seq(S) /\ Len(s) \in Nat /\ DOMAIN s = 1..Len(s)
      /\ Len(Append(s, e)) = Len(s) + 1
      /\ \A n \in 1..Len(s) : Append(s, e)[n] = s[n]
      /\ Append(s, e)[Len(s) + 1] = e
  OBVIOUS
<1>2. DOMAIN Append(s, e) = 1..Len(s) + 1
  BY <1>1
<1> QED
  BY <1>1, <1>2

\* A value of a body is no reference.
LEMMA Items ==
    ASSUME NEW item \in Json \cup {Default}
    PROVE  /\ item.kind # "ref"
           /\ item.kind = "text" => item.text \in Texts /\ item = Text(item.text)
<1>1. CASE item \in {Null, Default}
  BY <1>1 DEF Null, Default
<1>2. CASE item \in [kind: {"text"}, text: Texts]
  BY <1>2 DEF Text
<1> QED
  BY <1>1, <1>2 DEF Json

\* A place that is added leaves what the others hold, and its number is the
\* next one.
LEMMA Filled ==
    ASSUME IInv, pc = "bind", NEW p,
           UNCHANGED <<request, pc, opts, raised, answer>>,
           statement' = [statement EXCEPT !.places = @ \cup {p}],
           \/ ~IsRef(p) /\ binds' = binds
           \/ /\ IsRef(p) /\ p.arg.n = Len(binds) + 1
              /\ \E text \in Texts : binds' = Append(binds, text),
           Right(p)'
    PROVE  IInv'
<1>1. statement' = [kind |-> statement.kind, cols |-> statement.cols,
                    order |-> statement.order, places |-> statement.places \cup {p}]
  BY DEF IInv, Began
<1>2. binds \in Seq(Texts) /\ statement.kind \in Kinds
  BY DEF IInv, TypeOK, Began
<1>3. /\ binds' \in Seq(Texts)
      /\ DOMAIN binds' = DOMAIN binds \cup (IF IsRef(p) THEN {p.arg.n} ELSE {})
      /\ IsRef(p) => p.arg.n \notin DOMAIN binds
      /\ \A n \in DOMAIN binds : binds'[n] = binds[n]
  <2>1. CASE ~IsRef(p) /\ binds' = binds
    BY <1>2, <2>1
  <2>2. ASSUME IsRef(p), p.arg.n = Len(binds) + 1, NEW text \in Texts,
               binds' = Append(binds, text)
        PROVE  /\ binds' \in Seq(Texts)
               /\ DOMAIN binds' = DOMAIN binds \cup {p.arg.n}
               /\ p.arg.n \notin DOMAIN binds
               /\ \A n \in DOMAIN binds : binds'[n] = binds[n]
    BY <1>2, <2>2, Appended
  <2> QED
    BY <2>1, <2>2
<1>4. TypeOK' /\ Requested' /\ ~Sent'
  BY <1>1, <1>3 DEF IInv, TypeOK, Requested, Sent
<1>5. Numbered'
  <2> DEFINE refs == {r \in statement.places : IsRef(r)}
  <2>1. /\ {r.arg.n : r \in refs} = DOMAIN binds
        /\ \A r, s \in refs : r.arg.n = s.arg.n => r = s
    BY DEF IInv, Numbered
  <2>2. {r \in statement'.places : IsRef(r)} = refs \cup (IF IsRef(p) THEN {p} ELSE {})
    BY <1>1
  <2> QED
    BY <1>3, <2>1, <2>2 DEF Numbered, IsRef
<1>6. ASSUME NEW r \in statement.places PROVE Right(r)'
  <2>1. Right(r)
    BY DEF IInv, Placed
  <2>2. IsRef(r) => r.arg.n \in DOMAIN binds
    BY DEF IInv, Numbered
  <2>3. Deref(r.arg)' = Deref(r.arg)
    BY <1>3, <2>2 DEF Deref, IsRef
  <2>4. /\ statement'.kind = statement.kind /\ statement'.cols = statement.cols
        /\ request' = request /\ opts' = opts
    BY <1>1
  <2>5. Item(request.body.rows[r.row], r.col)' = Item(request.body.rows[r.row], r.col)
    BY <2>4 DEF Item, OwnerForced
  <2> QED
    BY <2>1, <2>3, <2>4, <2>5 DEF Right
<1>7. Placed'
  BY <1>1, <1>6 DEF Placed
<1>8. Optioned' /\ Complete'
  BY <1>1 DEF IInv, Optioned, Complete, Sent
<1>9. Began'
  BY <1>1, <1>2 DEF IInv, Began, AllCols, OwnerForced, Kinds
<1>10. Blamed'
  BY <1>4, Blameless DEF IInv
<1> QED
  BY <1>4, <1>5, <1>7, <1>8, <1>9, <1>10 DEF IInv

\* What Bind adds is a reference to its text.
LEMMA Bound ==
    ASSUME IInv, pc = "bind", UNCHANGED <<request, pc, opts, raised, answer>>,
           NEW clause, NEW row, NEW col, NEW op, NEW text \in Texts, NEW cast,
           Bind(clause, row, col, op, text, cast),
           \A p : /\ p.clause = clause /\ p.row = row /\ p.col = col /\ p.op = op
                  /\ Deref(p.arg)' = Text(text)
                  => Right(p)'
    PROVE  IInv'
<1>1. PICK n : n = Len(binds) + 1
  OBVIOUS
<1> DEFINE p == [clause |-> clause, row |-> row, col |-> col, op |-> op, arg |-> Ref(n, cast)]
<1>2. /\ statement' = [statement EXCEPT !.places = @ \cup {p}]
      /\ binds' = Append(binds, text)
  BY <1>1 DEF Bind, Write
<1>3. p.arg.kind = "ref" /\ p.arg.n = n
  BY DEF Ref
<1>4. n \in DOMAIN binds' /\ binds'[n] = text
  <2>1. binds \in Seq(Texts)
    BY DEF IInv, TypeOK
  <2> QED
    BY <1>1, <1>2, <2>1, Appended
<1>5. Deref(p.arg)' = Text(text)
  <2> HIDE DEF p
  <2> QED
    BY <1>3, <1>4 DEF Deref
<1>6. Right(p)'
  BY <1>5
<1> HIDE DEF p
<1> QED
  BY <1>1, <1>2, <1>3, <1>6, Filled DEF IsRef

\* What Write adds stands in the statement.
LEMMA Written ==
    ASSUME IInv, pc = "bind", UNCHANGED <<request, pc, opts, raised, answer, binds>>,
           NEW clause, NEW row, NEW col, NEW op, NEW arg, arg.kind # "ref",
           Write(clause, row, col, op, arg),
           \A p : /\ p.clause = clause /\ p.row = row /\ p.col = col /\ p.op = op
                  /\ Deref(p.arg)' = arg
                  => Right(p)'
    PROVE  IInv'
<1> DEFINE p == [clause |-> clause, row |-> row, col |-> col, op |-> op, arg |-> arg]
<1>1. statement' = [statement EXCEPT !.places = @ \cup {p}]
  BY DEF Write
<1>2. ~IsRef(p)
  BY DEF IsRef
<1>3. Deref(p.arg)' = arg
  BY DEF Deref
<1>4. Right(p)'
  BY <1>3
<1> HIDE DEF p
<1> QED
  BY <1>1, <1>2, <1>4, Filled

\* Either, for a value of a body.
LEMMA Inserted ==
    ASSUME IInv, pc = "bind", UNCHANGED <<request, pc, opts, raised, answer>>,
           NEW clause, NEW row, NEW col, NEW item \in Json \cup {Default},
           Put(clause, row, col, item),
           \A p : /\ p.clause = clause /\ p.row = row /\ p.col = col /\ p.op = ""
                  /\ Deref(p.arg)' = item
                  => Right(p)'
    PROVE  IInv'
<1>1. CASE item.kind = "text"
  <2>1. item = Text(item.text) /\ item.text \in Texts
    BY <1>1, Items
  <2>2. Bind(clause, row, col, "", item.text, CastOf(col))
    BY <1>1 DEF Put
  <2> QED
    BY <2>1, <2>2, Bound
<1>2. CASE item.kind # "text"
  <2>1. item.kind # "ref"
    BY Items
  <2>2. Write(clause, row, col, "", item) /\ UNCHANGED binds
    BY <1>2 DEF Put
  <2> QED
    BY <2>1, <2>2, Written
<1> QED
  BY <1>1, <1>2

\* A turn changes the places of the statement only.
LEMMA OnlyPlaces ==
    ASSUME IInv, NEW places, statement' = [statement EXCEPT !.places = places]
    PROVE  statement'.kind = statement.kind /\ statement'.cols = statement.cols
BY DEF IInv, Began

LEMMA SetColumnStep == ASSUME IInv, SetColumn PROVE IInv'
<1> DEFINE obj == request.body.rows[1]
<1>1. PICK c \in SetLeft : Put("set", 1, c, obj[c])
  BY DEF SetColumn
<1>2. pc = "bind" /\ UNCHANGED <<request, pc, opts, raised, answer>>
  BY DEF SetColumn
<1>3. statement.kind = "update" /\ c \in DOMAIN obj
  BY <1>1 DEF SetLeft
<1>4. obj[c] \in Json \cup {Default}
  <2>1. obj \in ToSet(request.body.rows)
    <3>1. request.body.kind = "object"
      BY <1>3 DEF IInv, Began
    <3>2. 1 \in DOMAIN request.body.rows
      BY <3>1 DEF IInv, Requested
    <3> QED
      BY <3>2 DEF ToSet
  <2>2. obj \in [DOMAIN obj -> Json]
    BY <2>1 DEF IInv, Requested
  <2> QED
    BY <1>3, <2>2
<1>5. statement'.kind = "update"
  BY <1>1, <1>3, OnlyPlaces DEF Put, Bind, Write
<1>6. ASSUME NEW p, p.clause = "set", p.row = 1, p.col = c, p.op = "", Deref(p.arg)' = obj[c]
      PROVE  Right(p)'
  BY <1>2, <1>3, <1>5, <1>6 DEF Right
<1> HIDE DEF obj
<1> QED
  BY <1>1, <1>2, <1>4, <1>6, Inserted

LEMMA AddFilterStep == ASSUME IInv, AddFilter PROVE IInv'
<1>1. PICK f \in FiltersLeft :
          IF f.op = "is"
          THEN Write("where", 0, f.col, f.op, Text(f.value)) /\ UNCHANGED binds
          ELSE Bind("where", 0, f.col, f.op, f.value, CastOf(f.col))
  BY DEF AddFilter
<1>2. pc = "bind" /\ UNCHANGED <<request, pc, opts, raised, answer>>
  BY DEF AddFilter
<1>3. f \in opts.filters /\ statement.kind \in {"select", "update", "delete"}
  BY <1>1 DEF FiltersLeft
<1>4. f.value \in Texts
  BY <1>3 DEF IInv, TypeOK
<1>5. statement'.kind = statement.kind
  BY <1>1, OnlyPlaces DEF Bind, Write
<1>6. ASSUME NEW p, p.clause = "where", p.row = 0, p.col = f.col, p.op = f.op,
             Deref(p.arg)' = Text(f.value)
      PROVE  Right(p)'
  BY <1>2, <1>3, <1>5, <1>6 DEF Right
<1>7. CASE f.op = "is"
  <2>1. Text(f.value).kind # "ref"
    BY DEF Text
  <2> QED
    BY <1>1, <1>2, <1>6, <1>7, <2>1, Written
<1>8. CASE f.op # "is"
  BY <1>1, <1>2, <1>4, <1>6, <1>8, Bound
<1> QED
  BY <1>7, <1>8

\* A tuple holds what an object may hold, a DEFAULT, or the user.
LEMMA ItemTyped ==
    ASSUME Requested, NEW obj \in ToSet(request.body.rows), NEW c
    PROVE  Item(obj, c) \in Json \cup {Default}
<1>1. obj \in [DOMAIN obj -> Json]
  BY DEF Requested
<1>2. CASE c = "user_id" /\ OwnerForced
  <2>1. request.user \in Texts
    BY <1>2 DEF OwnerForced, Requested
  <2> QED
    BY <1>2, <2>1 DEF Item, Json, Text
<1>3. CASE ~(c = "user_id" /\ OwnerForced)
  BY <1>1, <1>3 DEF Item
<1> QED
  BY <1>2, <1>3

LEMMA AddItemStep == ASSUME IInv, AddItem PROVE IInv'
<1> DEFINE rows == request.body.rows
<1>1. PICK a \in ItemsLeft : Put("values", a[1], a[2], Item(rows[a[1]], a[2]))
  BY DEF AddItem
<1>2. pc = "bind" /\ UNCHANGED <<request, pc, opts, raised, answer>>
  BY DEF AddItem
<1>3. statement.kind = "insert" /\ a[1] \in DOMAIN rows /\ a[2] \in statement.cols
  BY <1>1 DEF ItemsLeft
<1>4. Item(rows[a[1]], a[2]) \in Json \cup {Default}
  <2>1. rows[a[1]] \in ToSet(rows)
    BY <1>3 DEF ToSet
  <2> QED
    BY <2>1, ItemTyped DEF IInv
<1>5. statement'.kind = statement.kind /\ statement'.cols = statement.cols
  BY <1>1, OnlyPlaces DEF Put, Bind, Write
<1>6. ASSUME NEW p, p.clause = "values", p.row = a[1], p.col = a[2], p.op = "",
             Deref(p.arg)' = Item(rows[a[1]], a[2])
      PROVE  Right(p)'
  <2>1. Item(rows[a[1]], a[2])' = Item(rows[a[1]], a[2])
    BY <1>2 DEF Item, OwnerForced
  <2> QED
    BY <1>2, <1>3, <1>5, <1>6, <2>1 DEF Right
<1> HIDE DEF rows
<1> QED
  BY <1>1, <1>2, <1>4, <1>6, Inserted

\* LIMIT and OFFSET have the text of their number.
LEMMA DecimalTyped ==
    ASSUME IInv, statement.kind = "select", NEW n \in opts.limit \cup opts.offset
    PROVE  <<Decimal[n]>> \in Texts
<1>1. opts = OptionsOf(Kept(request.query))
  BY DEF IInv, Optioned
<1>2. n \in 0..I64Max
  BY <1>1, PagesTyped, TableQueryAssumption DEF OptionsOf
<1>3. Decimal[n] \in STRING
  BY <1>2, TableQueryAssumption
<1> QED
  BY <1>3 DEF Texts

LEMMA AddLimitStep == ASSUME IInv, AddLimit PROVE IInv'
<1>1. PICK n \in LimitLeft : Bind("limit", 0, "", "", <<Decimal[n]>>, "none")
  BY DEF AddLimit
<1>2. pc = "bind" /\ UNCHANGED <<request, pc, opts, raised, answer>>
  BY DEF AddLimit
<1>3. n \in opts.limit /\ statement.kind = "select"
  BY <1>1 DEF LimitLeft
<1>4. <<Decimal[n]>> \in Texts
  BY <1>3, DecimalTyped
<1>5. statement'.kind = statement.kind
  BY <1>1, OnlyPlaces DEF Bind, Write
<1>6. ASSUME NEW p, p.clause = "limit", Deref(p.arg)' = Text(<<Decimal[n]>>)
      PROVE  Right(p)'
  BY <1>2, <1>3, <1>5, <1>6 DEF Right
<1> QED
  BY <1>1, <1>2, <1>4, <1>6, Bound

LEMMA AddOffsetStep == ASSUME IInv, AddOffset PROVE IInv'
<1>1. PICK n \in OffsetLeft : Bind("offset", 0, "", "", <<Decimal[n]>>, "none")
  BY DEF AddOffset
<1>2. pc = "bind" /\ UNCHANGED <<request, pc, opts, raised, answer>>
  BY DEF AddOffset
<1>3. n \in opts.offset /\ statement.kind = "select"
  BY <1>1 DEF OffsetLeft
<1>4. <<Decimal[n]>> \in Texts
  BY <1>3, DecimalTyped
<1>5. statement'.kind = statement.kind
  BY <1>1, OnlyPlaces DEF Bind, Write
<1>6. ASSUME NEW p, p.clause = "offset", Deref(p.arg)' = Text(<<Decimal[n]>>)
      PROVE  Right(p)'
  BY <1>2, <1>3, <1>5, <1>6 DEF Right
<1> QED
  BY <1>1, <1>2, <1>4, <1>6, Bound

-----------------------------------------------------------------------------
(* The answer *)

\* Only a WHERE clause compares.
LEMMA Compared ==
    ASSUME Placed, "42883" \in DriftErrors \cup TypeErrors \cup ValueErrors \cup RowErrors
    PROVE  statement.kind \in {"select", "update", "delete"}
<1>1. "42883" \notin RowErrors
  BY DEF RowErrors
<1>2. CASE "42883" \in ValueErrors
  <2>1. PICK p \in statement.places : "42883" \in CastErrors(binds[p.arg.n], p.arg.cast)
    BY <1>2 DEF ValueErrors
  <2>2. PICK r \in DOMAIN Refused : Refused[r] = "42883"
    BY <2>1 DEF CastErrors
  <2>3. "42883" \in CastCodes(r[1])
    BY <2>2, TableQueryAssumption
  <2> QED
    BY <2>3 DEF CastCodes
<1>3. CASE "42883" \in DriftErrors \cup TypeErrors
  <2>1. \E p \in In("where") : TRUE
    BY <1>3 DEF DriftErrors, TypeErrors
  <2> QED
    BY <2>1 DEF In, Placed, Right
<1> QED
  BY <1>1, <1>2, <1>3

\* Each operation lists the code of what it does to a value of another type:
\* an insertion, which has no filter, need not list the missing operator.
LEMMA Listed ==
    ASSUME IInv, statement.kind \in Kinds, NEW code \in {"42883", "42804"},
           code \in DriftErrors \cup TypeErrors \cup ValueErrors \cup RowErrors
    PROVE  StatusOf(request.op, code) = 400
<1>1. code = "42883" => statement.kind # "insert"
  BY Compared DEF IInv
<1>2. code = "42883" => request.op # "insert"
  BY <1>1 DEF IInv, Began, Kinds
<1> QED
  BY <1>2 DEF StatusOf, BadRequest

\* A step that does not build leaves the places and what they hold.
LEMMA Stays ==
    ASSUME Requested, Numbered, Placed, UNCHANGED <<request, opts, statement, binds>>
    PROVE  Requested' /\ Numbered' /\ Placed' /\ Built' = Built
<1>1. ASSUME NEW p \in statement.places PROVE Right(p)'
  <2>1. Right(p) /\ Deref(p.arg)' = Deref(p.arg)
    BY DEF Placed, Deref
  <2>2. Item(request.body.rows[p.row], p.col)' = Item(request.body.rows[p.row], p.col)
    BY DEF Item, OwnerForced
  <2> QED
    BY <2>1, <2>2 DEF Right
<1>2. Placed'
  BY <1>1 DEF Placed
<1>3. Requested' /\ Numbered'
  BY DEF Requested, Numbered
<1>4. Built' = Built
  BY DEF Built, SetLeft, FiltersLeft, ItemsLeft, LimitLeft, OffsetLeft, In
<1> QED
  BY <1>2, <1>3, <1>4

\* What is wrong with the types is a matter of the statement alone.
LEMMA SameErrors == UNCHANGED statement => TypeErrors' = TypeErrors
BY DEF TypeErrors, In, IsRef, Compares, Assigns, Uncast, CastOf

\* The one step that sends.
LEMMA ExecuteStep == ASSUME IInv, Execute PROVE IInv'
<1>1. pc = "bind" /\ statement.kind \in Kinds /\ Built
  BY DEF Execute, IInv, Began
<1>2. ASSUME NEW status \in {200, 400, 404, 500}, Reply(status),
             UNCHANGED <<request, opts, statement, binds>>, Blamed'
      PROVE  IInv'
  <2>1. pc' = "done" /\ answer' = status
    BY <1>2 DEF Reply
  <2>2. TypeOK' /\ Optioned' /\ Began'
    BY <1>1, <1>2, <2>1 DEF IInv, TypeOK, Optioned, Began, Kinds, AllCols, OwnerForced
  <2>3. Requested' /\ Numbered' /\ Placed' /\ Built'
    BY <1>1, <1>2, Stays DEF IInv
  <2>4. Complete'
    BY <2>3 DEF Complete
  <2> QED
    BY <1>2, <2>2, <2>3, <2>4 DEF IInv
<1>3. ASSUME NEW codes, Fails(codes),
             codes \subseteq DriftErrors \cup TypeErrors \cup ValueErrors \cup RowErrors,
             TypeErrors # {} => codes \subseteq DriftErrors \cup TypeErrors
      PROVE  IInv'
  <2>1. PICK code \in codes : raised' = code /\ Reply(StatusOf(request.op, code))
    BY <1>3 DEF Fails
  <2>2. code \in {"42883", "42804"} => StatusOf(request.op, code) = 400
    BY <1>1, <1>3, Listed
  <2>3. /\ UNCHANGED <<request, opts, statement, binds>>
        /\ pc' = "done" /\ answer' = StatusOf(request.op, code)
    BY <1>3, <2>1 DEF Fails, Reply
  <2>4. TypeErrors' = TypeErrors
    BY <2>3, SameErrors
  <2>5. Blamed'
    <3>1. /\ raised' = code /\ pc' = "done"
          /\ raised' \in {"42883", "42804"} => answer' = 400
      BY <2>1, <2>2, <2>3
    <3>2. TypeErrors # {} /\ raised' \notin {"42P01", "42703"} => answer' = 400
      <4> SUFFICES ASSUME TypeErrors # {}, code \notin {"42P01", "42703"}
                   PROVE  code \in {"42883", "42804"}
        BY <3>1
      <4>1. code \in DriftErrors \/ code \in TypeErrors
        BY <1>3
      <4>2. ASSUME code \in DriftErrors PROVE code \in {"42883", "42804"}
        BY <4>2 DEF DriftErrors
      <4>3. ASSUME code \in TypeErrors PROVE code \in {"42883", "42804"}
        BY <4>3 DEF TypeErrors
      <4> QED
        BY <4>1, <4>2, <4>3
    <3> QED
      BY <2>4, <3>1, <3>2 DEF Blamed
  <2>6. StatusOf(request.op, code) \in {200, 400, 404, 500}
    BY DEF StatusOf
  <2> QED
    BY <1>2, <2>1, <2>3, <2>5, <2>6
<1>4. ASSUME Reply(200), TypeErrors = {}, UNCHANGED <<request, opts, statement, binds, raised>>
      PROVE  IInv'
  <2>1. raised = "" /\ pc' = "done" /\ TypeErrors' = {}
    BY <1>1, <1>4, SameErrors DEF IInv, Blamed, Reply
  <2>2. Blamed'
    BY <1>4, <2>1 DEF Blamed
  <2> QED
    BY <1>2, <1>4, <2>2
<1>5. CASE Fails(DriftErrors)
  BY <1>3, <1>5
<1>6. CASE TypeErrors # {} /\ Fails(TypeErrors)
  BY <1>3, <1>6
<1>7. CASE TypeErrors = {} /\ (Fails(ValueErrors) \/ Fails(RowErrors))
  BY <1>3, <1>7
<1> QED
  BY <1>4, <1>5, <1>6, <1>7 DEF Execute

LEMMA NextStep == IInv /\ [Next]_vars => IInv'
<1> SUFFICES ASSUME IInv, [Next]_vars PROVE IInv'
  OBVIOUS
<1>1. CASE UNCHANGED vars
  <2>1. Requested' /\ Numbered' /\ Placed' /\ Built' = Built
    BY <1>1, Stays DEF vars, IInv
  <2>2. TypeOK' /\ Optioned' /\ Began'
    BY <1>1 DEF vars, IInv, TypeOK, Optioned, Began, AllCols, OwnerForced
  <2>3. Complete'
    BY <1>1, <2>1 DEF vars, IInv, Complete, Sent
  <2>4. Blamed'
    <3>1. TypeErrors' = TypeErrors /\ Sent' = Sent
      BY <1>1, SameErrors DEF vars, Sent
    <3> QED
      BY <1>1, <3>1 DEF vars, IInv, Blamed
  <2> QED
    BY <2>1, <2>2, <2>3, <2>4 DEF IInv
<1> QED
  BY <1>1, ParseStep, BuilderStep, SetColumnStep, AddFilterStep, AddItemStep, AddLimitStep,
     AddOffsetStep, ExecuteStep DEF Next

-----------------------------------------------------------------------------
(* What the invariant says of a statement that is executed *)

\* All of the filters and no other: each place has a filter, and each filter
\* a place, which can only be its own.
LEMMA WhereAsAsked ==
    ASSUME IInv, Sent, statement.kind \in {"select", "update", "delete"},
           NEW q, q = Kept(request.query)
    PROVE  /\ Meant("where") =
                 {[row |-> 0, col |-> k, op |-> OpOf(q[k]), arg |-> Text(ValueOf(q[k]))] :
                     k \in DOMAIN q \ Reserved}
           /\ opts.filters # {} => In("where") # {}
<1> DEFINE Asked(k) == [row |-> 0, col |-> k, op |-> OpOf(q[k]), arg |-> Text(ValueOf(q[k]))]
<1> DEFINE Said(p) == [row |-> p.row, col |-> p.col, op |-> p.op, arg |-> Deref(p.arg)]
<1>1. opts = OptionsOf(q) /\ \A k \in DOMAIN q \ Reserved : OpOf(q[k]) \in FilterOp
  BY DEF IInv, Optioned, Sent
<1>2. opts.filters = {FilterOf(q, k) : k \in DOMAIN q \ Reserved}
  BY <1>1 DEF OptionsOf
<1>3. FiltersLeft = {}
  BY DEF IInv, Complete, Built
<1>4. \A f \in opts.filters : \E p \in In("where") : p.col = f.col
  BY <1>3 DEF FiltersLeft
<1>5. ASSUME NEW p \in In("where")
      PROVE  \E k \in DOMAIN q \ Reserved : p.col = k /\ Said(p) = Asked(k)
  <2>1. Right(p) /\ p.clause = "where"
    BY DEF IInv, Placed, In
  <2>2. PICK k \in DOMAIN q \ Reserved :
            /\ p.row = 0 /\ p.col = k /\ p.op = OpOf(q[k])
            /\ Deref(p.arg) = Text(ValueOf(q[k]))
    BY <1>2, <2>1 DEF Right, FilterOf
  <2> QED
    BY <2>2
<1>6. ASSUME NEW k \in DOMAIN q \ Reserved PROVE \E p \in In("where") : Said(p) = Asked(k)
  <2>1. FilterOf(q, k) \in opts.filters /\ FilterOf(q, k).col = k
    BY <1>2 DEF FilterOf
  <2>2. PICK p \in In("where") : p.col = k
    BY <1>4, <2>1
  <2> QED
    BY <1>5, <2>2
<1> HIDE DEF Asked, Said
<1>7. {Said(p) : p \in In("where")} = {Asked(k) : k \in DOMAIN q \ Reserved}
  BY <1>5, <1>6
<1> QED
  BY <1>4, <1>7 DEF Meant, Said, Asked

\* The clamped number, if there is one.
LEMMA PagesAsAsked ==
    ASSUME IInv, Sent, statement.kind = "select", NEW q, q = Kept(request.query)
    PROVE  /\ Pages("limit", Given(q, "limit"), 1..LimitMax)
           /\ Pages("offset", Given(q, "offset"), 0..I64Max)
<1>1. opts = OptionsOf(q) /\ LimitLeft = {} /\ OffsetLeft = {}
  BY DEF IInv, Optioned, Sent, Complete, Built
<1>2. opts.limit = LimitOf(q) /\ opts.offset = OffsetOf(q)
  BY <1>1 DEF OptionsOf
<1>3. Pages("limit", Given(q, "limit"), 1..LimitMax)
  <2> DEFINE value == Given(q, "limit")
  <2> DEFINE Clamp(n) == AtLeast(1, AtMost(n, LimitMax))
  <2>1. \A p \in In("limit") : \E n \in Parsed(value) : Deref(p.arg) = Text(<<Decimal[Clamp(n)]>>)
    BY <1>2 DEF IInv, Placed, Right, In, LimitOf
  <2>2. In("limit") = {} => Parsed(value) = {}
    BY <1>1, <1>2 DEF LimitLeft, LimitOf
  <2>3. \A m, n \in Parsed(value) : m = n
    BY ParsedTyped
  <2>4. \A n \in Parsed(value) : /\ Clamp(n) \in 1..LimitMax
                               /\ \A k \in 1..LimitMax : Distance(n, Clamp(n)) <= Distance(n, k)
    BY ParsedTyped, Clamped
  <2> HIDE DEF value, Clamp
  <2>5. Parsed(value) # {} => value # <<>>
    BY DEF Parsed
  <2>6. Pages("limit", value, 1..LimitMax)
    BY <2>1, <2>2, <2>3, <2>4, <2>5 DEF Pages
  <2> QED
    BY <2>6 DEF value
<1>4. Pages("offset", Given(q, "offset"), 0..I64Max)
  <2> DEFINE value == Given(q, "offset")
  <2> DEFINE Clamp(n) == AtLeast(0, n)
  <2>1. \A p \in In("offset") : \E n \in Parsed(value) : Deref(p.arg) = Text(<<Decimal[Clamp(n)]>>)
    BY <1>2 DEF IInv, Placed, Right, In, OffsetOf
  <2>2. In("offset") = {} => Parsed(value) = {}
    BY <1>1, <1>2 DEF OffsetLeft, OffsetOf
  <2>3. \A m, n \in Parsed(value) : m = n
    BY ParsedTyped
  <2>4. \A n \in Parsed(value) : /\ Clamp(n) \in 0..I64Max
                               /\ \A k \in 0..I64Max : Distance(n, Clamp(n)) <= Distance(n, k)
    BY ParsedTyped, Clamped
  <2> HIDE DEF value, Clamp
  <2>5. Parsed(value) # {} => value # <<>>
    BY DEF Parsed
  <2>6. Pages("offset", value, 0..I64Max)
    BY <2>1, <2>2, <2>3, <2>4, <2>5 DEF Pages
  <2> QED
    BY <2>6 DEF value
<1> QED
  BY <1>3, <1>4

\* Each column of the object and no other.
LEMMA SetAsAsked ==
    ASSUME IInv, Sent, statement.kind = "update", NEW obj, obj = request.body.rows[1]
    PROVE  Meant("set") = {[row |-> 1, col |-> c, op |-> "", arg |-> obj[c]] : c \in DOMAIN obj}
<1> DEFINE Asked(c) == [row |-> 1, col |-> c, op |-> "", arg |-> obj[c]]
<1> DEFINE Said(p) == [row |-> p.row, col |-> p.col, op |-> p.op, arg |-> Deref(p.arg)]
<1>1. SetLeft = {}
  BY DEF IInv, Complete, Built
<1>2. \A c \in DOMAIN obj : \E p \in In("set") : p.col = c
  BY <1>1 DEF SetLeft
<1>3. \A p \in In("set") : p.col \in DOMAIN obj /\ Said(p) = Asked(p.col)
  BY DEF IInv, Placed, Right, In
<1> HIDE DEF Asked, Said
<1>4. {Said(p) : p \in In("set")} = {Asked(c) : c \in DOMAIN obj}
  BY <1>2, <1>3
<1> QED
  BY <1>4 DEF Meant, Said, Asked

\* Every column of every row.
LEMMA ValuesAsAsked ==
    ASSUME IInv, Sent, statement.kind = "insert", NEW rows, rows = request.body.rows
    PROVE  /\ \A obj \in ToSet(rows) : DOMAIN obj \subseteq statement.cols
           /\ {<<p.row, p.col>> : p \in In("values")} = (DOMAIN rows) \X statement.cols
           /\ \A p \in In("values") : Deref(p.arg) = Item(rows[p.row], p.col)
<1>1. \A p \in In("values") : /\ p.row \in DOMAIN rows /\ p.col \in statement.cols
                            /\ Deref(p.arg) = Item(rows[p.row], p.col)
  BY DEF IInv, Placed, Right, In
<1>2. ItemsLeft = {}
  BY DEF IInv, Complete, Built
<1>3. (DOMAIN rows) \X statement.cols \subseteq {<<p.row, p.col>> : p \in In("values")}
  BY <1>2 DEF ItemsLeft
<1>4. statement.cols = AllCols(rows)
  BY DEF IInv, Began
<1>5. \A obj \in ToSet(rows) : DOMAIN obj \subseteq statement.cols
  BY <1>4 DEF AllCols
<1> QED
  BY <1>1, <1>3, <1>5

LEMMA IInvAsAsked == IInv => AsAsked
<1> SUFFICES ASSUME IInv, Sent PROVE AsAsked
  BY DEF AsAsked
<1> DEFINE q == Kept(request.query)
<1>1. CASE statement.kind = "select"
  <2>1. statement.cols = ToSet(Given(q, "select")) \ {""}
    <3>1. statement.cols = opts.select
      BY <1>1 DEF IInv, Began
    <3>2. opts = OptionsOf(q)
      BY DEF IInv, Optioned, Sent
    <3> QED
      BY <3>1, <3>2 DEF OptionsOf, SelectOf
  <2> QED
    BY <1>1, <2>1, WhereAsAsked, PagesAsAsked DEF AsAsked
<1>2. CASE statement.kind = "delete"
  BY <1>2, WhereAsAsked DEF AsAsked, IInv, Began
<1>3. CASE statement.kind = "update"
  BY <1>3, WhereAsAsked, SetAsAsked DEF AsAsked, IInv, Began
<1>4. CASE statement.kind = "insert"
  BY <1>4, ValuesAsAsked DEF AsAsked, Item
<1> QED
  BY <1>1, <1>2, <1>3, <1>4 DEF IInv, TypeOK, Sent

LEMMA IInvOwnerKept == IInv => OwnerKept
<1> SUFFICES ASSUME IInv PROVE OwnerKept
  OBVIOUS
<1>1. ASSUME OwnerForced, NEW p \in In("values"), p.col = "user_id"
      PROVE  Deref(p.arg) = Text(request.user)
  BY <1>1 DEF IInv, Placed, Right, In, Item
<1>2. ASSUME NEW p \in In("set")
      PROVE  p.col \notin PrimaryKey /\ (OwnerForced => p.col # "user_id")
  BY DEF IInv, Placed, Right, In, Began, OwnerForced
<1>3. ASSUME OwnerForced, Sent, statement.kind = "insert", NEW j \in DOMAIN request.body.rows
      PROVE  \E p \in In("values") : p.row = j /\ p.col = "user_id"
  <2>1. "user_id" \in statement.cols
    <3>1. statement.cols = AllCols(request.body.rows)
      BY <1>3 DEF IInv, Began
    <3> QED
      BY <1>3, <3>1 DEF AllCols
  <2>2. <<j, "user_id">> \in {<<p.row, p.col>> : p \in In("values")}
    BY <1>3, <2>1, ValuesAsAsked
  <2> QED
    BY <2>2
<1> QED
  BY <1>1, <1>2, <1>3 DEF OwnerKept

\* A value in a column without a cast is an error of types.
LEMMA IInvMistypedRefused == IInv => MistypedRefused
<1> SUFFICES ASSUME IInv PROVE MistypedRefused
  OBVIOUS
<1>1. ASSUME Sent, raised \notin {"42P01", "42703"},
             NEW p \in statement.places, IsRef(p), p.col \in Column, Uncast(p.col)
      PROVE  answer = 400
  <2>1. p.clause \in {"where", "set", "values", "limit", "offset"}
    BY DEF IInv, Placed, Right
  <2>2. Assigns(p.col) = {} /\ Compares(p.col) = {}
    BY <1>1 DEF Assigns, Compares
  <2>3. CASE p.clause = "where"
    BY <1>1, <2>2, <2>3 DEF TypeErrors, In, IInv, Blamed
  <2>4. CASE p.clause \in {"set", "values"}
    BY <1>1, <2>2, <2>4 DEF TypeErrors, In, IInv, Blamed
  <2>5. CASE p.clause \in {"limit", "offset"}
    BY <1>1, <2>5 DEF TypeErrors, In, IInv, Blamed
  <2> QED
    BY <2>1, <2>3, <2>4, <2>5
<1> QED
  BY <1>1 DEF MistypedRefused, IInv, Blamed

-----------------------------------------------------------------------------
(* Theorems *)

THEOREM Invariance == Spec => []IInv
BY InitStep, NextStep, PTL DEF Spec

\* Every value that is bound is a text, and every filter an operator and a
\* value (query.rs, select.rs, insert.rs, update.rs).
THEOREM TypeCorrect == Spec => []TypeOK
<1>1. IInv => TypeOK
  BY DEF IInv
<1> QED
  BY <1>1, Invariance, PTL

\* However many clauses, rows and columns share the list of values, the
\* numbers of the placeholders are its indices, one each (binds.len() in
\* query.rs, insert.rs and update.rs, the two markers in select.rs).
THEOREM PlaceholdersNumbered == Spec => []Numbered
<1>1. IInv => Numbered
  BY DEF IInv
<1> QED
  BY <1>1, Invariance, PTL

\* The statement that is executed says what the request says, whatever the
\* table and the request are (query.rs, select.rs, insert.rs, update.rs,
\* delete.rs).
THEOREM StatementAsAsked == Spec => []AsAsked
BY Invariance, IInvAsAsked, PTL

\* No statement writes a row of somebody else, moves one or gives one away
\* (insert.rs, update.rs).
THEOREM RowsOfTheUser == Spec => []OwnerKept
BY Invariance, IInvOwnerKept, PTL

\* A value that meets a type its cast is not, as every one does in a column
\* pg_cast_of has no cast for, is the client's mistake on each of the four lists
\* of codes, and reaches no row, whatever the table and the request are
\* (select.rs, insert.rs, update.rs, delete.rs).
THEOREM NoneMistyped == Spec => []MistypedRefused
BY Invariance, IInvMistypedRefused, PTL
=============================================================================
