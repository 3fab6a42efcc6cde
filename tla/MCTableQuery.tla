---------------------------- MODULE MCTableQuery ----------------------------
(* Instances of TableQuery for TLC. *)
EXTENDS TableQuery

MCColumns == <<"at", "data", "id", "mood", "tag", "title", "user_id">>

\* mood is an enum and tag of the type citext.
MCDataType ==
    [at |-> "timestamp with time zone", data |-> "json", id |-> "integer",
     mood |-> "USER-DEFINED", tag |-> "USER-DEFINED", title |-> "character varying",
     user_id |-> "bigint"]

\* "9" is beyond an i64 and an integer, "feb30" is no day of a calendar, and
\* "nul" is a text with a NUL byte.
MCRefused ==
    [p \in {<<c, t>> : c \in {"int4", "int8"}, t \in {<<"x">>, <<"3", "14">>}} |-> "22P02"]
    @@ [p \in {<<c, <<"9">>>> : c \in {"int4", "int8"}} |-> "22003"]
    @@ [p \in {<<"timestamptz", t>> : t \in {<<"x">>, <<"2">>}} |-> "22007"]
    @@ <<"timestamptz", <<"feb30">>>> :> "22008"
    @@ <<"json", <<"x">>>> :> "22P02"
    @@ [p \in {<<c, <<"nul">>>> : c \in {"int4", "int8", "timestamptz", "json", "text"}} |-> "22021"]

\* Within the range of a limit, of an i64, and beyond.
MCNumber == [x \in {"-1", "0", "2", "5", "9"} |->
    CASE x = "-1" -> -1 [] x = "0" -> 0 [] x = "2" -> 2 [] x = "5" -> 5 [] OTHER -> 9]

MCDecimal == [n \in 0..7 |-> ToString(n)]

Param(k, v) == [key |-> k, value |-> v]

Pairs ==
    {Param("id", v) : v \in {<<"2">>, <<"gte", "5">>, <<"lt", "x">>, <<"like", "2">>}}
    \cup {Param("title", v) : v \in {<<"ilike", "x">>, <<"eq", "3", "14">>, <<"3", "14">>}}
    \cup {Param("user_id", v) : v \in {<<"neq", "5">>, <<"is", "not", "null">>, <<"is", "x">>}}
    \cup {Param("mood", <<"sad">>), Param("mood", <<"is", "null">>), Param("nosuch", <<"2">>)}
    \cup {Param("at", <<"lt", "feb30">>), Param("data", <<"2">>), Param("tag", <<"nul">>)}

\* Up to two filters, and three of different kinds.
MCFilters ==
    SeqOf(Pairs, 2) \cup
    [1..3 -> {Param("id", <<"2">>), Param("title", <<"ilike", "x">>), Param("mood", <<"is", "null">>)}]

Optional(k, vs) == {<<>>} \cup {<<Param(k, v)>> : v \in vs}

MCOptions ==
    {a \o b \o c \o d :
        a \in Optional("select", {<<"id", "title">>, <<"", "nosuch">>}),
        b \in Optional("order", {<<"title", "desc">>, <<"nosuch">>, <<"", "asc">>}),
        c \in Optional("limit", {<<"-1">>, <<"2">>, <<"5">>, <<"9">>, <<"x">>}),
        d \in Optional("offset", {<<"-1">>, <<"2">>})}

Objects(cols) ==
    UNION {[S -> {Null, Text(<<"2">>), Text(<<"x">>)}] : S \in SUBSET cols}

Body(k, rows) == [kind |-> k, rows |-> rows]
MCUsers == {<<>>, <<"2">>}

\* An unknown column, the other types, and what is no object.
OddBodies ==
    {NoBody, Body("object", <<[nosuch |-> Null]>>)}
    \cup {Body("object", <<[mood |-> Text(<<t>>)]>>) : t \in {"sad", "nul"}}
    \cup {Body("object", <<[at |-> Text(<<t>>), tag |-> Text(<<"x">>)]>>) : t \in {"x", "feb30"}}
    \cup {Body("object", <<[data |-> Text(<<"2">>), title |-> Text(<<t>>)]>>) : t \in {"x", "nul"}}

MCUpdateBodies ==
    {Body("object", <<obj>>) : obj \in Objects({"id", "title", "user_id"})}
    \cup {Body("array", <<[title |-> Null]>>)} \cup OddBodies

MCInsertBodies ==
    {Body("array", rows) : rows \in SeqOf(Objects({"id", "title", "user_id"}), 2)}
    \cup {Body("object", <<[title |-> Null]>>)} \cup OddBodies

Nobody == {<<>>}

\* The documented columns and pages only.
PlainColumns == <<"id", "title">>
PlainDataType == [id |-> "integer", title |-> "text"]
PlainFilters == SeqOf({Param("id", <<"2">>), Param("title", <<"like", "x">>)}, 1)
PlainOptions == Optional("limit", {<<"2">>})

\* One key twice, as a range is written.
RangeFilters == SeqOf({Param("id", <<"gte", "0">>), Param("id", <<"lte", "2">>)}, 2)
=============================================================================
