----------------------------- MODULE MCFrontend -----------------------------
(***************************************************************************)
(* Small programs for Frontend.  Every program has one header h, a start   *)
(* state, two actions, two tables and the control function ingress; they   *)
(* differ in what the actions do, in the stateful object c, and in how the *)
(* second table is used.  Some have parse states instead, or an action and *)
(* a table that bear the name of a primitive.                              *)
(***************************************************************************)
EXTENDS Frontend

Data == {"int", "table_data"}
PrimitivesUsed ==
  [modify_field |-> <<{"field"}, {"field"} \cup Data, Data \cup {"optional"}>>,
   push |-> <<{"header"}, {"int", "optional"}>>,
   count |-> <<{"counter"}, {"field"} \cup Data>>,
   register_write |-> <<{"register"}, {"field"} \cup Data, {"field"} \cup Data>>,
   execute_meter |-> <<{"meter"}, {"field"} \cup Data, {"field"}>>,
   no_op |-> <<>>]

Arg(to) == Ref("arg", "name", to)
One == Ref("arg", "int", "")
Field == Ref("arg", "field", "h")
Hits(r) == [r EXCEPT !.under = "hitmiss"]

\* Bodies.  A writer passes its first formal on; the second of b's is a place for c.
Touch(kind, c, index) ==
  CASE kind = "counter" -> Call("count", <<c, index>>)
    [] kind = "register" -> Call("register_write", <<c, index, One>>)
    [] kind = "meter" -> Call("execute_meter", <<c, index, Field>>)
    [] OTHER -> Call("modify_field", <<Field, index>>)

BodiesA(kind) ==
  {Action("a", <<"x", "y">>, <<Call("modify_field", <<Field, Arg("y")>>)>>),
   Action("a", <<"x">>, <<Touch(kind, Arg("c"), Arg("x"))>>),
   Action("a", <<"x", "y">>, <<Call("b", <<Arg("y"), One>>), Call("no_op", <<>>)>>),
   Action("a", <<"x">>, <<Call("b", <<Arg("x"), Arg("c")>>)>>),
   Action("a", <<"start">>, <<Call("modify_field", <<Field, Arg("start")>>)>>),
   Action("a", <<"x">>, <<Call("push", <<Arg("h"), Arg("x")>>)>>),
   Action("a", <<"x", "x">>, <<>>),
   Action("a", <<"x">>, <<Call("a", <<Arg("x")>>)>>)}
BodiesB(kind) ==
  {Action("b", <<"u", "v">>, <<Call("modify_field", <<Field, Arg("u")>>)>>),
   Action("b", <<"u", "v">>, <<Touch(kind, Arg("v"), Arg("u"))>>),
   Action("b", <<"u", "v">>, <<Touch(kind, Arg("c"), One)>>),
   Action("b", <<"u", "v">>, <<>>),
   Action("b", <<"u", "v">>, <<Call("b", <<Arg("v"), One>>)>>),
   Action("b", <<"u", "v">>, <<Call("a", <<Arg("v")>>)>>)}

Bound(kind, binding, t) ==
  [Object(kind, "c", IF binding = "none" THEN <<>> ELSE <<Name("binding", t)>>) EXCEPT !.binding = binding]
StatefulObjects(kind) ==
  {Bound(kind, "none", "t1")} \cup {Bound(kind, b, t) : b \in {"static", "direct"}, t \in {"t1", "t2"}}

Table(t, actions, default) ==
  [Object("table", t, <<Ref("read", "field", "h")>> \o [i \in DOMAIN actions |-> Name("action", actions[i])]
                        \o IF default = "" THEN <<>> ELSE <<Name("default", default)>>)
     EXCEPT !.data = IF default = "b" THEN 2 ELSE -1]

Base == <<Object("header_type", "h_t", <<>>), Object("header", "h", <<Name("type", "h_t")>>)>>
StartState(next) == Object("parser", "start", <<Ref("extract", "header", "h"), Name("return", next)>>)
Apply == <<Name("apply", "t1"), Name("apply", "t2")>>

\* What the actions do to the stateful object.
Touching(kind) ==
  {Base \o <<StartState("ingress"), o, a, b, Table("t1", <<"a">>, ""), Table("t2", second, ""),
             Object("control", "ingress", Apply)>> :
     o \in StatefulObjects(kind), a \in BodiesA(kind), b \in BodiesB(kind),
     second \in {<<"a">>, <<"b">>}}

\* How the second table is used, with or without an action profile, and where a
\* packet that breaks the parser resumes.
Uses ==
  {Apply,
   Apply \o <<[Name("case", "b") EXCEPT !.table = "t2"]>>,
   <<Apply[1], Hits(Apply[2])>>,
   <<Apply[1], [Name("case", "a") EXCEPT !.table = "t1"], [Apply[2] EXCEPT !.under = "case"],
     [Name("case", "a") EXCEPT !.table = "t2", !.under = "case"]>>,
   Apply \o <<[Name("case", "a") EXCEPT !.table = "t2"]>>,
   <<Apply[1], Name("call", "aux")>>,
   <<Apply[1], Name("call", "ingress")>>}
Parsers ==
  {<<StartState("ingress")>>}
    \cup {<<StartState("more"), Object("parser", "more", <<Ref("select", "field", "h"), Name("return", "ingress"),
                                                   Name("error", "broken")>>),
            Object("exception", "broken", <<Name("resume", c)>>)>> : c \in {"ingress", "aux"}}
Profiled ==
  <<Object("table", "t2", <<Name("profile", "shared")>>),
    Object("profile", "shared", <<Name("action", "b"), Name("selector", "pick")>>),
    Object("selector", "pick", <<Name("key", "hash")>>),
    Object("calculation", "hash", <<Name("input", "five")>>),
    Object("field_list", "five", <<Ref("entry", "field", "h")>>)>>
Using ==
  {Base \o <<Bound("counter", "static", "t2"), a, b, Table("t1", <<"a">>, d)>> \o second
        \o <<Object("control", "ingress", use), Object("control", "aux", <<Name("apply", "t2")>>)>> \o parsers :
     a \in {Action("a", <<"x">>, <<Call("modify_field", <<Field, Arg("x")>>)>>),
            Action("a", <<"x">>, <<Call("b", <<Arg("x"), One>>)>>)},
     b \in {Action("b", <<"u", "v">>, <<Call("modify_field", <<Field, Arg("u")>>)>>),
            Action("b", <<"u", "v">>, <<Call("count", <<Arg("c"), Arg("v")>>)>>)},
     d \in {"", "a", "b"}, use \in Uses, parsers \in Parsers,
     second \in {<<Table("t2", <<"b">>, d2)>> : d2 \in {"", "b"}} \cup {Profiled}}

\* The parser: states that nothing leads to, one that leads to no control function.
Parsing ==
  {Base \o
   <<Object("parser", first, <<Ref("extract", "header", "h"), Name("return", next)>>),
     Object("parser", "second", <<Name("return", last)>>),
     Action("a", <<"x">>, <<Call("modify_field", <<Field, Arg("x")>>)>>), Table("t1", <<"a">>, ""),
     Object("control", "ingress", <<Name("apply", "t1")>>)>> :
     first \in {"start", "first"}, next \in {"ingress", "second", "nowhere"},
     last \in {"ingress", "second", "start"}}

\* An action or a table that bears the name of a primitive.
Clashing ==
  {Base \o <<StartState("ingress"), Table(t, <<n>>, ""),
             Action(n, <<"x">>, <<Call("modify_field", <<Field, Arg("x")>>)>>),
             Object("control", "ingress", <<Name("apply", t)>>
                     \o IF cases THEN <<[Name("case", n) EXCEPT !.table = t]>> ELSE <<>>)>> :
     n \in {"a", "no_op", "push"}, t \in {"t1", "count"},
     cases \in BOOLEAN}

MCPrograms == UNION {Touching(kind) : kind \in Stateful} \cup Using \cup Parsing \cup Clashing
=============================================================================
