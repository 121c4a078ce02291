-------------------------------- MODULE Ast --------------------------------
(***************************************************************************)
(* P4 programs as the grammar hands them to the semantic checker           *)
(* (p4_hlir/frontend/parser.py and ast.py): a sequence of objects, each    *)
(* with the references it makes.  A reference keeps the place it is made   *)
(* from, because every pass treats places differently, its form (a bare    *)
(* name, header.field or header[index]) and the name it asks for.  Field   *)
(* names, widths, sizes and line numbers are left out.                     *)
(***************************************************************************)
EXTENDS Naturals, Sequences, FiniteSets, SequencesExt

CONSTANT Programs     \* the programs tried, each a sequence of objects

Classes == {"header_type", "header", "metadata", "field_list", "calculation", "calculated_field",
            "value_set", "parser", "counter", "meter", "register", "primitive", "action",
            "table", "profile", "selector", "control", "exception"}

\* The type the checker knows an object by: header instances and metadata share
\* one; a calculated field has no name.
TypeOf(class) == IF class = "metadata" THEN "header" ELSE class

Stateful == {"counter", "meter", "register"}

\* A reference from place "site".  For a case, table is the table it is a case of;
\* in a control function, under is "hitmiss" if a hit or miss case is around the
\* reference, "case" if only action cases are.
Ref(site, form, to) == [site |-> site, form |-> form, to |-> to, table |-> "", under |-> ""]
Name(site, to) == Ref(site, "name", to)

\* Only actions have formals and a body of calls; only stateful objects a binding,
\* direct or static, to a table; only tables may give their default action data.
Object(class, name, refs) ==
  [class |-> class, name |-> name, refs |-> refs, formals |-> <<>>, body |-> <<>>,
   binding |-> "none", data |-> 0]

Action(name, formals, body) == [Object("action", name, <<>>) EXCEPT !.formals = formals, !.body = body]
Call(callee, args) == [callee |-> callee, args |-> args]

\* Every reference of an object, those of an action's calls and arguments included.
RefsOf(o) ==
  {o.refs[i] : i \in DOMAIN o.refs}
    \cup {Name("callee", o.body[i].callee) : i \in DOMAIN o.body}
    \cup UNION {{a \in {o.body[i].args[j] : j \in DOMAIN o.body[i].args} : a.form # "int"} :
                  i \in DOMAIN o.body}

-----------------------------------------------------------------------------
(* What the grammar produces: the references every kind of object can make. *)

At(o, site) == {i \in DOMAIN o.refs : o.refs[i].site = site}
Sites(o) == {o.refs[i].site : i \in DOMAIN o.refs}
Forms(o, site) == {o.refs[i].form : i \in At(o, site)}

HeaderSyntax(o) ==
  o.class \in {"header_type", "header", "metadata"} =>
    IF o.class = "header_type" THEN o.refs = <<>>
    ELSE Len(o.refs) = 1 /\ o.refs[1] = Name("type", o.refs[1].to)

FieldListSyntax(o) == o.class = "field_list" => o.refs # <<>> /\ Sites(o) = {"entry"}

CalculationSyntax(o) ==
  /\ o.class = "calculation" => o.refs # <<>> /\ Sites(o) = {"input"} /\ Forms(o, "input") = {"name"}
  /\ o.class = "calculated_field" =>
       /\ Cardinality(At(o, "calculated")) = 1 /\ Forms(o, "calculated") = {"field"}
       /\ At(o, "formula") # {} /\ Sites(o) \subseteq {"calculated", "formula", "guard"}

ParserSyntax(o) ==
  o.class = "parser" =>
    /\ Sites(o) \subseteq {"extract", "set", "select", "value", "return", "error"}
    /\ Forms(o, "extract") \subseteq {"header"} /\ Forms(o, "set") \subseteq {"field"}

\* A state returns to one place, or selects among some by fields and value sets.
ReturnSyntax(o) ==
  o.class = "parser" =>
    LET exits == At(o, "return") \cup At(o, "error")
    IN /\ exits # {} /\ Forms(o, "select") \subseteq {"field"}
       /\ At(o, "select") = {} => Cardinality(exits) = 1 /\ At(o, "value") = {}

BindingSyntax(o) ==
  /\ o.binding \in {"none", "direct", "static"}
  /\ Cardinality(At(o, "binding")) = IF o.binding = "none" THEN 0 ELSE 1
CounterSyntax(o) ==
  o.class \in {"counter", "meter"} =>
    BindingSyntax(o) /\ Sites(o) \subseteq {"binding"} \cup (IF o.class = "meter" THEN {"result"} ELSE {})
RegisterSyntax(o) == o.class = "register" => BindingSyntax(o) /\ Sites(o) \subseteq {"binding", "layout"}

ActionSyntax(o) ==
  /\ o.class = "action" => o.refs = <<>>
  /\ o.class # "action" => o.formals = <<>> /\ o.body = <<>>
  /\ \A i \in DOMAIN o.body : \A j \in DOMAIN o.body[i].args :
       LET a == o.body[i].args[j] IN a.site = "arg" /\ a.form \in {"int", "name", "field", "header"}

\* A table lists actions or names an action profile.
TableSyntax(o) ==
  o.class = "table" =>
    /\ Sites(o) \subseteq {"read", "action", "default", "profile"}
    /\ \/ At(o, "action") # {} /\ At(o, "profile") = {}
       \/ At(o, "action") = {} /\ Cardinality(At(o, "profile")) = 1
DefaultSyntax(o) ==
  o.class = "table" => Cardinality(At(o, "default")) \leq 1 /\ (At(o, "default") # {} => At(o, "action") # {})

ProfileSyntax(o) ==
  /\ o.class = "profile" =>
       /\ At(o, "action") # {} /\ Cardinality(At(o, "selector")) \leq 1
       /\ Sites(o) \subseteq {"action", "selector"}
  /\ o.class = "selector" => Len(o.refs) = 1 /\ Sites(o) = {"key"}

\* Action cases and hit or miss cases stand under the apply of their table.
ControlSyntax(o) ==
  o.class = "control" =>
    /\ Sites(o) \subseteq {"apply", "case", "call", "guard"}
    /\ \A i \in At(o, "case") : \E j \in At(o, "apply") : o.refs[j].to = o.refs[i].table

ExceptionSyntax(o) ==
  o.class = "exception" =>
    Sites(o) \subseteq {"set", "resume"} /\ Cardinality(At(o, "resume")) \leq 1

Grammatical(o) ==
  /\ o.class \in Classes \ {"primitive"}
  /\ HeaderSyntax(o) /\ FieldListSyntax(o) /\ CalculationSyntax(o) /\ ParserSyntax(o) /\ ReturnSyntax(o)
  /\ CounterSyntax(o) /\ RegisterSyntax(o) /\ ActionSyntax(o) /\ TableSyntax(o) /\ DefaultSyntax(o) /\ ProfileSyntax(o) /\ ControlSyntax(o) /\ ExceptionSyntax(o)

ASSUME ProgramsAssumption == \A p \in Programs : \A i \in DOMAIN p : Grammatical(p[i])

\* The objects of a program with this name and a class of these types.
Named(p, name, types) == {p[i] : i \in {j \in DOMAIN p : p[j].name = name /\ TypeOf(p[j].class) \in types}}
=============================================================================
