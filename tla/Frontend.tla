------------------------------ MODULE Frontend ------------------------------
(***************************************************************************)
(* From the objects of a P4 program to its HLIR (HLIR.build,               *)
(* p4_hlir/main.py): the first round of semantic checks with its own       *)
(* rewriting of the program (semantic_check.py, unused_removal.py), the    *)
(* dump of the surviving objects, under new names if the program is the    *)
(* testing one (dumper.py), and the second round, which resolves every     *)
(* name again (p4_validate and the build methods under p4_hlir/hlir).      *)
(* One step is one pass, or one turn of the loop inside a pass.            *)
(***************************************************************************)
EXTENDS Ast

CONSTANT Primitives   \* what every parameter of a primitive admits (primitives.json)

VARIABLES
  source,    \* the program, as parsed
  version,   \* "production" or "testing"
  pass,      \* what is done next
  prog,      \* P4Program.objects
  symbols,   \* SymbolTable: the types every name is declared with
  errors,    \* the kinds of errors printed by the first round
  hlir,      \* the objects dumped into the HLIR
  verdict    \* what build ended with: "accepted", "rejected" or "crashed"

vars == <<source, version, pass, prog, symbols, errors, hlir, verdict>>

Types(syms, scope, name) ==
  IF name \in DOMAIN scope THEN scope[name] ELSE IF name \in DOMAIN syms THEN syms[name] ELSE {}

IsPrimitive(name) == name \in DOMAIN Primitives
ActionNamed(p, name) == CHOOSE o \in Named(p, name, {"action"}) : TRUE

-----------------------------------------------------------------------------
(* First round. *)

\* import_objects: names by type; two objects of one class may not share a name.
SymbolsOf(p) ==
  [n \in {p[i].name : i \in DOMAIN p} \cup DOMAIN Primitives |->
     {TypeOf(o.class) : o \in {p[i] : i \in {j \in DOMAIN p : p[j].name = n}}}
       \cup IF IsPrimitive(n) THEN {"primitive"} ELSE {}]
Redefined(p) == \E i, j \in DOMAIN p : i # j /\ p[i].class = p[j].class /\ p[i].name = p[j].name

\* The types every check method accepts a bare name with, by place.
CheckFieldLists == [entry |-> {"header", "field_list"}, input |-> {"field_list"},
                    formula |-> {"calculation"}, guard |-> {"header"}]
CheckStateful == [binding |-> {"table"}, layout |-> {"header_type"}]
CheckActions == [callee |-> {"action", "primitive"},
                 arg |-> {"int", "header", "field_list", "calculation"} \cup Stateful]
CheckTables == [read |-> {"header"}, action |-> {"action"}, default |-> {"action"},
                profile |-> {"profile"}, selector |-> {"selector"}, key |-> {"calculation"}]
CheckControls == [apply |-> {"table"}, case |-> {"action"}, call |-> {"control"}]
CheckParsers == [type |-> {"header_type"}, return |-> {"parser", "control"},
                 value |-> {"value_set"}, error |-> {"exception"}, resume |-> {"control"}]
Accepts == CheckFieldLists @@ CheckStateful @@ CheckActions @@ CheckTables @@ CheckControls @@ CheckParsers

\* check_P4RefExpression wants exactly one candidate; the other forms ask for a
\* header instance whatever the place.
CheckRef(syms, scope, r) ==
  IF r.form = "name" THEN Cardinality(Types(syms, scope, r.to) \cap Accepts[r.site]) = 1
  ELSE "header" \in Types(syms, scope, r.to)

\* detect_recursion: depth first, first call first, until seek is found.  It does
\* not note where it has been: on a cycle without seek it never comes back.
RECURSIVE Detect(_, _, _, _)
Detect(succ, from, seek, depth) ==
  IF depth > Cardinality(DOMAIN succ) THEN "loop"
  ELSE FoldLeft(LAMBDA found, n :
                  IF found # "no" THEN found
                  ELSE IF n = seek THEN "yes" ELSE Detect(succ, n, seek, depth + 1),
                "no", succ[from])

NamesOf(p, class) == {p[i].name : i \in {j \in DOMAIN p : p[j].class = class}}
CallGraph(p) ==
  [n \in NamesOf(p, "action") |->
     SelectSeq([i \in DOMAIN ActionNamed(p, n).body |-> ActionNamed(p, n).body[i].callee],
               LAMBDA c : Named(p, c, {"action"}) # {})]
ListGraph(p) ==
  [n \in NamesOf(p, "field_list") |->
     LET l == CHOOSE o \in Named(p, n, {"field_list"}) : TRUE
     IN SelectSeq([i \in DOMAIN l.refs |-> l.refs[i].to], LAMBDA e : Named(p, e, {"field_list"}) # {})]
Recursion(succ) == {Detect(succ, n, n, 0) : n \in DOMAIN succ}

\* The smallest and largest number of arguments of an action or primitive.
Arity(p, name) ==
  IF IsPrimitive(name)
  THEN {Cardinality({i \in DOMAIN Primitives[name] : "optional" \notin Primitives[name][i]}),
        Len(Primitives[name])}
  ELSE {Len(ActionNamed(p, name).formals)}
FitsArity(p, c) ==
  \E lo, hi \in Arity(p, c.callee) : lo \leq Len(c.args) /\ Len(c.args) \leq hi

\* The methods check of one object, with the formals of an action as its scope.
CheckObject(p, syms, o) ==
  LET scope == [f \in ToSet(o.formals) |-> {"int"}]
      bad == {r \in RefsOf(o) : ~CheckRef(syms, scope, r)}
  IN (IF bad # {} THEN {"reference"} ELSE {})
     \cup (IF IsInjective(o.formals) THEN {} ELSE {"duplicate"})
     \cup (IF \E i \in DOMAIN o.body : /\ Name("callee", o.body[i].callee) \notin bad
                                       /\ ~FitsArity(p, o.body[i])
           THEN {"arity"} ELSE {})
     \cup (IF \E i \in At(o, "default") : /\ o.refs[i] \notin bad
                                          /\ o.data \notin {-1, Len(ActionNamed(p, o.refs[i].to).formals)}
           THEN {"default"} ELSE {})

\* The actions of a table, in order: its own, or those of its action profile.
TableActions(p, t) ==
  LET own(o) == SelectSeq(o.refs, LAMBDA r : r.site = "action")
      of(o) == [i \in DOMAIN own(o) |-> own(o)[i].to]
  IN IF At(t, "profile") = {} THEN of(t)
     ELSE of(CHOOSE o \in Named(p, t.refs[CHOOSE i \in At(t, "profile") : TRUE].to, {"profile"}) : TRUE)
DefaultOf(t) == {t.refs[i].to : i \in At(t, "default")}
TablesOf(p) == SelectSeq(p, LAMBDA o : o.class = "table")

\* check_action_typing: the argument types are passed down call by call, and every
\* parameter of a primitive must be left with exactly one.
Admits(prim, i) ==
  LET t == Primitives[prim][i] IN IF "table_data" \in t THEN t \cup {"int"} ELSE t
RECURSIVE WellTyped(_, _, _, _)
WellTyped(p, syms, name, scope) ==
  \A i \in DOMAIN ActionNamed(p, name).body :
    LET c == ActionNamed(p, name).body[i]
        types(a) == IF a.form = "name" THEN Types(syms, scope, a.to) ELSE {a.form}
    IN IF IsPrimitive(c.callee)
       THEN \A j \in DOMAIN c.args : Cardinality(types(c.args[j]) \cap Admits(c.callee, j)) = 1
       ELSE WellTyped(p, syms, c.callee,
              LET f == ActionNamed(p, c.callee).formals
              IN [x \in ToSet(f) |-> types(c.args[CHOOSE j \in DOMAIN f : f[j] = x])])
ActionTyping(p, syms) ==
  \A i \in DOMAIN TablesOf(p) : \A j \in DOMAIN TableActions(p, TablesOf(p)[i]) :
    LET a == TableActions(p, TablesOf(p)[i])[j]
    IN WellTyped(p, syms, a, [f \in ToSet(ActionNamed(p, a).formals) |-> {"int"}])

\* find_unused_args: the names among the arguments of an action's own calls.
UsedNames(a) ==
  {x.to : x \in {y \in RefsOf(a) : y.site = "arg" /\ y.form \in {"name", "header"}}}
Unused(a) == {k \in DOMAIN a.formals : a.formals[k] \notin UsedNames(a)}

RemoveFormals(p) ==
  [i \in DOMAIN p |-> [p[i] EXCEPT !.formals = SelectSeq(@, LAMBDA f : f \in UsedNames(p[i]))]]
\* remove_unused_args: formals and the arguments in their place go together.
RemoveArgs(p) ==
  LET without(s, drop) ==
        FoldLeft(LAMBDA kept, k : IF k \in drop THEN kept ELSE Append(kept, s[k]),
                 <<>>, [k \in DOMAIN s |-> k])
      gone(name) == IF Named(p, name, {"action"}) = {} THEN {} ELSE Unused(ActionNamed(p, name))
      strip(c) == [c EXCEPT !.args = without(@, gone(c.callee))]
  IN [i \in DOMAIN p |->
        [p[i] EXCEPT !.formals = SelectSeq(@, LAMBDA f : f \in UsedNames(p[i])),
                     !.body = [k \in DOMAIN @ |-> strip(@[k])]]]

\* check_stateful_refs: the names used as arguments by the actions of the tables,
\* in the order they are met; actions called by those actions are not looked into.
\* Types are taken out of the symbol table while they are looked at, so that only
\* the first reference of a name is checked, and a formal counts as a reference.
ArgRefs(p) ==
  LET ofAction(t, a) ==
        FlattenSeq([k \in DOMAIN a.body |->
          LET args == SelectSeq(a.body[k].args, LAMBDA x : x.form \in {"name", "header"})
          IN [j \in DOMAIN args |-> [name |-> args[j].to, table |-> t.name]]])
      ofTable(t) ==
        FlattenSeq([k \in DOMAIN TableActions(p, t) |-> ofAction(t, ActionNamed(p, TableActions(p, t)[k]))])
  IN FlattenSeq([k \in DOMAIN TablesOf(p) |-> ofTable(TablesOf(p)[k])])
BoundTo(o) == {o.refs[i].to : i \in At(o, "binding")}
Misplaced(o, table) ==
  \/ o.binding = "direct" /\ o.class # "register"
  \/ o.binding = "static" /\ table \notin BoundTo(o)
StatefulRefs(p) ==
  LET refs == ArgRefs(p)
      first == {k \in DOMAIN refs : \A j \in 1..(k - 1) : refs[j].name # refs[k].name}
  IN \A k \in first : \A o \in Named(p, refs[k].name, Stateful) : ~Misplaced(o, refs[k].table)
EmptiedBy(p, syms) ==
  LET names == {r.name : r \in ToSet(ArgRefs(p))}
  IN [n \in DOMAIN syms |-> IF n \in names THEN {} ELSE syms[n]]

\* check_apply_action_cases does not look into the statements of a case.
ApplyCases(p) ==
  \A i \in DOMAIN p : \A k \in At(p[i], "case") :
    LET r == p[i].refs[k]
        t == CHOOSE o \in Named(p, r.table, {"table"}) : TRUE
    IN r.under = "" => r.to \in ToSet(TableActions(p, t)) \cup DefaultOf(t)

\* mark_used: a reference marks the object it names; a binding marks nothing, but
\* a direct stateful object is marked when its table is.
Wants(r) == IF r.form = "name" THEN Accepts[r.site] ELSE {"header"}
MarksListed(r) == IF r.site \in {"binding", "default"} THEN {} ELSE Wants(r)
Marks(r) == IF r.site = "binding" THEN {} ELSE Wants(r)
AlwaysMarked(o) ==
  \/ o.class = "header_type" /\ o.name \in {"standard_metadata_t", "intrinsic_metadata_t"}
  \/ o.class = "metadata" /\ o.name \in {"standard_metadata", "intrinsic_metadata"}
  \/ o.class = "calculated_field"
  \/ o.class = "parser" /\ o.name = "start"
  \/ o.class = "control" /\ o.name \in {"ingress", "egress"}
Marked(p, o) ==
  AlwaysMarked(o) \/ \E i \in DOMAIN p : \E r \in RefsOf(p[i]) : r.to = o.name /\ TypeOf(o.class) \in Marks(r)
Kept(p, o) ==
  \/ Marked(p, o)
  \/ o.binding = "direct" /\ \E t \in BoundTo(o) : \E o2 \in Named(p, t, {"table"}) : Marked(p, o2)
RemoveUnused(p) == SelectSeq(p, LAMBDA o : Kept(p, o))

-----------------------------------------------------------------------------
(* The dump.  A dumped name is the name and whether it got the shadow suffix. *)

RenamedClasses == {"table", "action", "counter", "meter", "register", "profile"}
RenamedInTables == {"binding", "callee", "action", "apply", "case"}
RenamedSites == {"binding", "callee", "action", "profile", "apply", "case"}

\* The places of the stateful arguments of the primitives the dumper knows.
RenamedArgs == [register_read |-> 2, register_write |-> 1, count |-> 1]

\* A reference keeps a name that a primitive has, whatever it refers to.
Shadowed(v, name) == v = "testing" /\ ~IsPrimitive(name)

\* What is inside a hit or miss case is dumped without the version.
DumpRef(v, r) ==
  [r EXCEPT !.to = <<@, Shadowed(v, @) /\ r.site \in RenamedSites /\ r.under # "hitmiss">>]
DumpCall(v, c) ==
  LET renamed(j) == v = "testing" /\ c.callee \in DOMAIN RenamedArgs /\ j = RenamedArgs[c.callee]
  IN [callee |-> <<c.callee, Shadowed(v, c.callee)>>,
      args |-> [j \in DOMAIN c.args |-> [c.args[j] EXCEPT !.to = <<@, renamed(j)>>]]]
DumpObject(v, o) ==
  [o EXCEPT !.name = <<@, v = "testing" /\ o.class \in RenamedClasses>>,
            !.refs = [i \in DOMAIN @ |-> DumpRef(v, @[i])],
            !.body = [k \in DOMAIN @ |-> DumpCall(v, @[k])]]
Dump(v, p) == [i \in DOMAIN p |-> DumpObject(v, p[i])]

\* dump_to_p4_P4Meter reads a variable that does not exist.
DumpCrashes(v, p) == v = "testing" /\ NamesOf(p, "meter") # {}

-----------------------------------------------------------------------------
(* Second round, over the dumped objects h. *)

PrimitiveCallee(c) == ~c.callee[2] /\ IsPrimitive(c.callee[1])
\* hlir.p4_actions has the primitives too, and an action may replace one.
Resolves(h, r) ==
  \/ Named(h, r.to, Wants(r)) # {}
  \/ "action" \in Wants(r) /\ ~r.to[2] /\ IsPrimitive(r.to[1])

\* The build methods look every name up, those of arguments excepted; a lookup that
\* fails is a KeyError.
Built(h) == \A i \in DOMAIN h : \A r \in RefsOf(h[i]) : r.site # "arg" => Resolves(h, r)

\* validate_types follows the calls of an action with the values its arguments have:
\* Value is a formal's value if the name is one, the argument itself otherwise.
TableData == [form |-> "data"]
Value(a, args, x) ==
  IF x.form = "name" /\ ~x.to[2] /\ x.to[1] \in ToSet(a.formals)
  THEN args[CHOOSE k \in DOMAIN a.formals : a.formals[k] = x.to[1]] ELSE x
Candidates(h, x) ==
  CASE x.form = "data" -> {"table_data"}
    [] x.form = "int" -> {"int"}
    [] x.form = "field" -> IF Named(h, x.to, {"header"}) = {} THEN {} ELSE {"field"}
    [] x.form = "header" -> IF Named(h, x.to, {"header"}) = {} THEN {} ELSE {"header"}
    [] OTHER -> {t \in Accepts.arg : Named(h, x.to, {t}) # {}}
AnyStaticAllowed(h, table, x) == \A o \in Named(h, x.to, {"counter"}) : o.binding # "direct"
CounterAllowed(h, table, x) ==
  \A o \in Named(h, x.to, {"counter"}) :
    o.binding = "none" \/ (o.binding = "static" /\ table \in BoundTo(o))

\* An action without calls is taken for a primitive; its parameters have no types.
RECURSIVE ValidTypes(_, _, _, _)
ValidTypes(h, table, a, args) ==
  \A k \in DOMAIN a.body :
    LET c == a.body[k]
        values == [j \in DOMAIN c.args |-> Value(a, args, c.args[j])]
    IN IF PrimitiveCallee(c)
       THEN \A j \in DOMAIN values :
              LET types == Candidates(h, values[j]) \cap Primitives[c.callee[1]][j]
              IN types # {} /\ ("counter" \in types => CounterAllowed(h, table, values[j]))
       ELSE ValidTypes(h, table, CHOOSE o \in Named(h, c.callee, {"action"}) : TRUE, values)
Bodiless(h) == \E i \in DOMAIN h : h[i].class = "action" /\ h[i].body = <<>> /\ h[i].formals # <<>>
\* A table may also have come to a primitive, which then takes table data only.
ValidAction(h, table, n) ==
  IF Named(h, n, {"action"}) = {}
  THEN \A j \in DOMAIN Primitives[n[1]] : "table_data" \in Primitives[n[1]][j]
  ELSE LET a == CHOOSE o \in Named(h, n, {"action"}) : TRUE
       IN ValidTypes(h, table, a, [k \in DOMAIN a.formals |-> TableData])
ActionsValid(h) ==
  \A i \in DOMAIN TablesOf(h) :
    \A n \in ToSet(TableActions(h, TablesOf(h)[i])) : ValidAction(h, TablesOf(h)[i].name, n)

\* The control functions the parser returns to, found from the start state on; a
\* name that is a parse state's is taken for that.
SuccOf(h, class, name, site) ==
  LET o == CHOOSE x \in Named(h, name, {class}) : TRUE
  IN {o.refs[i].to : i \in At(o, site)}
ReachedIn(h, class, site, from) ==
  FoldLeft(LAMBDA reached, k :
             reached \cup {m \in UNION {SuccOf(h, class, x, site) : x \in reached} :
                             Named(h, m, {class}) # {}},
           {n \in from : Named(h, n, {class}) # {}}, h)
ParserExits(h) ==
  {n \in UNION {SuccOf(h, "parser", s, "return") : s \in ReachedIn(h, "parser", "return", {<<"start", FALSE>>})} :
     Named(h, n, {"parser"}) = {}}
EntryPoints(h) ==
  ParserExits(h) \cup {n \in {<<"egress", FALSE>>} : Named(h, n, {"control"}) # {}}
ControlLoop(h) ==
  \E n \in ReachedIn(h, "control", "call", EntryPoints(h)) :
    n \in ReachedIn(h, "control", "call", SuccOf(h, "control", n, "call"))

\* Only the control functions used as entry points have a place to resume at.
Stranded(h) ==
  \E i \in DOMAIN h : \E k \in At(h[i], "resume") : h[i].refs[k].to \notin EntryPoints(h)

\* p4_validate, up to the table graphs.
Validate(h) ==
  CASE ~Built(h) \/ Bodiless(h) -> "crashed"
    [] ~ActionsValid(h) -> "rejected"
    [] ControlLoop(h) -> "crashed"
    [] ParserExits(h) = {} -> "rejected"
    [] Stranded(h) -> "crashed"
    [] OTHER -> "accepted"

-----------------------------------------------------------------------------
Done == verdict # "none"
Report(kinds) == errors' = errors \cup kinds
Next_(from, to) == pass = from /\ pass' = to
Keep == UNCHANGED <<source, version>>

Init ==
  /\ source \in Programs /\ version \in {"production", "testing"}
  /\ pass = "check" /\ prog = source /\ symbols = SymbolsOf(source)
  /\ errors = {} /\ hlir = <<>> /\ verdict = "none"

\* import_objects and the check methods of all objects; then each pass runs only if
\* nothing was reported before it.
Check ==
  /\ pass = "check" /\ ~Done
  /\ LET found == UNION {CheckObject(prog, symbols, prog[i]) : i \in DOMAIN prog}
                    \cup (IF Redefined(prog) THEN {"redefinition"} ELSE {})
         cycles == Recursion(CallGraph(prog)) \cup Recursion(ListGraph(prog))
         all == found \cup (IF "yes" \in cycles THEN {"recursion"} ELSE {})
     IN IF "loop" \in cycles
        THEN verdict' = "crashed" /\ UNCHANGED <<pass, errors>>
        ELSE Report(all) /\ pass' = (IF all = {} THEN "typing" ELSE "start") /\ UNCHANGED verdict
  /\ Keep /\ UNCHANGED <<prog, symbols, hlir>>

Typing ==
  /\ pass = "typing"
  /\ IF ActionTyping(prog, symbols) THEN pass' = "args" /\ UNCHANGED errors
     ELSE pass' = "start" /\ Report({"typing"})
  /\ Keep /\ UNCHANGED <<prog, symbols, hlir, verdict>>

\* One turn of the loop that removes the formals nobody uses.
Args ==
  /\ pass = "args"
  /\ prog' = RemoveArgs(prog)
  /\ pass' = IF \A i \in DOMAIN prog : Unused(prog[i]) = {} THEN "stateful" ELSE pass
  /\ Keep /\ UNCHANGED <<symbols, errors, hlir, verdict>>

StatefulPass ==
  /\ pass = "stateful"
  /\ IF StatefulRefs(prog) THEN pass' = "cases" /\ UNCHANGED errors
     ELSE pass' = "start" /\ Report({"stateful"})
  /\ symbols' = EmptiedBy(prog, symbols)
  /\ Keep /\ UNCHANGED <<prog, hlir, verdict>>

Cases ==
  /\ Next_("cases", "start")
  /\ Report(IF ApplyCases(prog) THEN {} ELSE {"case"})
  /\ Keep /\ UNCHANGED <<prog, symbols, hlir, verdict>>

\* check_has_start_parse_state runs whatever was reported, and ends the round.
Start ==
  /\ Next_("start", "trim")
  /\ LET found == IF "parser" \in Types(symbols, <<>>, "start") THEN {} ELSE {"start"}
     IN Report(found) /\ verdict' = IF errors \cup found = {} THEN "none" ELSE "rejected"
  /\ Keep /\ UNCHANGED <<prog, symbols, hlir>>

\* One turn of the loop that removes the objects nothing refers to.
Trim ==
  /\ pass = "trim" /\ ~Done
  /\ prog' = RemoveUnused(prog)
  /\ pass' = IF prog' = prog THEN "dump" ELSE pass
  /\ Keep /\ UNCHANGED <<symbols, errors, hlir, verdict>>

DumpPass ==
  /\ Next_("dump", "validate")
  /\ IF DumpCrashes(version, prog) THEN verdict' = "crashed" /\ UNCHANGED hlir
     ELSE hlir' = Dump(version, prog) /\ UNCHANGED verdict
  /\ Keep /\ UNCHANGED <<prog, symbols, errors>>

ValidatePass ==
  /\ pass = "validate" /\ ~Done
  /\ verdict' = Validate(hlir)
  /\ Keep /\ UNCHANGED <<pass, prog, symbols, errors, hlir>>

Next ==
  Check \/ Typing \/ Args \/ StatefulPass \/ Cases \/ Start \/ Trim \/ DumpPass \/ ValidatePass

Spec == Init /\ [][Next]_vars

-----------------------------------------------------------------------------
(* Properties. *)

\* The primitives an action amounts to once its calls are expanded, each with its
\* arguments; env has the values of the formals.
RECURSIVE Effect(_, _, _)
Effect(p, a, env) ==
  FlattenSeq([k \in DOMAIN a.body |->
    LET c == a.body[k]
        values == [j \in DOMAIN c.args |->
                     LET x == c.args[j] IN IF x.to \in DOMAIN env THEN env[x.to] ELSE x]
    IN IF IsPrimitive(c.callee) THEN <<Call(c.callee, values)>>
       ELSE LET b == ActionNamed(p, c.callee)
            IN Effect(p, b, [f \in ToSet(b.formals) |->
                               values[CHOOSE j \in DOMAIN b.formals : b.formals[j] = f]])])
EffectOf(p, a) == Effect(p, a, [f \in ToSet(a.formals) |-> Name("formal", f)])

\* Removing the formals nobody uses, with the arguments in their place, changes
\* nothing an action does: a call that lost the wrong argument would.
EffectKept ==
  pass \notin {"check", "typing"} /\ errors = {} =>
    \A i \in DOMAIN prog : prog[i].class = "action" =>
      EffectOf(prog, prog[i]) = EffectOf(source, ActionNamed(source, prog[i].name))

\* The stateful objects of these classes that a table's actions reach, through calls
\* as well, are not those of another table.
Reaches(t, o) ==
  \E n \in ToSet(TableActions(source, t)) :
    LET e == EffectOf(source, ActionNamed(source, n))
    IN \E k \in DOMAIN e : \E j \in DOMAIN e[k].args : e[k].args[j] = Ref("arg", "name", o.name)
OwnStateOnly(classes) ==
  verdict = "accepted" =>
    \A i \in DOMAIN source : \A t \in {prog[k] : k \in {j \in DOMAIN prog : prog[j].class = "table"}} :
      source[i].class \in classes /\ Reaches(t, source[i]) => ~Misplaced(source[i], t.name)

\* A counter of one table is never counted by the actions of another: the first round
\* sees only some of the references, the second must find the rest.
CountersStay == OwnStateOnly({"counter"})

\* The same of every stateful object, as the error of the first round says.
StateStays == OwnStateOnly(Stateful)

\* What the first round keeps of a production program, the second finds again, but
\* for the table of a stateful object: no lookup of a name fails, and no action that
\* lost its body still has formals.
NothingDangles ==
  pass = "validate" /\ version = "production" =>
    /\ ~Bodiless(hlir)
    /\ \A i \in DOMAIN hlir : \A r \in RefsOf(hlir[i]) :
         r.site # "binding" =>
           \/ Resolves(hlir, r)
           \/ r.site = "arg" /\ r.to[1] \in ToSet(hlir[i].formals)

\* A testing program is judged as the same program would be in production, but for
\* what the dumper does not rename: default actions, what is inside a hit or miss
\* case, meters, stateful objects passed on to another action, and references by a
\* name that a primitive has.
PassesStateOn(p) ==
  \E i \in DOMAIN p : \E k \in DOMAIN p[i].body : \E j \in DOMAIN p[i].body[k].args :
    LET callee == p[i].body[k].callee
        x == p[i].body[k].args[j]
    IN /\ x.form = "name"
       /\ IF callee \in DOMAIN RenamedArgs /\ RenamedArgs[callee] = j
          THEN x.to \in ToSet(p[i].formals) ELSE Named(p, x.to, Stateful) # {}
NotRenamed(p) ==
  \/ NamesOf(p, "meter") # {} \/ PassesStateOn(p)
  \/ \E i \in DOMAIN p :
       \/ DefaultOf(p[i]) # {}
       \/ \E k \in DOMAIN p[i].refs :
            LET r == p[i].refs[k]
            IN r.under = "hitmiss" \/ (r.site \in RenamedSites /\ IsPrimitive(r.to))
TestingSame ==
  version = "testing" /\ Done /\ pass = "validate" /\ ~NotRenamed(prog) =>
    verdict = Validate(Dump("production", prog))
=============================================================================
