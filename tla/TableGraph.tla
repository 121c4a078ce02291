----------------------------- MODULE TableGraph -----------------------------
(***************************************************************************)
(* First P4 control functions as the frontend hands them over: a sequence  *)
(* of calls (p4_control_flow.call_sequence), and what such a sequence      *)
(* means when a packet runs through it.  This is the reference that the    *)
(* table graph built from the same sequence is compared with.  A call is a *)
(* record: its kind, the table or condition it is about, and its arms,     *)
(* each with the outcomes that select it and the calls under it.           *)
(*                                                                         *)
(* Then from a control function to its table graph                         *)
(* (_p4_control_flow_to_table_graph, p4_hlir/hlir/p4_tables.py): every     *)
(* call is turned into a node, the nodes of its arms are built under it,   *)
(* and every edge that still leads nowhere is patched to the next call.    *)
(*                                                                         *)
(* The fields of the objects of one program are a record h: next_,         *)
(* base_default_next and conditional_barrier of every node, the name of    *)
(* every node, the conditional nodes in the order they were made, and err  *)
(* once a p4_compiler_msg has been raised.                                 *)
(*                                                                         *)
(* A conditional barrier is a set of pairs: a node and the outcomes of     *)
(* that node under which this one is reached at all.  The empty set stands *)
(* for None.                                                               *)
(***************************************************************************)
EXTENDS Naturals, Sequences, FiniteSets, SequencesExt

CONSTANT ActionsOf   \* the actions of every table

\* A table or condition is a pair: the program it belongs to, its name there.
None == <<"", "None">>

Apply(t) == [kind |-> "apply", node |-> t, arms |-> <<>>]

If(c, yes, no) ==
  [kind |-> "if", node |-> c,
   arms |-> <<[on |-> {"true"}, body |-> yes], [on |-> {"false"}, body |-> no]>>]

HitMiss(t, hit, miss) ==
  [kind |-> "hitmiss", node |-> t,
   arms |-> <<[on |-> {"hit"}, body |-> hit], [on |-> {"miss"}, body |-> miss]>>]

ActionSwitch(t, acts, body, default) ==
  [kind |-> "actions", node |-> t,
   arms |-> <<[on |-> acts, body |-> body], [on |-> {"default"}, body |-> default]>>]

Invoke(body) == [kind |-> "control", node |-> None, arms |-> <<[on |-> {}, body |-> body]>>]

-----------------------------------------------------------------------------
\* The outcome of a call is a boolean, hit or miss, or the action that ran.  "unset" is a table that finds no entry and has
\* no default action configured; without an arm of its own it selects none.
ArmsOn(c, o) == {i \in DOMAIN c.arms : o \in c.arms[i].on}

\* The calls under the arm that outcome o of call c selects.
Selected(c, o) ==
  IF ArmsOn(c, o) # {} THEN c.arms[CHOOSE i \in ArmsOn(c, o) : TRUE].body
  ELSE IF o # "unset" /\ ArmsOn(c, "default") # {}
  THEN c.arms[CHOOSE i \in ArmsOn(c, "default") : TRUE].body
  ELSE <<>>

\* Invoked control functions are entered until the next table or condition.
RECURSIVE Unfold(_)
Unfold(todo) ==
  IF todo # <<>> /\ Head(todo).kind = "control"
  THEN Unfold(Head(todo).arms[1].body \o Tail(todo))
  ELSE todo

\* What is left to run once call Head(todo) had outcome o.
Continue(todo, o) == Unfold(Selected(Head(todo), o) \o Tail(todo))

\* Where the packet is.
AtCall(todo) == IF todo = <<>> THEN None ELSE Head(todo).node

-----------------------------------------------------------------------------
\* Every occurrence of a call of these kinds, at any depth, as its node.
RECURSIVE Occurrences(_, _)
Occurrences(calls, kinds) ==
  IF calls = <<>> THEN <<>>
  ELSE LET c == Head(calls)
           below[i \in 0 .. Len(c.arms)] ==
             IF i = 0 THEN <<>> ELSE below[i - 1] \o Occurrences(c.arms[i].body, kinds)
       IN (IF c.kind \in kinds THEN <<c.node>> ELSE <<>>)
          \o below[Len(c.arms)] \o Occurrences(Tail(calls), kinds)

TableKinds == {"apply", "hitmiss", "actions"}
NodesIn(calls, kinds) ==
  LET occ == Occurrences(calls, kinds) IN {occ[i] : i \in DOMAIN occ}
AllDistinct(seq) == \A i, j \in DOMAIN seq : seq[i] = seq[j] => i = j

-----------------------------------------------------------------------------
TableNames(tables, suffix) ==
  [t \in tables |-> [base |-> t[2], suffix |-> suffix, num |-> 0]]

CondName(num) == [base |-> "_condition_", suffix |-> "", num |-> num]

\* The tables of a program before its control functions are built: every
\* action of every table still leads nowhere.
NewProgram(tables, suffix) ==
  [next_ |-> [t \in tables |-> [a \in ActionsOf[t] |-> None]],
   base_default_next |-> [t \in tables |-> None],
   conditional_barrier |-> [t \in tables |-> {}],
   name |-> TableNames(tables, suffix),
   conds |-> <<>>,
   err |-> FALSE]

\* p4_conditional_node.__init__
NewConditional(h, c, barrier, version) ==
  [h EXCEPT !.next_ = (c :> [b \in {"true", "false"} |-> None]) @@ @,
            !.base_default_next = (c :> None) @@ @,
            !.conditional_barrier = (c :> barrier) @@ @,
            !.name = (c :> CondName(Len(h.conds) + version)) @@ @,
            !.conds = Append(@, c)]

\* The end of the loop body: the edges of the parents that lead nowhere now
\* lead to the entry of this call.
Patch(h, parents, entry) ==
  LET patched(edge) == IF edge = None THEN entry ELSE edge
  IN IF entry = None THEN h
     ELSE [h EXCEPT
       !.base_default_next = [n \in parents |-> entry] @@ @,
       !.next_ = [n \in parents |-> [l \in DOMAIN h.next_[n] |-> patched(h.next_[n][l])]] @@ @]

-----------------------------------------------------------------------------
RECURSIVE Build(_, _, _, _, _)

BuildTable(h, c, barrier, visited) ==
  [h |-> [h EXCEPT !.err = @ \/ c.node \in visited, !.conditional_barrier[c.node] = barrier],
   visited |-> visited \cup {c.node}, entry |-> c.node, exits |-> {c.node}]

\* The tables under the condition noted before they are compared with the ones
\* visited earlier.
BuildIfNotedEarly(h, c, barrier, visited, version) ==
  LET yes == Build(NewConditional(h, c.node, barrier, version), c.arms[1].body, {<<c.node, {"true"}>>}, {}, 0)
      no == Build(yes.h, c.arms[2].body, {<<c.node, {"false"}>>}, {}, 0)
      under == visited \cup yes.visited \cup no.visited
  IN [h |-> [no.h EXCEPT
               !.next_[c.node] = ("true" :> yes.entry) @@ ("false" :> no.entry),
               !.err = @ \/ under \cap (yes.visited \cup no.visited) # {}],
      visited |-> under,
      entry |-> c.node,
      exits |-> yes.exits \cup no.exits \cup {c.node}]

\* The nested calls are made without program_version: it falls back to 0.
BuildIf(h, c, barrier, visited, version) ==
  LET yes == Build(NewConditional(h, c.node, barrier, version), c.arms[1].body, {<<c.node, {"true"}>>}, {}, 0)
      no == Build(yes.h, c.arms[2].body, {<<c.node, {"false"}>>}, {}, 0)
      leads(t) == \E l \in DOMAIN no.h.next_[t] : no.h.next_[t][l] # None
      under == yes.visited \cup no.visited
  IN [h |-> [no.h EXCEPT
               !.next_[c.node] = ("true" :> yes.entry) @@ ("false" :> no.entry),
               !.err = \/ @
                       \/ \E t \in yes.visited \cap no.visited : leads(t)
                       \/ visited \cap under # {}],
      visited |-> visited \cup under,
      entry |-> c.node,
      exits |-> yes.exits \cup no.exits \cup {c.node}]

\* A case of apply(t) { ... }: the outcomes it stands for, its entry and exits.
BuildCase(b, t, arm, labels) ==
  IF arm.body = <<>> THEN b
  ELSE LET r == Build(b.h, arm.body, {<<t, labels>>}, b.visited, 0)
       IN [b EXCEPT !.h = r.h, !.visited = r.visited, !.exits = @ \cup r.exits,
                    !.paths = [l \in DOMAIN @ |-> IF l \in labels THEN r.entry ELSE @[l]]]

\* apply(t) { ... } neither looks the table up in visited nor adds it.
BuildSwitch(h, c, barrier, visited) ==
  LET paths == IF c.kind = "hitmiss" THEN [l \in {"hit", "miss"} |-> None] ELSE h.next_[c.node]
      listed == UNION {c.arms[i].on : i \in DOMAIN c.arms}
      labels(arm) == IF arm.on = {"default"} THEN DOMAIN paths \ listed ELSE arm.on
      r == FoldLeft(LAMBDA b, arm : BuildCase(b, c.node, arm, labels(arm)),
                    [h |-> [h EXCEPT !.conditional_barrier[c.node] = barrier],
                     visited |-> visited, exits |-> {}, paths |-> paths], c.arms)
  IN [h |-> [r.h EXCEPT !.next_[c.node] = r.paths],
      visited |-> r.visited, entry |-> c.node, exits |-> r.exits \cup {c.node}]

BuildCall(h, c, barrier, visited, version) ==
  CASE c.kind = "apply" -> BuildTable(h, c, barrier, visited)
    [] c.kind = "if" -> BuildIf(h, c, barrier, visited, version)
    [] c.kind = "control" -> Build(h, c.arms[1].body, barrier, visited, 0)
    [] OTHER -> BuildSwitch(h, c, barrier, visited)

Build(h, calls, barrier, visited, version) ==
  FoldLeft(LAMBDA w, c :
             LET r == BuildCall(w.h, c, barrier, w.visited, version)
             IN [h |-> Patch(r.h, w.exits, r.entry),
                 visited |-> r.visited,
                 entry |-> IF w.entry = None THEN r.entry ELSE w.entry,
                 exits |-> IF r.exits = {} THEN w.exits ELSE r.exits],
           [h |-> h, visited |-> visited, entry |-> None, exits |-> {}], calls)

\* The ingress and then the egress control function of a program, as p4_validate
\* builds them: the tables visited are those of one control function, the
\* conditional nodes are numbered through both.
ProgramOf(ingress, egress, suffix, version) ==
  LET tables == NodesIn(ingress \o egress, TableKinds)
      in == Build(NewProgram(tables, suffix), ingress, {}, {}, version)
      out == Build(in.h, egress, {}, {}, version)
  IN out.h @@ [p4_ingress_ptr |-> in.entry, p4_egress_ptr |-> out.entry]
=============================================================================
