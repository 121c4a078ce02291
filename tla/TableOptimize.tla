--------------------------- MODULE TableOptimize ---------------------------
(***************************************************************************)
(* What HLIR.build does to the table graph after it has been validated     *)
(* (optimize_table_graph, p4_hlir/hlir/p4_tables.py, with the Solver of    *)
(* exclusive_conditions.py): a condition whose value follows from the      *)
(* conditions around it, given the headers the parser can extract          *)
(* together, is bypassed; what can no longer be reached is removed; every  *)
(* node is told the conditional barriers it is behind.                     *)
(*                                                                         *)
(* The solver is written for actions that change the validity of headers,  *)
(* but _set_modified_hdrs starts from the empty set and only intersects:   *)
(* no header is ever dangerous, and there is nothing of it to model.       *)
(***************************************************************************)
EXTENDS TableGraph

CONSTANTS
  Headers,      \* the header instances that are not metadata
  Extracts,     \* of every parser state, the headers it extracts
  BranchTo,     \* of every parser state, the states and control functions it goes on to
  Condition     \* of every conditional node, its expression

\* Expressions over the validity of headers; whatever else a P4 condition tests is opaque.
Valid(hdr) == [op |-> "valid", right |-> hdr]
And(c, d) == [op |-> "and", left |-> c, right |-> d]
Not(c) == [op |-> "not", right |-> c]
Opaque == [op |-> "opaque"]

-----------------------------------------------------------------------------
\* The sets of headers a packet can have left the parser with.
RECURSIVE ParserPaths(_, _)
ParserPaths(state, hdrs) ==
  IF state \notin DOMAIN BranchTo THEN {hdrs}
  ELSE IF Extracts[state] \cap hdrs # {} THEN {hdrs \cup Extracts[state]}
  ELSE UNION {ParserPaths(next, hdrs \cup Extracts[state]) : next \in BranchTo[state]}

Paths == ParserPaths("start", {})

Compatible(hdr) == UNION {p \in Paths : hdr \in p}

\* The headers that come with hdr, taken the other way round.
ImpliedBackwards(hdr) == {other \in Headers : \A p \in Paths : other \in p => hdr \in p}

Implied(hdr) == {other \in Headers : \A p \in Paths : hdr \in p => other \in p}

Coherent(valid, used) ==
  \A hdr1, hdr2 \in used :
    /\ hdr1 \in valid /\ hdr2 \in valid => hdr2 \in Compatible(hdr1)
    /\ hdr2 \in valid /\ hdr1 \in Implied(hdr2) => hdr1 \in valid

RECURSIVE HeadersIn(_)
HeadersIn(c) ==
  CASE c.op = "valid" -> {c.right}
    [] c.op = "and" -> HeadersIn(c.left) \cup HeadersIn(c.right)
    [] c.op = "not" -> HeadersIn(c.right)
    [] OTHER -> {}

\* Solver._check_condition
RECURSIVE Check(_, _)
Check(c, valid) ==
  CASE c.op = "valid" -> IF c.right \in valid THEN "true" ELSE "false"
    [] c.op = "and" -> LET both == {Check(c.left, valid), Check(c.right, valid)}
                       IN IF both = {"true"} THEN "true" ELSE IF "false" \in both THEN "false" ELSE "unknown"
    [] c.op = "not" -> LET right == Check(c.right, valid)
                       IN IF right = "true" THEN "false" ELSE IF right = "false" THEN "true" ELSE "unknown"
    [] OTHER -> "unknown"

\* Solver.evaluate_condition: known is a set of conditional nodes with their values.
Evaluate(c, known) ==
  LET used == HeadersIn(Condition[c]) \cup UNION {HeadersIn(Condition[k[1]]) : k \in known}
      possible == {v \in SUBSET used : Coherent(v, used)
                     /\ \A k \in known : Check(Condition[k[1]], v) \in {k[2], "unknown"}}
      values == {Check(Condition[c], v) : v \in possible}
  IN CASE values = {"true"} -> "true" [] values = {"false"} -> "false" [] OTHER -> "unknown"

-----------------------------------------------------------------------------
IsCond(n) == n \in DOMAIN Condition

\* The conditions n is under, with their values (_get_all_conditions).
RECURSIVE Known(_, _)
Known(h, n) ==
  IF h.conditional_barrier[n] = {} THEN {}
  ELSE LET b == CHOOSE pair \in h.conditional_barrier[n] : TRUE
       IN (IF IsCond(b[1]) THEN {<<b[1], value>> : value \in b[2]} ELSE {}) \cup Known(h, b[1])

\* Every edge of n that leads to a condition whose value is known along that edge.
Bypass(h, n) ==
  LET known(l) == Known(h, n) \cup (IF IsCond(n) THEN {<<n, l>>} ELSE {})
      after(l, nt) ==
        IF ~IsCond(nt) THEN nt
        ELSE LET value == Evaluate(nt, known(l)) IN IF value = "unknown" THEN nt ELSE h.next_[nt][value]
  IN [h EXCEPT !.next_[n] = [l \in DOMAIN @ |-> after(l, @[l])]]

\* A loop over hlir.p4_nodes: the tables, in any order, as no step looks at the edges of
\* a table but its own, then the conditions as they were made.
NodeOrder(h) == SetToSeq(DOMAIN h.next_ \ ToSet(h.conds)) \o h.conds

RECURSIVE BypassAll(_)
BypassAll(h) ==
  LET swept == FoldLeft(Bypass, h, NodeOrder(h))
  IN IF \E n \in DOMAIN h.next_ : \E l \in DOMAIN h.next_[n] : swept.next_[n][l] # h.next_[n][l]
     THEN BypassAll(swept) ELSE h

-----------------------------------------------------------------------------
\* _find_unused_nodes_step
RECURSIVE MarkFrom(_, _, _)
MarkFrom(next_, entry, marked) ==
  IF entry = None \/ entry \in marked THEN marked
  ELSE FoldSet(LAMBDA n, m : MarkFrom(next_, n, m), marked \cup {entry},
               {next_[entry][l] : l \in DOMAIN next_[entry]})

MarkUsed(h) == MarkFrom(h.next_, h.p4_egress_ptr, MarkFrom(h.next_, h.p4_ingress_ptr, {}))

\* _find_conditional_barrier: whether a packet at entry always or never gets to
\* node, and otherwise under which outcomes of which nodes; "assert" where an
\* assertion fails.
RECURSIVE FindBarrier(_, _, _)
FindBarrier(next_, entry, node) ==
  IF entry = node THEN [reached |-> "always", under |-> {}]
  ELSE IF entry = None THEN [reached |-> "never", under |-> {}]
  ELSE LET outs == {next_[entry][l] : l \in DOMAIN next_[entry]}
           along == {<<nt, FindBarrier(next_, nt, node)>> : nt \in outs}
           results == {a[2] : a \in along}
           reached == {r.reached : r \in results}
           always == {a[1] : a \in {b \in along : b[2].reached = "always"}}
       IN CASE "assert" \in reached -> [reached |-> "assert", under |-> {}]
            [] Cardinality(results) = 1 -> CHOOSE r \in results : TRUE
            [] reached = {"always", "never"} ->
                 [reached |-> "under",
                  under |-> {<<entry, {l \in DOMAIN next_[entry] : next_[entry][l] \in always}>>}]
            [] reached = {"always", "never", "under"} -> [reached |-> "assert", under |-> {}]
            [] OTHER -> [reached |-> "under", under |-> UNION {r.under : r \in results}]

\* _update_conditional_barriers
UpdateBarriers(h, marked) ==
  LET found == {<<n, FindBarrier(h.next_, h.p4_ingress_ptr, n), FindBarrier(h.next_, h.p4_egress_ptr, n)>> : n \in marked}
      barrier == {<<f[1], IF f[2].reached = "never" THEN f[3] ELSE f[2]>> : f \in found}
      under(n) == (CHOOSE b \in barrier : b[1] = n)[2].under
  IN [h EXCEPT !.conditional_barrier = [n \in marked |-> under(n)] @@ @,
               !.err = @ \/ \E b \in barrier : b[2].reached = "assert"]

\* The edges of n past the conditions both of whose edges lead to the same node;
\* none of these is still the barrier of another node.
SkipUseless(w, n) ==
  LET edges == w.h.next_[n]
      gone == {nt \in {edges[l] : l \in DOMAIN edges} :
                 IsCond(nt) /\ w.h.next_[nt]["true"] = w.h.next_[nt]["false"]}
  IN [w EXCEPT !.h.next_[n] = [l \in DOMAIN edges |->
                                 IF edges[l] \in gone THEN w.h.next_[edges[l]]["true"] ELSE edges[l]],
               !.h.err = @ \/ gone \cap w.used # {},
               !.removed = @ \cup gone]

\* _remove_unused_conditions: until no condition is useless.
RECURSIVE RemoveUnusedConditions(_, _)
RemoveUnusedConditions(h, marked) ==
  LET start == [h |-> h, removed |-> {},
                used |-> {b[1] : b \in UNION {h.conditional_barrier[n] : n \in marked}}]
      r == FoldLeft(LAMBDA w, n : IF n \in marked THEN SkipUseless(w, n) ELSE w, start, NodeOrder(h))
  IN IF r.removed = {} THEN [h |-> h, marked |-> marked]
     ELSE RemoveUnusedConditions(r.h, marked \ r.removed)

\* _update_base_default_next: what is gone is replaced by its own base_default_next.
RECURSIVE StillThere(_, _, _)
StillThere(h, marked, n) ==
  IF n = None \/ n \in marked THEN n ELSE StillThere(h, marked, h.base_default_next[n])

\* Only the nodes marked are kept; base is their base_default_next.
Kept(h, marked, base) ==
  [h EXCEPT !.next_ = Restrict(h.next_, marked),
            !.name = Restrict(h.name, marked),
            !.conditional_barrier = Restrict(h.conditional_barrier, marked),
            !.base_default_next = base,
            !.conds = SelectSeq(h.conds, LAMBDA n : n \in marked)]

\* _purge_unused_nodes
Purge(h) ==
  LET first == MarkUsed(h)
      r == RemoveUnusedConditions(UpdateBarriers(h, first), first)
  IN Kept(r.h, r.marked, [n \in r.marked |-> StillThere(h, r.marked, h.base_default_next[n])])

\* A node that cannot be reached has no _modified_hdrs to delete: the compiler stops
\* with an AttributeError.
Optimize(h) ==
  IF h.err THEN h
  ELSE IF MarkUsed(h) # DOMAIN h.next_ THEN [h EXCEPT !.err = TRUE]
  ELSE Purge(BypassAll(h))
=============================================================================
