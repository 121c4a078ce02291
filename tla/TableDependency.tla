--------------------------- MODULE TableDependency ---------------------------
(***************************************************************************)
(* Which tables of a pipeline must follow which (annotate_hlir,            *)
(* p4_hlir/hlir/table_dependency.py).  Every edge of the optimised table   *)
(* graph is followed from its table to all that can be reached, with the   *)
(* fields the actions on that edge touch; a dependency found later takes   *)
(* the place of one found earlier.  Optionally, dependencies that follow   *)
(* from others are then marked as redundant.                               *)
(*                                                                         *)
(* Only the kind of a dependency is kept here, not the list of fields that *)
(* cause it.  The dummy table in front of the pipeline touches no field    *)
(* and is no barrier, and is left out.                                     *)
(*                                                                         *)
(* A program is a record:                                                  *)
(*   graph    its table graph once it is optimised                         *)
(*   match    the fields a table or a condition looks at                   *)
(*   reads, writes   of a table, what each of its actions reads and writes *)
(*   results  the results of the direct meters of a table                  *)
(*   default  of a table, its default action if it has one, in a set       *)
(*   reduce   the option do_transitive_reduction                           *)
(***************************************************************************)
EXTENDS Integers, FiniteSets, SequencesExt

CONSTANT Programs   \* the programs analysed

-----------------------------------------------------------------------------
Successors(h, n) == {h.next_[n][l] : l \in DOMAIN h.next_[n]} \cap DOMAIN h.next_

\* The nodes from n on: those in every set that n is in and no edge leaves.
Below(edges, n) ==
  LET nodes == {n} \cup {e[2] : e \in edges}
  IN {m \in nodes : \A S \in SUBSET nodes :
        n \in S /\ (\A e \in edges : e[1] \in S => e[2] \in S) => m \in S}

\* The nodes of a pipeline, and its edges (next_tables_control).
NodesOf(h) ==
  LET edges == UNION {{<<u, v>> : v \in Successors(h, u)} : u \in DOMAIN h.next_}
  IN Below(edges, h.p4_ingress_ptr) \cap DOMAIN h.next_

Edges(h) == UNION {{<<u, v>> : v \in Successors(h, u)} : u \in NodesOf(h)}

\* Without a cycle, as validate asserts; and a conditional barrier is what the
\* optimiser has found it to be, a node in front.
ASSUME ProgramsAssumption ==
  \A p \in Programs :
    LET edges == Edges(p.graph)
    IN /\ IsFiniteSet(DOMAIN p.graph.next_)
       /\ \A e \in edges : e[1] \notin Below(edges, e[2])
       /\ \A v \in NodesOf(p.graph) : \A b \in p.graph.conditional_barrier[v] :
             b[1] # v /\ v \in Below(edges, b[1])

VARIABLES
  prog,      \* the program
  deps,      \* of a pair of nodes, the type of the dependency between them
  rest,      \* the edges of the graph that have not been followed yet
  resolved,  \* whether resolve_dependencies has ended
  found,     \* what deps was then, before it was reduced
  unreduced  \* the nodes transitive_reduction has not come to yet

depVars == <<prog, deps, rest, resolved, found, unreduced>>

graph == prog.graph
Nodes == NodesOf(graph)

NOP == -2
CONTROL_FLOW == -1
REDUNDANT == 0
REVERSE_READ == 1
PREDICATION == 4
SUCCESSOR == 5
ACTION_DEP == 6
MATCH == 7

-----------------------------------------------------------------------------
IsConditional(n) == n \in ToSet(graph.conds)

\* The fields that actions of a node read or write, and the results of the direct
\* meters of its table.  A condition has no actions.
ActionsAt(n) == IF IsConditional(n) THEN {} ELSE DOMAIN prog.reads[n]
Read(n, actions) == UNION {prog.reads[n][a] : a \in actions}
Written(n, actions) == prog.results[n] \cup UNION {prog.writes[n][a] : a \in actions}
Touched(n, actions) == Read(n, actions) \cup Written(n, actions)

\* The actions after which a packet takes an edge.  Where hit and miss lead to one
\* node, hit is the one looked at last.
ActionSet(h, u, v) ==
  LET labels == {l \in DOMAIN h.next_[u] : h.next_[u][l] = v}
  IN CASE IsConditional(u) -> {}
       [] "hit" \in labels -> ActionsAt(u)
       [] labels = {"miss"} -> IF prog.default[u] = {} THEN ActionsAt(u) ELSE prog.default[u]
       [] OTHER -> labels

\* rmt_table_dependency.resolve_type
ResolveType(h, u, actions, v) ==
  CASE Written(u, actions) \cap prog.match[v] # {} -> MATCH
    [] Written(u, actions) \cap Touched(v, ActionsAt(v)) # {} -> ACTION_DEP
    [] \E b \in h.conditional_barrier[v] : b[1] = u -> IF IsConditional(u) THEN SUCCESSOR ELSE PREDICATION
    [] (prog.match[u] \cup Read(u, actions)) \cap Written(v, ActionsAt(v)) # {} -> REVERSE_READ
    [] OTHER -> NOP

\* The edges themselves are resolved first.
Direct(h) ==
  [e \in Edges(h) |->
     LET type == ResolveType(h, e[1], ActionSet(h, e[1], e[2]), e[2])
     IN IF type = NOP THEN CONTROL_FLOW ELSE type]

Analyse ==
  /\ prog \in Programs
  /\ deps = Direct(graph)
  /\ rest = Edges(graph)
  /\ resolved = FALSE
  /\ found = <<>>
  /\ unreduced = {}

-----------------------------------------------------------------------------
\* The nodes are gone through one by one, in an order that does not matter.
InTurn == CHOOSE n \in {e[1] : e \in rest} : TRUE

\* Only the node an edge leads to is looked at.
FollowShort(e) ==
  LET type(to) == ResolveType(graph, e[1], ActionSet(graph, e[1], e[2]), to)
      new == {<<e[1], to>> : to \in {t \in {e[2]} : type(t) # NOP}}
  IN /\ e \in rest /\ e[1] = InTurn
     /\ deps' = [d \in DOMAIN deps \cup new |-> IF d \in new THEN type(d[2]) ELSE deps[d]]
     /\ rest' = rest \ {e}
     /\ UNCHANGED <<prog, resolved, found, unreduced>>

\* resolve_rec: the edges of a node come in the order of a dictionary.
FollowEdge(e) ==
  LET type(to) == ResolveType(graph, e[1], ActionSet(graph, e[1], e[2]), to)
      new == {<<e[1], to>> : to \in {t \in Below(Edges(graph), e[2]) : type(t) # NOP}}
  IN /\ e \in rest /\ e[1] = InTurn
     /\ deps' = [d \in DOMAIN deps \cup new |-> IF d \in new THEN type(d[2]) ELSE deps[d]]
     /\ rest' = rest \ {e}
     /\ UNCHANGED <<prog, resolved, found, unreduced>>

\* All edges have been followed; do_transitive_reduction is an option.
Resolved ==
  /\ rest = {} /\ ~resolved
  /\ resolved' = TRUE
  /\ found' = deps
  /\ unreduced' = IF prog.reduce THEN Nodes ELSE {}
  /\ UNCHANGED <<prog, deps, rest>>

Positive(d) == {e \in DOMAIN d : d[e] > 0}

\* A path from u to v over dependencies, one of them at least s.
StrongPath(d, u, v, s) ==
  \E f \in Positive(d) :
    /\ d[f] >= s
    /\ f[1] \in Below(Positive(d), u) /\ v \in Below(Positive(d), f[2])

\* Another path makes an edge redundant whatever there is on it.
ReduceByAnyPath(u) ==
  LET around(e) == \E f \in Positive(deps) :
                      f[1] = u /\ f[2] # e[2] /\ e[2] \in Below(Positive(deps), f[2])
  IN /\ u \in unreduced
     /\ deps' = [e \in DOMAIN deps |-> IF e[1] = u /\ deps[e] > 0 /\ around(e) THEN REDUNDANT ELSE deps[e]]
     /\ unreduced' = unreduced \ {u}
     /\ UNCHANGED <<prog, rest, resolved, found>>

\* transitive_reduction, for one node: a longer path makes an edge redundant if it is
\* as strong somewhere, at its first step or later.
Reduce(u) ==
  LET around(e) == \E f \in Positive(deps) :
                      /\ f[1] = u /\ f[2] # e[2] /\ e[2] \in Below(Positive(deps), f[2])
                      /\ deps[f] >= deps[e] \/ StrongPath(deps, f[2], e[2], deps[e])
  IN /\ u \in unreduced
     /\ deps' = [e \in DOMAIN deps |-> IF e[1] = u /\ deps[e] > 0 /\ around(e) THEN REDUNDANT ELSE deps[e]]
     /\ unreduced' = unreduced \ {u}
     /\ UNCHANGED <<prog, rest, resolved, found>>

Annotated == resolved /\ unreduced = {}

-----------------------------------------------------------------------------
\* Dependencies only lead forward, and their types are ones the code knows.
TypeOK ==
  LET edges == Edges(graph)
  IN /\ \A e \in DOMAIN deps :
          /\ deps[e] \in {CONTROL_FLOW, REDUNDANT, REVERSE_READ, PREDICATION, SUCCESSOR, ACTION_DEP, MATCH}
          /\ e[1] # e[2] /\ e[2] \in Below(edges, e[1])
     /\ rest \subseteq edges
     /\ unreduced \subseteq Nodes
     /\ resolved \in BOOLEAN

\* What a packet that does action a in u, and comes to v later, asks for: v reads
\* or writes what a has written, or writes what u and a have read.
Conflict(u, a, v) ==
  \/ Written(u, {a}) \cap (prog.match[v] \cup Touched(v, ActionsAt(v))) # {}
  \/ (prog.match[u] \cup Read(u, {a})) \cap Written(v, ActionsAt(v)) # {}

\* The nodes a packet that does a in u can come to.
Leads(u, a) ==
  LET edges == Edges(graph)
  IN UNION {Below(edges, e[2]) : e \in {d \in edges : d[1] = u /\ a \in ActionSet(graph, u, d[2])}}

\* Whatever the order in which the edges of a table are followed, no two tables
\* between which a field is passed, or overwritten, are left without a dependency,
\* and what is under a condition depends on it: the tables may not be swapped.
NothingForgotten ==
  resolved =>
    LET dependent == Positive(found)
    IN /\ \A u \in Nodes : \A a \in ActionsAt(u) : \A v \in Leads(u, a) :
            Conflict(u, a, v) => <<u, v>> \in dependent
       /\ \A v \in Nodes : \A b \in graph.conditional_barrier[v] : <<b[1], v>> \in dependent

\* Whatever the order of the reduction, every dependency that is marked redundant
\* still follows from those that are left, by a path at least as strong.
ReductionKeeps ==
  Annotated => \A e \in Positive(found) : StrongPath(deps, e[1], e[2], found[e])

\* "All possible dependencies" are computed: a table whose key reads what an action
\* before it writes is found to depend on it by a match dependency.
MatchesFound ==
  resolved =>
    \A u \in Nodes : \A a \in ActionsAt(u) : \A v \in Leads(u, a) :
      Written(u, {a}) \cap prog.match[v] # {} => found[<<u, v>>] = MATCH
=============================================================================
