------------------------------- MODULE Stages -------------------------------
(***************************************************************************)
(* What is made of the dependencies (p4_hlir/graphs/dependency_graph.py):  *)
(* the least number of stages a pipeline needs (generate_graph,            *)
(* count_min_stages), or, with a node for the match and one for the action *)
(* of every table, the earliest and the latest time of each                *)
(* (generate_graph2, critical_path forward and backward).                  *)
(*                                                                         *)
(* A graph is a function from its edges to their types, and from them to   *)
(* their latencies.  The nodes are taken in topological order; any such    *)
(* order is tried, not only those of a depth-first search.  Which edges    *)
(* are on a critical path is only drawn and is left out.                   *)
(***************************************************************************)
EXTENDS TableDependency

CONSTANTS MinMatchLatency, MinActionLatency

ASSUME LatencyAssumption == MinMatchLatency \in Nat \ {0} /\ MinActionLatency \in Nat \ {0}

VARIABLES
  early,   \* of the nodes come to: stage or earliest time
  late,    \* of the nodes come to on the way back: latest time
  ahead    \* of the nodes with an edge from those: the longest path to them so far

vars == <<depVars, early, late, ahead>>

\* Dependency of dependency_graph.py: the types are numbered anew, and whether a
\* barrier is a condition or a table no longer matters.
EdgeType(type) ==
  CASE type = MATCH -> 4
    [] type = ACTION_DEP -> 3
    [] type \in {SUCCESSOR, PREDICATION} -> 2
    [] type = REVERSE_READ -> 1
    [] OTHER -> 0

\* generate_graph: the dependencies annotated, and the edges of the table graph that
\* are none.
TypeOfEdge == [e \in Positive(deps) \cup Edges(graph) |->
                 IF e \in DOMAIN deps THEN EdgeType(deps[e]) ELSE 0]

-----------------------------------------------------------------------------
\* generate_graph2.  A condition is matched and done in one.
Match(n) == <<n, "match">>
Action(n) == IF IsConditional(n) THEN <<n, "match">> ELSE <<n, "action">>

SplitNodes == {Match(n) : n \in Nodes} \cup {Action(n) : n \in Nodes}

\* An action waits for its own match and for the dependencies of its table, of which
\* a successor waits for the match of the other table only.
SplitEdge(e, type) ==
  CASE type = 4 -> [from |-> Action(e[1]), to |-> Match(e[2]), latency |-> MinActionLatency]
    [] type = 3 -> [from |-> Action(e[1]), to |-> Action(e[2]), latency |-> MinActionLatency]
    [] type = 2 -> [from |-> Match(e[1]), to |-> Action(e[2]), latency |-> IF IsConditional(e[1]) THEN 0 ELSE MinMatchLatency]
    [] OTHER -> [from |-> Action(e[1]), to |-> Action(e[2]), latency |-> 0]

SplitEdges ==
  {SplitEdge(e, TypeOfEdge[e]) : e \in {d \in DOMAIN TypeOfEdge : TypeOfEdge[d] > 0}}
    \cup {[from |-> Match(n), to |-> Action(n), latency |-> MinMatchLatency] : n \in {m \in Nodes : ~IsConditional(m)}}

\* The edges a node waits for in the graph in use, those without a dependency included.
Waits ==
  IF prog.split
  THEN {<<e.from, e.to>> : e \in SplitEdges}
         \cup {<<Action(e[1]), Match(e[2])>> : e \in {d \in DOMAIN TypeOfEdge : TypeOfEdge[d] = 0}}
  ELSE DOMAIN TypeOfEdge

AllNodes == IF prog.split THEN SplitNodes ELSE Nodes

-----------------------------------------------------------------------------
Init == Analyse /\ early = <<>> /\ late = <<>> /\ ahead = <<>>

Analysing ==
  /\ \/ \E e \in rest : FollowEdge(e)
     \/ Resolved
     \/ \E u \in unreduced : Reduce(u)
  /\ UNCHANGED <<early, late, ahead>>

\* The next node in topological order.
Forward(n) ==
  /\ Annotated
  /\ n \in AllNodes \ DOMAIN early
  /\ \A w \in Waits : w[2] = n => w[1] \in DOMAIN early

At(times, n, time) == [m \in DOMAIN times \cup {n} |-> IF m = n THEN time ELSE times[m]]

\* One stage after any node waited for.
PlaceAfter(n) ==
  LET from == {e[1] : e \in {d \in DOMAIN TypeOfEdge : d[2] = n /\ TypeOfEdge[d] > 0}}
      last == CHOOSE i \in {early[u] : u \in from} : \A u \in from : early[u] <= i
  IN /\ ~prog.split /\ Forward(n)
     /\ early' = At(early, n, IF from = {} THEN 0 ELSE last + 1)
     /\ UNCHANGED <<depVars, late, ahead>>

\* count_min_stages: the last stage with a node this one depends on, or the one after it
\* if one there is an action or match dependency.
Place(n) ==
  LET from == {e[1] : e \in {d \in DOMAIN TypeOfEdge : d[2] = n /\ TypeOfEdge[d] > 0}}
      last == CHOOSE i \in {early[u] : u \in from} : \A u \in from : early[u] <= i
      next == \E u \in from : early[u] = last /\ TypeOfEdge[<<u, n>>] >= 3
  IN /\ ~prog.split /\ Forward(n)
     /\ early' = At(early, n, IF from = {} THEN 0 ELSE IF next THEN last + 1 ELSE last)
     /\ UNCHANGED <<depVars, late, ahead>>

PathTo(n) == IF n \in DOMAIN ahead THEN ahead[n] ELSE 0

\* The last path found to a node, not the longest.
RelaxLast(n, edges) ==
  [to \in DOMAIN ahead \cup DOMAIN edges |-> IF to \in DOMAIN edges THEN PathTo(n) + edges[to] ELSE PathTo(to)]

\* critical_path, for one node: the paths to the nodes it has edges to get longer.
Relax(n, edges) ==
  [to \in DOMAIN ahead \cup DOMAIN edges |->
     IF to \in DOMAIN edges /\ PathTo(n) + edges[to] > PathTo(to) THEN PathTo(n) + edges[to] ELSE PathTo(to)]

Out(n) == [to \in {e.to : e \in {d \in SplitEdges : d.from = n}} |-> (CHOOSE e \in SplitEdges : e.from = n /\ e.to = to).latency]
In(n) == [from \in {e.from : e \in {d \in SplitEdges : d.to = n}} |-> (CHOOSE e \in SplitEdges : e.from = from /\ e.to = n).latency]

ForwardPath(n) ==
  /\ prog.split /\ Forward(n)
  /\ early' = At(early, n, PathTo(n))
  /\ ahead' = IF DOMAIN early' = AllNodes THEN <<>> ELSE Relax(n, Out(n))
  /\ UNCHANGED <<depVars, late>>

\* The same against the direction of the edges.
BackwardPath(n) ==
  /\ prog.split /\ DOMAIN early = AllNodes
  /\ n \in AllNodes \ DOMAIN late
  /\ \A w \in Waits : w[1] = n => w[2] \in DOMAIN late
  /\ late' = At(late, n, PathTo(n))
  /\ ahead' = Relax(n, In(n))
  /\ UNCHANGED <<depVars, early>>

Counting == \E n \in AllNodes : Place(n) \/ ForwardPath(n) \/ BackwardPath(n)

Next == Analysing \/ Counting

Spec == Init /\ [][Next]_vars

-----------------------------------------------------------------------------
Longest(path) == CHOOSE i \in {path[n] : n \in DOMAIN path} : \A n \in DOMAIN path : path[n] <= i
Latest(n) == Longest(late) - late[n]

\* In stages, one table after another if it depends on its action, never before one it
\* depends on at all, whether or not redundant dependencies were left out; and no table
\* is later than these ask for.
StagesLeast ==
  ~prog.split /\ Annotated /\ DOMAIN early = Nodes =>
    LET dependent == Positive(found)
        least(e) == early[e[1]] + IF found[e] >= ACTION_DEP THEN 1 ELSE 0
    IN /\ \A e \in dependent : early[e[2]] >= least(e)
       /\ \A n \in Nodes : early[n] > 0 => \E e \in dependent : e[2] = n /\ early[n] = least(e)

\* No node is early enough to miss one it waits for.  After both passes over the graph,
\* they agree on the length of the critical path, and no node is due before it can be done
\* or before one it waits for is due.
TimesAgree ==
  prog.split /\ Annotated =>
    /\ \A e \in SplitEdges : e.to \in DOMAIN early => early[e.from] + e.latency <= early[e.to]
    /\ DOMAIN late = AllNodes =>
         /\ Longest(early) = Longest(late)
         /\ \A n \in AllNodes : early[n] <= Latest(n)
         /\ \A e \in SplitEdges : Latest(e.from) + e.latency <= Latest(e.to)
=============================================================================
