------------------------------ MODULE Solution ------------------------------
(***************************************************************************)
(* The life of one Solution object (mwis/src/Solution.cpp): any sequence   *)
(* of addVertex and removeVertex calls that respects what every caller in  *)
(* the file respects - a vertex is added while it is free and removed      *)
(* while it is in the solution.  Each call is split where the code's loop  *)
(* over the adjacency list takes its next element, so the states in the    *)
(* middle of a call, where tightness_ is only partly updated, are states   *)
(* of the model: they are what the moves between blocks act on.            *)
(***************************************************************************)
EXTENDS SolutionOps

CONSTANT Graphs   \* the problem instances

ASSUME GraphsAssumption == \A h \in Graphs : IsSimpleGraph(h)

VARIABLES
  g,      \* the instance (g_), chosen once
  s,      \* the fields of the object
  call    \* the call in progress: op, vertex, index of the next neighbour

vars == <<g, s, call>>

Idle == [op |-> "none", v |-> 0, i |-> 1]

Init ==
  /\ g \in Graphs
  /\ s = NewSolution(g)
  /\ call = Idle

AddCall(v) ==
  /\ call.op = "none"
  /\ IsFree(s, v)
  /\ s' = AddHead(g, s, v)
  /\ call' = [op |-> "add", v |-> v, i |-> 1]
  /\ UNCHANGED g

RemoveCall(v) ==
  /\ call.op = "none"
  /\ InSolution(s, v)
  /\ s' = RemoveHead(g, s, v)
  /\ call' = [op |-> "remove", v |-> v, i |-> 1]
  /\ UNCHANGED g

InLoop(op) == call.op = op /\ call.i <= Len(g.adj[call.v])

AddLoop ==
  /\ InLoop("add")
  /\ s' = AddNeighborOf(g, s, call.v, g.adj[call.v][call.i])
  /\ call' = [call EXCEPT !.i = @ + 1]
  /\ UNCHANGED g

RemoveLoop ==
  /\ InLoop("remove")
  /\ s' = RemoveNeighborOf(g, s, call.v, g.adj[call.v][call.i])
  /\ call' = [call EXCEPT !.i = @ + 1]
  /\ UNCHANGED g

Return ==
  /\ call.op # "none"
  /\ call.i > Len(g.adj[call.v])
  /\ call' = Idle
  /\ UNCHANGED <<g, s>>

Next ==
  \/ \E v \in Vertices(g) : AddCall(v) \/ RemoveCall(v)
  \/ AddLoop
  \/ RemoveLoop
  \/ Return

Spec == Init /\ [][Next]_vars

-----------------------------------------------------------------------------
(***************************************************************************)
(* Properties                                                              *)
(***************************************************************************)

CallType == [op : {"none", "add", "remove"}, v : Nat, i : Nat \ {0}]

\* Every field keeps its type and no array is indexed outside 0 .. n-1.
TypeOK ==
  /\ IsSimpleGraph(g)
  /\ s \in SolutionType(g)
  /\ s.size + s.free <= g.n
  /\ call \in CallType
  /\ call.op # "none" => /\ call.v \in Vertices(g)
                         /\ call.i <= Len(g.adj[call.v]) + 1

\* solution_ and position_ stay each other's inverse through every swap, in
\* the middle of a call too: no vertex is ever lost or listed twice.
Permutation == InverseArrays(g, s)

\* The members of the solution are pairwise non adjacent at every moment,
\* although the code only ever looks at block boundaries and counters.
IndependentISet == Independent(g, ISet(s))

\* The neighbours of the vertex of the call that its loop has yet to reach.
Pending ==
  IF call.op = "none" THEN {}
  ELSE {g.adj[call.v][i] : i \in call.i .. Len(g.adj[call.v])}

\* tightness_ counts the neighbours in the solution exactly, up to the call in
\* progress: an unfinished add has not counted its vertex for the pending
\* neighbours, an unfinished remove still counts it for them.
Owed(u) == IF u \notin Pending THEN 0 ELSE IF call.op = "add" THEN -1 ELSE 1

TightnessCounts ==
  \A u \in Vertices(g) :
     s.tight[u] = Cardinality(Neighbors(g, u) \cap ISet(s)) + Owed(u)

\* The free block holds exactly the vertices outside the solution whose
\* counter is zero: addVertex and removeVertex move a vertex across the second
\* boundary exactly when its counter leaves or reaches zero.
FreeIffUntight ==
  \A v \in Vertices(g) : ~InSolution(s, v) => (IsFree(s, v) <=> s.tight[v] = 0)

\* weight_ is the weight of the members, and mu_ what the insertion of a
\* vertex at the cost of its neighbours would gain: the two sums that the
\* improvements compare and that are only ever updated by differences.
SumOver(S) == MapThenSumSet(LAMBDA v : g.weight[v], S)

WeightsAddUp ==
  /\ s.weight = SumOver(ISet(s))
  /\ \A u \in Vertices(g) :
        s.mu[u] = g.weight[u] - SumOver(Neighbors(g, u) \cap ISet(s))
                   - Owed(u) * (IF call.op = "none" THEN 0 ELSE g.weight[call.v])

\* The assertions of the four moves, compiled out of the shipped build: a
\* vertex is moved out of the block it is in.  addVertex tests this for its
\* neighbours, removeVertex relies on the counter.
MovesFromOwnBlock ==
  /\ InLoop("remove") =>
        LET u == g.adj[call.v][call.i] IN s.tight[u] = 1 => IsNonFree(s, u)
  /\ InLoop("add") => ~InSolution(s, g.adj[call.v][call.i])

\* While addVertex(v) runs v is a member, although some of its neighbours are
\* still counted as having no member beside them; while removeVertex(v) runs v is
\* free and none of its neighbours is a member, whatever moves the loop has made.
CallProgress ==
  /\ call.op = "add" => InSolution(s, call.v)
  /\ call.op = "remove" =>
        /\ ~InSolution(s, call.v)
        /\ \A u \in Neighbors(g, call.v) : ~InSolution(s, u)

\* Between calls the object passes its own integrityCheck.
IntegrityAtRest == call.op = "none" => IntegrityCheck(g, s)

\* The object implements an independent set: the call that moves a vertex
\* across the first boundary is the moment it enters or leaves.
Adjacent == {e \in Vertices(g) \X Vertices(g) : e[2] \in Neighbors(g, e[1])}

Abstract == INSTANCE IndependentSet
              WITH vertices <- Vertices(g), adjacent <- Adjacent,
                   iset <- ISet(s)
ImplementsIndependentSet == Abstract!Spec
=============================================================================
