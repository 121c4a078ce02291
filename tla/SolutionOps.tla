---------------------------- MODULE SolutionOps ----------------------------
(***************************************************************************)
(* The data structure of mwis/src/Solution.h: an independent set kept as a *)
(* permutation of the vertices cut into three blocks.  A solution is a     *)
(* record with the fields of the class, arrays being functions on          *)
(* 0 .. n-1:                                                               *)
(*                                                                         *)
(*   solution   the permutation: solution members, then free vertices,     *)
(*              then the others                                            *)
(*   position   its inverse                                                *)
(*   size, free lengths of the first two blocks                            *)
(*   tight      number of neighbours in the solution                       *)
(*   mu         weight minus the weight of the neighbours in the solution  *)
(*   weight     weight of the solution                                     *)
(***************************************************************************)
EXTENDS WeightedGraph

\* Solution::Solution
NewSolution(g) ==
  [solution |-> [i \in Vertices(g) |-> i],
   position |-> [i \in Vertices(g) |-> i],
   size |-> 0, free |-> g.n,
   tight |-> [i \in Vertices(g) |-> 0],
   mu |-> [i \in Vertices(g) |-> g.weight[i]],
   weight |-> 0]

InSolution(s, v) == s.position[v] < s.size
IsFree(s, v)     == s.size <= s.position[v] /\ s.position[v] < s.size + s.free
IsNonFree(s, v)  == s.size + s.free <= s.position[v]

\* i_set()
ISet(s) == {v \in DOMAIN s.position : InSolution(s, v)}
IsMaximal(s) == s.free = 0

\* Mutant: position_ of the other vertex is not updated.
SwapToForgets(s, v, p) ==
  [s EXCEPT !.solution = [@ EXCEPT ![s.position[v]] = s.solution[p],
                                   ![p] = s.solution[s.position[v]]],
            !.position = [@ EXCEPT ![v] = p]]

\* std::swap of the entries of v and of the vertex at place p, both arrays.
\* position is written in the code's order: v first, then the other vertex.
SwapTo(s, v, p) ==
  LET pv == s.position[v]
      j  == s.solution[p]
  IN [s EXCEPT !.solution = [@ EXCEPT ![pv] = j, ![p] = s.solution[pv]],
               !.position = [@ EXCEPT ![v] = p, ![j] = pv]]

WithBlocks(s, size, free) == [s EXCEPT !.size = size, !.free = free]

\* Mutant: the other boundary is moved.
MoveNonFreeToFreeWrongBlock(s, v) ==
  WithBlocks(SwapTo(s, v, s.size + s.free), s.size + 1, s.free)

\* The four moves between neighbouring blocks: v is exchanged with the vertex at
\* the boundary it has to cross, and the boundary shifts by one.
MoveFreeToSolution(s, v) ==
  WithBlocks(SwapTo(s, v, s.size), s.size + 1, s.free - 1)

MoveFreeToNonFree(s, v) ==
  WithBlocks(SwapTo(s, v, s.size + s.free - 1), s.size, s.free - 1)

MoveSolutionToFree(s, v) ==
  WithBlocks(SwapTo(s, v, s.size - 1), s.size - 1, s.free + 1)

MoveNonFreeToFree(s, v) ==
  WithBlocks(SwapTo(s, v, s.size + s.free), s.size, s.free + 1)

(***************************************************************************)
(* addVertex and removeVertex: the part before the loop over the           *)
(* neighbours, and one iteration of the loop.                              *)
(***************************************************************************)
Weigh(s, w) == [s EXCEPT !.weight = @ + w]
Recount(s, u, d, w) == [s EXCEPT !.tight[u] = @ + d, !.mu[u] = @ + w]

\* Mutants of the loop bodies: the first free vertex is overlooked; only a free
\* neighbour is counted; the neighbour is moved one count early; it is not moved;
\* the weight of the wrong vertex is given back.
AddNeighborOffByOne(g, s, v, u) ==
  LET t == Recount(s, u, 1, -g.weight[v])
  IN IF t.size < t.position[u] /\ IsFree(t, u) THEN MoveFreeToNonFree(t, u) ELSE t

AddNeighborCountsFree(g, s, v, u) ==
  LET t == Recount(s, u, 1, -g.weight[v])
  IN IF IsFree(s, u) THEN MoveFreeToNonFree(t, u)
     ELSE Recount(s, u, 0, -g.weight[v])

RemoveNeighborEarly(g, s, v, u) ==
  LET t == Recount(s, u, -1, g.weight[v])
  IN IF t.tight[u] <= 1 /\ IsNonFree(t, u) THEN MoveNonFreeToFree(t, u) ELSE t

RemoveNeighborStays(g, s, v, u) ==
  Recount(s, u, -1, g.weight[v])

RemoveNeighborWeight(g, s, v, u) ==
  LET t == Recount(s, u, -1, g.weight[u])
  IN IF t.tight[u] = 0 THEN MoveNonFreeToFree(t, u) ELSE t

AddHead(g, s, v) == MoveFreeToSolution(Weigh(s, g.weight[v]), v)

AddNeighborOf(g, s, v, u) ==
  LET t == Recount(s, u, 1, -g.weight[v])
  IN IF IsFree(t, u) THEN MoveFreeToNonFree(t, u) ELSE t

RemoveHead(g, s, v) == MoveSolutionToFree(Weigh(s, -g.weight[v]), v)

RemoveNeighborOf(g, s, v, u) ==
  LET t == Recount(s, u, -1, g.weight[v])
  IN IF t.tight[u] = 0 THEN MoveNonFreeToFree(t, u) ELSE t

\* The whole calls.
AddVertex(g, s, v) ==
  FoldLeft(LAMBDA t, u : AddNeighborOf(g, t, v, u), AddHead(g, s, v), g.adj[v])

RemoveVertex(g, s, v) ==
  FoldLeft(LAMBDA t, u : RemoveNeighborOf(g, t, v, u),
           RemoveHead(g, s, v), g.adj[v])

\* integrityCheck, the check every assert of main.cpp makes.
IntegrityCheck(g, s) ==
  /\ \A i \in 0 .. s.size - 1 :
        LET v == s.solution[i] IN
          /\ s.tight[v] <= 0
          /\ \A u \in Neighbors(g, v) : \A k \in 0 .. s.size - 1 : s.solution[k] # u
  /\ \A i \in s.size .. s.size + s.free - 1 : s.tight[s.solution[i]] <= 0
  /\ \A i \in s.size + s.free .. g.n - 1 : s.tight[s.solution[i]] # 0

(***************************************************************************)
(* The shape of the fields: no array is indexed outside 0 .. n-1, and the  *)
(* two arrays of places are inverse.                                       *)
(***************************************************************************)
SolutionType(h) ==
  [solution : [Vertices(h) -> Vertices(h)],
   position : [Vertices(h) -> Vertices(h)],
   size : Nat, free : Nat,
   tight : [Vertices(h) -> Int], mu : [Vertices(h) -> Int], weight : Int]

InverseArrays(h, t) ==
  /\ \A v \in Vertices(h) : t.solution[t.position[v]] = v
  /\ \A p \in Vertices(h) : t.position[t.solution[p]] = p
=============================================================================
