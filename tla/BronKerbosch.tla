---------------------------- MODULE BronKerbosch ----------------------------
(***************************************************************************)
(* The exact solver of mwis/src/main.cpp (options -B -W): the conflict     *)
(* graph is read complemented, and the recursive function BronKerbosch     *)
(* looks for its heaviest clique, an independent set of the conflicts.     *)
(* A frame of the recursion is a record with the function's parameters,    *)
(* which it takes by value: R the clique, P the vertices that may extend   *)
(* it, X those already tried, and rest, what is left of the copy P_new its *)
(* loop walks.  While a call is made the head of rest is the vertex n that *)
(* it was made for.                                                        *)
(*                                                                         *)
(* P.erase(it) leaves the iterator where it was; the vector closes up, and *)
(* the walk goes on with the element behind the erased one.                *)
(***************************************************************************)
EXTENDS WeightedGraph

CONSTANT Files   \* the instance files

\* Labels are those announced and weights are numbers of entries, never negative.
\* A conflict may be listed twice, and a vertex with itself.
ASSUME FilesAssumption ==
  \A f \in Files : /\ f.n \in Nat
                   /\ f.nlines \in Seq((1 .. f.n) \X Nat)
                   /\ f.elines \in Seq((1 .. f.n) \X (1 .. f.n))

VARIABLES
  file,         \* the instance, chosen once
  g,            \* its complement, as read
  stack,        \* the activations of BronKerbosch, innermost last
  best_weight,  \* of the set recorded, shared by all activations
  best_set

vars == <<file, g, stack, best_weight, best_set>>

Frame(R, P, X) == [R |-> R, P |-> P, X |-> X, rest |-> P]

Init ==
  /\ file \in Files
  /\ g = SortAdj(ReadInstance(file, TRUE))
  /\ stack = <<Frame(<<>>, [i \in 1 .. file.n |-> i - 1], <<>>)>>
  /\ best_weight = 0
  /\ best_set = <<>>

Weight(R) == FoldLeft(LAMBDA sum, v : sum + g.weight[v], 0, R)

\* intersection(va, vb): the members of va that are in vb, in va's order.
Intersection(va, vb) == Keep(va, ToSet(vb))

\* Mutant: the walk over the copy does not move on.
TriedForgotten(f) ==
  LET n == Head(f.rest)
  IN [f EXCEPT !.P = Keep(@, ToSet(@) \ {n})]

\* What the caller does when the call for the head of rest is over.
Tried(f) ==
  LET n == Head(f.rest)
  IN [f EXCEPT !.P = Keep(@, ToSet(@) \ {n}),
               !.X = Append(@, n), !.rest = Tail(@)]

Return ==
  stack' = IF Len(stack) = 1 THEN <<>>
           ELSE Append(SubSeq(stack, 1, Len(stack) - 2), Tried(stack[Len(stack) - 1]))

Record(R) == best_set' = R /\ best_weight' = Weight(R)

\* Mutant: only the sets on the way are recorded, never a maximal one.
LeafIgnored ==
  /\ stack # <<>>
  /\ LET f == Last(stack) IN f.P = <<>> /\ f.X = <<>>
  /\ Return
  /\ UNCHANGED <<file, g, best_weight, best_set>>

\* A maximal clique: recorded if it is heavier than the best.
Leaf ==
  /\ stack # <<>>
  /\ LET f == Last(stack)
     IN /\ f.P = <<>> /\ f.X = <<>>
        /\ IF Weight(f.R) > best_weight THEN Record(f.R)
                                        ELSE UNCHANGED <<best_weight, best_set>>
  /\ Return
  /\ UNCHANGED <<file, g>>

\* Mutant: X is handed on unrestricted.
BranchKeepsX ==
  /\ stack # <<>>
  /\ LET f == Last(stack)
         n == Head(f.rest)
     IN /\ f.rest # <<>>
        /\ IF Weight(f.R) >= best_weight THEN Record(f.R)
                                         ELSE UNCHANGED <<best_weight, best_set>>
        /\ stack' = Append(stack, Frame(Append(f.R, n), Intersection(f.P, g.adj[n]),
                                        f.X))
  /\ UNCHANGED <<file, g>>

\* One turn of the loop up to the recursive call.
Branch ==
  /\ stack # <<>>
  /\ LET f == Last(stack)
         n == Head(f.rest)
     IN /\ f.rest # <<>>
        /\ IF Weight(f.R) >= best_weight THEN Record(f.R)
                                         ELSE UNCHANGED <<best_weight, best_set>>
        /\ stack' = Append(stack, Frame(Append(f.R, n), Intersection(f.P, g.adj[n]),
                                        Intersection(f.X, g.adj[n])))
  /\ UNCHANGED <<file, g>>

\* The loop is over.
LoopDone ==
  /\ stack # <<>>
  /\ LET f == Last(stack) IN f.rest = <<>> /\ ~(f.P = <<>> /\ f.X = <<>>)
  /\ Return
  /\ UNCHANGED <<file, g, best_weight, best_set>>

\* The result is printed and the program ends.
Printed == stack = <<>> /\ UNCHANGED vars

Next == Leaf \/ Branch \/ LoopDone \/ Printed

Fairness == WF_vars(Leaf \/ Branch \/ LoopDone)

Spec == Init /\ [][Next]_vars /\ Fairness

-----------------------------------------------------------------------------
(***************************************************************************)
(* Properties                                                              *)
(***************************************************************************)
\* Two tables in conflict, by the file; vertices counted from 0.
InConflict(u, v) ==
  \E i \in 1 .. Len(file.elines) :
     {file.elines[i][1] - 1, file.elines[i][2] - 1} = {u, v}

\* Sets of tables without a conflict: the cliques of the complement.
IsClique(S) == \A u, v \in S : u # v => ~InConflict(u, v)

WeightOf(S) == MapThenSumSet(LAMBDA v : g.weight[v], S)

\* Every field keeps its type; cliques and candidates are without repetition.
TypeOK ==
  /\ IsSimpleGraph(g)
  /\ \A k \in 1 .. Len(stack) :
        \A q \in {stack[k].R, stack[k].P, stack[k].X, stack[k].rest} :
           q \in Seq(Vertices(g)) /\ NoDuplicates(q)
  /\ best_weight \in Nat
  /\ best_set \in Seq(Vertices(g))

\* In every activation R is a clique and P and X split the vertices that extend
\* it: what the algorithm needs to visit every maximal clique, and none twice.
\* The copy P_new is what P would be anyway.
CandidatesSplit ==
  \A k \in 1 .. Len(stack) :
     LET f == stack[k]
         R == ToSet(f.R)
     IN /\ IsClique(R)
        /\ ToSet(f.P) \cup ToSet(f.X) = {v \in Vertices(g) \ R : IsClique(R \cup {v})}
        /\ ToSet(f.P) \cap ToSet(f.X) = {}
        /\ f.rest = f.P

\* No maximal clique is given up: one heavier than the best lies between R and
\* R with P in some activation, so some loop has still to come to it.
IsMaximalClique(S) ==
  IsClique(S) /\ \A v \in Vertices(g) \ S : ~IsClique(S \cup {v})

NothingLost ==
  \A S \in SUBSET Vertices(g) :
     IsMaximalClique(S) /\ WeightOf(S) > best_weight =>
       \E k \in 1 .. Len(stack) :
          /\ ToSet(stack[k].R) \subseteq S
          /\ S \subseteq ToSet(stack[k].R) \cup ToSet(stack[k].P)

\* The two results are recorded together: the set is a clique of that weight,
\* although sets are recorded long before they are maximal.
BestAgrees ==
  /\ IsClique(ToSet(best_set))
  /\ NoDuplicates(best_set)
  /\ best_weight = WeightOf(ToSet(best_set))

\* What every step of the search keeps: no branch lost or tried twice, no result
\* displaced by a lighter one.
SearchSound == CandidatesSplit /\ NothingLost /\ BestAgrees

\* mwis/README.md: "always return the optimal solutions".  What is printed is an
\* independent set of the conflicts in the file, and none is heavier.
PrintsOptimum ==
  stack = <<>> =>
    /\ IsClique(ToSet(best_set))
    /\ \A S \in SUBSET Vertices(g) : IsClique(S) => WeightOf(S) <= WeightOf(ToSet(best_set))

\* The search ends on every instance.
Terminates == <>(stack = <<>>)
=============================================================================
