-------------------------- MODULE IndependentSet ---------------------------
(***************************************************************************)
(* What class Solution promises its callers: a set of pairwise non         *)
(* adjacent vertices that grows by a vertex without a neighbour in it and  *)
(* shrinks by one of its members.  Nothing of the permutation, of the      *)
(* block boundaries or of the tightness counters shows.  vertices and      *)
(* adjacent are the problem instance; no step changes them.                *)
(***************************************************************************)
VARIABLES vertices, adjacent, iset

avars == <<vertices, adjacent, iset>>

Init == iset = {}

Insert(v) ==
  /\ v \in vertices \ iset
  /\ \A u \in iset : <<u, v>> \notin adjacent /\ <<v, u>> \notin adjacent
  /\ iset' = iset \cup {v}
  /\ UNCHANGED <<vertices, adjacent>>

Delete(v) ==
  /\ v \in iset
  /\ iset' = iset \ {v}
  /\ UNCHANGED <<vertices, adjacent>>

Next == \E v \in vertices : Insert(v) \/ Delete(v)

Spec == Init /\ [][Next]_avars
=============================================================================
