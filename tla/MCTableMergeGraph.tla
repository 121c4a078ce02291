------------------------- MODULE MCTableMergeGraph -------------------------
(***************************************************************************)
(* Pipelines of up to three nodes: exact and ternary keys of 16 bits, the  *)
(* exact one also as two fields, a longer exact key, and conditions.  The  *)
(* names of production are in topological order (which of them is taken is *)
(* left open anyway); those of testing are in any order, so that the two   *)
(* programs may apply the same tables in opposite orders.                  *)
(***************************************************************************)
EXTENDS TableMergeGraph

A == <<<<"exact", 16>>>>
A2 == <<<<"exact", 8>>, <<"lpm", 8>>>>
T == <<<<"ternary", 16>>>>
L == <<<<"exact", 32>>>>
C == <<>>

Nodes(keys, sizes) == [i \in 1 .. Len(keys) |-> [fields |-> keys[i], size |-> sizes[i]]]
Forward(n) == {e \in (1 .. n) \X (1 .. n) : e[1] < e[2]}

Turned(es, perm) == {<<perm[e[1]], perm[e[2]]>> : e \in es}
Orders(n) == {f \in [1 .. n -> 1 .. n] : \A i, j \in 1 .. n : f[i] = f[j] => i = j}

MCProduction ==
  {[tables |-> Nodes(k, <<1, 8, 4>>), next |-> es] :
     k \in {<<A, A, A>>, <<A, T, A2>>, <<T, C, A>>, <<A, L, T>>, <<A>>},
     es \in {es \in SUBSET Forward(3) : es # {}}} 

MCTesting ==
  {[tables |-> Nodes(k, <<2, 1, 6>>), next |-> Turned(es, f)] :
     k \in {<<A, A, T>>, <<A2, T, A>>, <<C, A, A>>, <<T, A, T>>, <<A, L>>},
     es \in {es \in SUBSET Forward(3) : es # {}}, f \in Orders(3)}

Fits(p) == \A e \in p.next : e[1] <= Len(p.tables) /\ e[2] <= Len(p.tables)
ProductionOf == {p \in MCProduction : Fits(p)}
TestingOf == {p \in MCTesting : Fits(p)}
=============================================================================
