--------------------------- MODULE WeightedGraph ---------------------------
(***************************************************************************)
(* The vertex-weighted graph of mwis/src/Graph.h and Graph.cpp.  Vertices  *)
(* are 0 .. n-1, as in the C++ code.  A graph is a record                  *)
(*                                                                         *)
(*   n       number of vertices (n_)                                       *)
(*   m       number of edges the instance announces (m_); the class never  *)
(*           counts edges itself, so m need not agree with adj             *)
(*   weight  weights_                                                      *)
(*   adj     adj_l_: for each vertex a sequence of vertices                *)
(***************************************************************************)
EXTENDS Naturals, Integers, Sequences, FiniteSets, SequencesExt

Vertices(g) == 0 .. g.n - 1

\* The vertices adjacent to v, as a set.
Neighbors(g, v) == {g.adj[v][i] : i \in 1 .. Len(g.adj[v])}

\* Graph::Graph: default weights and no edges.
NewGraph(n, m) ==
  [n |-> n, m |-> m,
   weight |-> [i \in 0 .. n - 1 |-> ((i + 1) % 200) + 1],
   adj |-> [i \in 0 .. n - 1 |-> <<>>]]

SetWeight(g, i, w) == [g EXCEPT !.weight[i] = w]

AddNeighbor(g, i, j) == [g EXCEPT !.adj[i] = Append(@, j)]

AddEdge(g, i, j) == AddNeighbor(AddNeighbor(g, i, j), j, i)

\* The elements of q that are in A, in q's order.
Keep(q, A) ==
  FoldLeft(LAMBDA kept, x : IF x \in A THEN Append(kept, x) ELSE kept, <<>>, q)

\* The erase-remove idiom: every occurrence of j goes.
RemoveNeighbor(g, i, j) == [g EXCEPT !.adj[i] = Keep(@, ToSet(@) \ {j})]

RemoveEdge(g, i, j) == RemoveNeighbor(RemoveNeighbor(g, i, j), j, i)

\* std::sort, by insertion: x goes behind the elements that are not larger.
Sorted(q) ==
  FoldLeft(LAMBDA s, x : InsertAt(s, Cardinality({i \in DOMAIN s : s[i] <= x}) + 1, x),
           <<>>, q)

\* Graph::sort
SortAdj(g) == [g EXCEPT !.adj = [v \in Vertices(g) |-> Sorted(g.adj[v])]]

(***************************************************************************)
(* readInstance.  An instance file is a record: the announced numbers of   *)
(* vertices and edges, the "n" lines <<vertex, weight>> and the "e" lines  *)
(* <<u, v>>, labels counted from 1 as the file does.                       *)
(***************************************************************************)
\* An edge is added, or removed, for each pair in turn.
AddEdges(g, pairs) == FoldLeft(LAMBDA h, e : AddEdge(h, e[1], e[2]), g, pairs)
RemoveEdges(g, pairs) == FoldLeft(LAMBDA h, e : RemoveEdge(h, e[1], e[2]), g, pairs)

\* The inner loop over idx2 > idx1, where idx1 is i - 1, and the outer one.
LaterThan(i, n) == [j \in 1 .. n - i |-> <<i - 1, i + j - 1>>]
CompleteGraph(g) ==
  FoldLeft(LAMBDA h, i : AddEdges(h, LaterThan(i, g.n)), g, [i \in 1 .. g.n |-> i])

SetWeights(g, lines) == FoldLeft(LAMBDA h, l : SetWeight(h, l[1] - 1, l[2]), g, lines)

\* The e lines with vertices counted from 0.
Conflicts(file) ==
  [k \in DOMAIN file.elines |-> <<file.elines[k][1] - 1, file.elines[k][2] - 1>>]

ReadInstance(file, complement) ==
  LET empty == NewGraph(file.n, file.m)
  IN IF complement
     THEN RemoveEdges(SetWeights(CompleteGraph(empty), file.nlines), Conflicts(file))
     ELSE AddEdges(SetWeights(empty, file.nlines), Conflicts(file))

(***************************************************************************)
(* What Solution relies on: simple, undirected adjacency lists.            *)
(***************************************************************************)
NoDuplicates(q) == \A i, j \in 1 .. Len(q) : q[i] = q[j] => i = j

IsSimpleGraph(g) ==
  /\ g.n \in Nat
  /\ g.weight \in [Vertices(g) -> Int]
  /\ g.adj \in [Vertices(g) -> Seq(Vertices(g))]
  /\ \A v \in Vertices(g) : /\ NoDuplicates(g.adj[v])
                            /\ v \notin Neighbors(g, v)
  /\ \A u, v \in Vertices(g) : u \in Neighbors(g, v) => v \in Neighbors(g, u)

Independent(g, I) == \A u, v \in I : v \notin Neighbors(g, u)
=============================================================================
