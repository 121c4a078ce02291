----------------------------- MODULE MCGraphs ------------------------------
(***************************************************************************)
(* Small problem instances: files that SP4_write_graph_to_file can write - *)
(* each conflict listed once, no vertex in conflict with itself.           *)
(***************************************************************************)
EXTENDS WeightedGraph

\* The pairs i < j below n, in the order of two nested loops.
PairsInOrder(n) == FlattenSeq([i \in 1 .. n |-> LaterThan(i, n)])

\* A file lists the edges of E in a fixed order, labels counted from 1.
File(n, E, w) ==
  LET lines == SelectSeq(PairsInOrder(n), LAMBDA e : e \in E)
  IN [n |-> n, m |-> Len(lines),
      nlines |-> [i \in 1 .. n |-> <<i, w[i]>>],
      elines |-> [k \in 1 .. Len(lines) |-> <<lines[k][1] + 1, lines[k][2] + 1>>]]

GraphOf(n, E, w) == SortAdj(ReadInstance(File(n, E, w), FALSE))

\* Every graph on n vertices whose weights are one of the sequences of W.
GraphsOf(n, W) ==
  {GraphOf(n, E, w) : E \in SUBSET ToSet(PairsInOrder(n)), w \in W}
=============================================================================
