--------------------------- MODULE MCLocalSearch ---------------------------
EXTENDS LocalSearch, MCGraphs

\* Every graph on three vertices, with even weights, a heavy vertex and a vertex
\* of weight zero; and on four vertices a path, a cycle and two separate conflicts,
\* where a second table can be swapped in for the first.
MCGraphsSmall ==
  GraphsOf(3, {<<1, 1, 1>>, <<3, 2, 2>>, <<2, 0, 1>>})
  \cup {GraphOf(4, {<<0, 1>>, <<1, 2>>, <<2, 3>>}, <<2, 3, 3, 2>>),
        GraphOf(4, {<<0, 1>>, <<1, 2>>, <<2, 3>>, <<0, 3>>}, <<3, 2, 3, 2>>),
        GraphOf(4, {<<0, 1>>, <<2, 3>>}, <<1, 2, 2, 1>>)}
  \cup GraphsOf(4, {<<2, 3, 3, 2>>, <<5, 4, 3, 3>>})

\* A heavy centre with two leaves that outweigh it together, and a pair beside it.
MCStar == {GraphOf(5, {<<0, 1>>, <<0, 2>>, <<3, 4>>}, <<3, 2, 2, 1, 1>>)}
MCTargets == {0, 3}
=============================================================================
