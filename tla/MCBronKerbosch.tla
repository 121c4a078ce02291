--------------------------- MODULE MCBronKerbosch ---------------------------
EXTENDS BronKerbosch, MCGraphs

\* Every conflict graph on four tables: weights without equal sums, all equal,
\* and with two weightless tables.
MCFiles4 ==
  {File(4, E, w) : E \in SUBSET ToSet(PairsInOrder(4)),
                   w \in {<<1, 2, 4, 8>>, <<2, 2, 2, 2>>, <<0, 3, 0, 3>>}}
=============================================================================
