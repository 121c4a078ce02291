---------------------------- MODULE MCSolution -----------------------------
EXTENDS Solution, MCGraphs

\* All 64 graphs on four vertices, weights powers of two: no two sets of
\* vertices have the same sum.
MCGraphs4 == GraphsOf(4, {<<1, 2, 4, 8>>})
=============================================================================
