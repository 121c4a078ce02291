CONSTANT Graphs <- MCGraphs4
SPECIFICATION Spec
INVARIANT WeightsAddUp
INVARIANT Permutation
INVARIANT IndependentISet
INVARIANT TightnessCounts
INVARIANT FreeIffUntight
INVARIANT MovesFromOwnBlock
PROPERTY ImplementsIndependentSet
