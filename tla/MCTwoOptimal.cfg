CONSTANT Graphs <- MCStar
CONSTANT Targets = {0}
CONSTANT OuterIters = 2
CONSTANT NoChangeTime = 2
CONSTANT NoImproveStop = 2
CONSTANT Temperatures = 2
SPECIFICATION Spec
INVARIANT TwoOptimal
