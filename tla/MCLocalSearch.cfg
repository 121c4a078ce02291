CONSTANT Graphs <- MCGraphsSmall
CONSTANT Targets <- MCTargets
CONSTANT OuterIters = 3
CONSTANT NoChangeTime = 3
CONSTANT NoImproveStop = 2
CONSTANT Temperatures = 2
SPECIFICATION Spec
INVARIANT SearchSound
INVARIANT OmegaOptimal
INVARIANT ReportedSet
PROPERTY ImprovementGains
PROPERTY Terminates
