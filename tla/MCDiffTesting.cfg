CONSTANT Macs <- MCMacs
CONSTANT Ports <- MCPorts
CONSTANT Controller <- MCController
CONSTANT Drop <- MCDrop
CONSTANT Routers <- MCRouters
CONSTANT Incoming <- MCIncoming
CONSTANT Tables <- MCTables
CONSTANT Targets <- MCTargets
CONSTANT MaxUpdates = 2
SPECIFICATION Spec
INVARIANT TestsOnlyMarked
INVARIANT ComparesRecorded
INVARIANT LeavesSafely
INVARIANT ComparatorExact
INVARIANT MarkedIsCompared
PROPERTY LeavesUnlessStray
