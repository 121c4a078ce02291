CONSTANT Macs <- MCMacs
CONSTANT Ports <- MCPorts
CONSTANT Controller <- MCController
CONSTANT Drop <- MCDrop
CONSTANT Routers <- MCRouterPair
CONSTANT Incoming <- MCUntagged
CONSTANT Tables <- MCGoto
CONSTANT Targets <- MCKept
CONSTANT MaxUpdates = 0
SPECIFICATION Spec
INVARIANT GotoTestingTests
