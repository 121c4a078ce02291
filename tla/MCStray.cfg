CONSTANT Macs <- MCMacs
CONSTANT Ports <- MCPorts
CONSTANT Controller <- MCController
CONSTANT Drop <- MCDrop
CONSTANT Routers <- MCRouterOnward
CONSTANT Incoming <- MCUntagged
CONSTANT Tables <- MCCommands
CONSTANT Targets <- MCKept
CONSTANT MaxUpdates = 0
SPECIFICATION Spec
PROPERTY MarkedLeaves
