CONSTANT ActionsOf <- MCActionsOf
CONSTANT Flows <- MCNoDefaults
CONSTANT Headers <- MCHeaders
CONSTANT Extracts <- MCExtracts
CONSTANT BranchTo <- MCBranchTo
CONSTANT Condition <- MCCondition
SPECIFICATION Spec
INVARIANT SameAsSource
