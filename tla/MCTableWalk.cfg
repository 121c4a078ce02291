CONSTANT ActionsOf <- MCActionsOf
CONSTANT Flows <- MCFlows
CONSTANT Headers <- MCHeaders
CONSTANT Extracts <- MCExtracts
CONSTANT BranchTo <- MCBranchTo
CONSTANT Condition <- MCCondition
SPECIFICATION Spec
INVARIANT SameAsSource
INVARIANT RejectsRepeats
