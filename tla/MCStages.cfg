CONSTANT ActionsOf <- MCActionsOf
CONSTANT Programs <- MCPrograms
CONSTANT Headers <- MCHeaders
CONSTANT Extracts <- MCExtracts
CONSTANT BranchTo <- MCBranchTo
CONSTANT Condition <- MCCondition
CONSTANT MinMatchLatency = 9
CONSTANT MinActionLatency = 1
SPECIFICATION Spec
INVARIANT NothingForgotten
INVARIANT ReductionKeeps
INVARIANT StagesLeast
INVARIANT TimesAgree
CHECK_DEADLOCK FALSE
