CONSTANT ActionsOf <- MCActionsOf
CONSTANT Programs <- MCFlat
CONSTANT Pipelines <- MCPipelines
CONSTANT DefaultsSet = TRUE
SPECIFICATION Spec
INVARIANT SameAsSource
PROPERTY Leaves
