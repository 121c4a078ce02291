CONSTANT ActionsOf <- MCActionsOf
CONSTANT Programs <- MCNested
CONSTANT Pipelines <- MCIngressDF
CONSTANT DefaultsSet = TRUE
SPECIFICATION Spec
INVARIANT SameAsSource
