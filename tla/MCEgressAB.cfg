CONSTANT ActionsOf <- MCActionsOf
CONSTANT Programs <- MCOnePair
CONSTANT Pipelines <- MCEgressAB
CONSTANT DefaultsSet = TRUE
SPECIFICATION Spec
INVARIANT SameAsSource
