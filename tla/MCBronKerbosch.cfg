CONSTANT Files <- MCFiles4
SPECIFICATION Spec
INVARIANT SearchSound
INVARIANT PrintsOptimum
PROPERTY Terminates
