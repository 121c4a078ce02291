CONSTANT Primitives <- PrimitivesUsed
CONSTANT Programs <- MCPrograms
SPECIFICATION Spec
INVARIANT StateStays
CHECK_DEADLOCK FALSE
