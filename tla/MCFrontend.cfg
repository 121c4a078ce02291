CONSTANT Primitives <- PrimitivesUsed
CONSTANT Programs <- MCPrograms
SPECIFICATION Spec
INVARIANT EffectKept
INVARIANT CountersStay
INVARIANT NothingDangles
INVARIANT TestingSame
CHECK_DEADLOCK FALSE
