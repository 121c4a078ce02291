CONSTANTS
  ProductionPrograms <- ProductionOf
  TestingPrograms <- TestingOf
  FirstFresh = 1000
  MaxCompilations = 2
SPECIFICATION Spec
INVARIANTS ReuseMatched ReuseComplete InstanceExact PickedUnopposed
CHECK_DEADLOCK FALSE
