SPECIFICATION Spec
CONSTANTS
  Plan <- MCPlan
  Nodes = {"node1", "node2"}
  Placement <- MCPlacement
  Workers = 1
CHECK_DEADLOCK FALSE
INVARIANTS
  CleanDrainEvictsAll
PROPERTIES
  KeepsContract
  EveryExecutionReturns
