SPECIFICATION Spec
CONSTANTS
  Targets <- MCTargets
  NodeOrder <- MCNodeOrder
  BaseScores = {15}
  ReadyAfter = 2
  AnalyseEvery = 2
  UnreachableCycles = 3
  PersistCycles = 3
  TrackedAnswers = 3
INVARIANT UnreachableIsRecent
