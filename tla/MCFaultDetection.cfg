SPECIFICATION Spec
CONSTANTS
  Targets <- MCTargets
  NodeOrder <- MCNodeOrder
  BaseScores = {15, 90}
  ReadyAfter = 2
  AnalyseEvery = 2
  UnreachableCycles = 2
  PersistCycles = 2
  TrackedAnswers = 0
INVARIANTS
  CrashRanksFirst
  BoostIsFresh
PROPERTY OutageIsReported
