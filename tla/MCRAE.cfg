SPECIFICATION Spec
CONSTANTS
  Requests = {r1, r2, r3, r4}
  Scenarios <- MCScenarios
  Scores <- MCScores
  Attempts <- MCAttempts
  CallResults = {"success", "unsuccessful", "raises"}
  ConfidenceThreshold = 65
  HistoryLimit = 2
CHECK_DEADLOCK FALSE
INVARIANTS
  CountersAgree
  OverflowIsSkipped
  HistoryAgreesWithFeedback
PROPERTY EveryTriggerReported
