SPECIFICATION Spec
CONSTANTS
  FaultScenarios = {"amf_crash", "_default"}
  Fallback = "_default"
  PolicyActions = {"restart_pod", "notify_operator"}
  Priorities = {1, 2}
  Descriptions = {"restart", "fallback"}
  DefaultPolicies <- MCDefaultPolicies
  AuditLimit = 2
  PolicyCap = 3
  ChangeCap = 3
  None = None
  ScoreValues = {0, 29, 30, 49, 50, 51, 70, 90}
  Unscored = Unscored
  ResultLimit = 2
  VerifyCap = 3
  ReportScenarios = {"amf_crash", "other"}
  Chains <- MCChains
  ReportNFs = {"amf"}
  ReportScores = {84, 85}
  Outcome = {"cleared", "persisting"}
  NoOutcome = NoOutcome
  ReportCap = 2
  PatchCap = 2
  NetworkFunctions = {"amf", "smf"}
  Window = 4
  MinSamples = 3
  MinAligned = 2
  AnalyseEvery = 1
  CycleCap = 5
  MetricLinks <- MCMetricLinks
INVARIANTS
  AuditTellsStore
  SignalsFollowScores
  LinksCompareSameCycles
  ComparisonFitsFusedResult
PROPERTIES
  ChoiceIsAudited
  ReportsAreKept
CHECK_DEADLOCK FALSE
