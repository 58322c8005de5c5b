SPECIFICATION Spec
CONSTANTS
  NFs = {"smf", "pcf"}
  LearningRate = 5000
  WeightFloor = 1000
  WeightCeiling = 20000
  MinFeedback = 2
  Confidences = {9501}
  MaxBatch = 2
  MaxCycles = 2
  MaxLinks = 1
  MaxResets = 1
CHECK_DEADLOCK FALSE
INVARIANTS
  MultipliersBounded
  SiblingsMoveAsOne
  DirectionNeedsEvidence
  GraphBounded
PROPERTY WeakenedOnlyByFailure
