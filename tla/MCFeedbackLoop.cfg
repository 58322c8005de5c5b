SPECIFICATION Spec
CONSTANTS
  NFs = {"amf", "smf"}
  FeedbackLimit = 3
  MinFeedback = 2
  MaxHistory = 3
  MaxOutcomes = 4
  MaxResets = 1
INVARIANTS
  BufferIsLatest
  HistoryIsInWeights
  EvidenceAttribution
  LearnedOrTooFew
PROPERTIES
  IngestsInOrderOnce
  IndexCatchesUp
