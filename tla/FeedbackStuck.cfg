SPECIFICATION Spec
CONSTANTS
  NFs = {"amf", "smf"}
  FeedbackLimit = 2
  MinFeedback = 2
  MaxHistory = 2
  MaxOutcomes = 4
  MaxResets = 0
INVARIANT EveryOutcomeOffered
