SPECIFICATION Spec
CONSTANTS
  NumVariables = 4
  Variables <- MCVariables
  MaxCondSet = 2
  Laws <- MCLaws
INVARIANTS
  SkeletonFromFirstSide
  OrientationIsSound
  LostOnlyByContradiction
  MeekConverges
  ClosedUnderRules
  TruthNeverConflicts
CHECK_DEADLOCK FALSE
