SPECIFICATION Spec
CONSTANTS
  NumVariables = 4
  Variables <- MCVariables
  MaxCondSet = 2
  Laws <- MCLaws
INVARIANT
  OrderIndependent
CHECK_DEADLOCK FALSE
