CONSTANTS
  NumCards = 14
  Card <- MCCard
  OrderValue <- MCOrderValue
SPECIFICATION Spec
INVARIANT TypeMatchesSortedReading
PROPERTY TrickEnds
CHECK_DEADLOCK FALSE
