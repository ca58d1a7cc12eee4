SPECIFICATION BkSpec
CONSTANTS
  BkCases <- MCFewFilters
INVARIANT BkRotatedBuffersFit
CHECK_DEADLOCK FALSE
