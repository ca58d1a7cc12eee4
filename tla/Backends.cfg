SPECIFICATION BkSpec
CONSTANTS
  BkCases <- MCCases
INVARIANTS
  BkResultsRight
  BkBuffersInOrder
  BkProgramsSafe
PROPERTIES
  BkAllFinish
CHECK_DEADLOCK FALSE
