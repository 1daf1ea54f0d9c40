SPECIFICATION MCSpec
CONSTANTS
  Libraries <- MCLibraries
  Specifications <- MCSpecifications
  Programs <- MCPrograms
  CallLists <- MCCalls
  Types <- MCTypes
  MaxDecls = 3
  MaxInt = 3
  MaxByte = 3
  Fractions = 4
  Printed = 2
CHECK_DEADLOCK FALSE
INVARIANT
  BasesHaveNoPlaceholder
