SPECIFICATION MCPipelineSpec
CONSTANTS
  Libraries <- MCLibraries
  Specifications <- MCSpecifications
  Programs <- MCPrograms
  CallLists <- MCCalls
  Types <- MCTypes
  MaxDecls = 4
  MaxInt = 3
  MaxByte = 3
  Fractions = 4
  Printed = 2
  Mains <- MCOneBlock
  Vars <- MCVars
  InputCounts = {0, 1, 2}
  MRs <- MCRelations
  MaxStatements = 6
CHECK_DEADLOCK FALSE
INVARIANTS
  TypeOK
  EachHandedOverOnce
  EachWhereItBelongs
  AcceptedInAnyOrder
  SameBody
  NamesResolve
  NoCallLeft
  
  WithinBounds
  TemplateTypeOK
  CopiesFaithful
  CopiesResolve
  AbortsJustified
  OfferedOwn
  EachNewExpanded
