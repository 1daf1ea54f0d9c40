SPECIFICATION TemplateSpec
CONSTANTS
  Mains <- MCTwoBlocks
  Vars <- MCVars
  InputCounts = {1, 2}
  MRs <- MCRelations
  MaxStatements = 6
CHECK_DEADLOCK FALSE
INVARIANT
  CopiesResolve
