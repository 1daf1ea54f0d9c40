SPECIFICATION Spec
CONSTANTS
  v1 = v1
  MRs <- MCUniformRelations
  MRInfo <- MCUniform
  Checks <- MCCheck
  Inputs = {0, 1}
  Values = {v1}
  MetaCalls = 1
  meta_test_count = 3
  meta_test_rel_count = 2
  meta_test_depth = 0
  trivial_check = TRUE
  PruneOptions = {"noprune"}
CHECK_DEADLOCK FALSE
INVARIANTS
  TypeOK
  SameInputs
  ChainedThroughOwnVariable
  DefinedOnce
  CallsResolve
  DepthBound
