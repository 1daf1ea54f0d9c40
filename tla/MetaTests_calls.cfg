SPECIFICATION FairSpec
CONSTANTS
  v1 = v1
  MRs <- MCMixedRelations
  MRInfo <- MCMixed
  Checks <- MCTwoChecks
  Inputs = {0, 1}
  Values = {v1}
  MetaCalls = 2
  meta_test_count = 2
  meta_test_rel_count = 2
  meta_test_depth = 2
  trivial_check = FALSE
  PruneOptions = {"noprune", "linear", "logarithm"}
CHECK_DEADLOCK FALSE
INVARIANTS
  IInv
  EveryVariantChecked
PROPERTIES
  ImplementsVariants
  Terminates
