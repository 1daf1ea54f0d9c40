SPECIFICATION Spec
CONSTANTS
  Names = {t1, t2, t3, t4, t5, t6}
  MaxTests = 3
SYMMETRY NamesSymmetry
CHECK_DEADLOCK FALSE
INVARIANTS
  TypeOK
  InputOfPreviousPass
  OutputComplete
  CleanedOnSuccess
PROPERTIES
  OthersUntouched
  ImplementsGeneration
