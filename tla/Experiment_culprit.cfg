SPECIFICATION Spec
CONSTANTS
  CommandLines <- MCLimited
  MaxTests = 2
CHECK_DEADLOCK FALSE
PROPERTY
  KeptSourceIsTheCulprit
