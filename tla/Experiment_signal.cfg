SPECIFICATION Spec
CONSTANTS
  CommandLines <- MCUnlimited
  MaxTests = 1
CHECK_DEADLOCK FALSE
INVARIANT
  AnnouncedStaysDecided
