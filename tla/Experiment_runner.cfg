SPECIFICATION FairSpec
CONSTANTS
  CommandLines <- MCAll
  MaxTests = 3
CHECK_DEADLOCK FALSE
INVARIANTS
  TypeOK
  Accounting
  FailuresKept
  KeptUnderOwnTest
  WithinLimit
PROPERTIES
  StopsOnFirstFail
  TerminateHonoured
  LimitReached
