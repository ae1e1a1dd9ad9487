CONSTANTS
  Callers = {c1, c2}
  Kinds <- MCKinds
  MaxCalls = 4
  MaxLosses = 2
SPECIFICATION FairSpec
INVARIANTS
  TypeOK
  BusyIsALock
  AnswersGoToTheirCall
PROPERTIES
  FlagIsCleared
\* The number of calls and of links is bounded.
CHECK_DEADLOCK FALSE
