CONSTANTS
  MaxAreas = 2
  MaxDrawn = 3
SPECIFICATION FairSpec
INVARIANTS
  TypeOK
  BusExclusive
  FlushBookkeeping
  NeverOverReported
PROPERTIES
  UiGoesOn
\* Without a display the UI thread ends.
CHECK_DEADLOCK FALSE
