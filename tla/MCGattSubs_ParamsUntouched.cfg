CONSTANTS
  c1 = c1
  c2 = c2
  h1 = h1
  h2 = h2
  Callers <- MCCallers
  Handles <- MCHandles
  MaxSlots = 2
  MaxCalls = 4
  MaxLinks = 2
SPECIFICATION Spec
CHECK_DEADLOCK FALSE
INVARIANT ParamsUntouched
