\* The number of calls and links is bounded.
CONSTANTS
  c1 = c1
  c2 = c2
  h1 = h1
  h2 = h2
  Callers <- MCCallers
  Handles <- MCHandles
  MaxSlots = 2
  MaxCalls = 4
  MaxLinks = 2
SPECIFICATION Spec
SYMMETRY Symmetry
CHECK_DEADLOCK FALSE
INVARIANTS TypeOK ListedSlotsKept NoSlotLeaked
