CONSTANTS
  Cap = 3
  Page = 2
  Last = 5
  Old = 3
  Window = 2
  Chunk = 1
  MaxTimers = 2
  MaxAsked = 2
  Servers <- Both
SPECIFICATION LiveSpec
CHECK_DEADLOCK FALSE
INVARIANTS ScrollInv LinesInOrder
PROPERTIES LoadingEnds
