CONSTANTS
  Cap = 3
  Page = 2
  Last = 5
  Old = 1
  Window = 2
  MaxReplies = 1
  Pings <- ThirdLine
SPECIFICATION LiveSpec
CHECK_DEADLOCK FALSE
INVARIANTS UnreadInv
PROPERTIES ReadMovesOn MarksGoOut
