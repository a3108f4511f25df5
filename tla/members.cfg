CONSTANTS
  Nicks <- TwoNicks
  Ranks <- Op
  Words <- Key
  MaxSent = 2
  MaxList = 3
  MaxModes = 2
SPECIFICATION Spec
CHECK_DEADLOCK FALSE
INVARIANTS NickListInv RejoinsOpen
PROPERTIES ViewFollowsUser
