CONSTANTS
  MinDelay = 5
  MaxDelay = 60
  PingPeriods = 3
SPECIFICATION LiveSpec
INVARIANTS ConnectionInv
PROPERTIES ReconnectsDuly SilentLinkDropped LostLinkRetried
