CONSTANTS
  Cap = 2
  Page = 2
  Chan = Chan
  Pal = Pal
  Me = Me
  Server = Server
  Nothing = Nothing
  Refs = {r1, r2}
  MaxOpen = 2
  MaxBatch = 2
  MaxSaid = 2
  MaxPosted = 1
SPECIFICATION RoutingSpec
SYMMETRY Batches
CHECK_DEADLOCK FALSE
INVARIANTS RoutingInv WholeAndOnce
PROPERTIES QuietReplay ClosedStaysClosed
