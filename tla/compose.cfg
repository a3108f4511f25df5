CONSTANTS
  Buffers = {"chan", "pal", "server"}
  Server = "server"
  Nobody = "nobody"
  First = "chan"
  Query = "/query"
  Typed <- MCTyped
  Candidates <- MCCandidates
  Finished <- MCFinished
  Partial <- MCPartial
  Complete <- MCComplete
  Widths <- MCWidths
  Room = 9
  TagWidth = 4
  People = {"pal"}
  HistoryCap = 2
  MaxSteps = 4
  MaxWords = 2
SPECIFICATION ComposeSpec
CHECK_DEADLOCK FALSE
INVARIANTS InputInv
PROPERTIES NothingDangles NotesEnd
