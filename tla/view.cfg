SPECIFICATION LiveWindowSpec
CHECK_DEADLOCK FALSE
CONSTANTS
  MaxLines = 20
  Batch = 1
  Pages = {3}
  Self = "me"
  LinksSaid = {"u"}
  Midnight = {3}
  Window = 1
  Chunk = 1
  Said <- MC_Said
  MaxMessages = 4
  MaxActs = 6
  MaxPosted = 2
INVARIANTS ViewInv EndOrButton
PROPERTIES ReaderStays FillsView
