SPECIFICATION StreamsSpec
CONSTANTS
  Conns = {c1}
  Publishers = {p1}
  Capacity = 1
  MaxChanges = 1
  Asking = FALSE
  Writers = {w1}
  RingSize = 1
  Buffer = 1
  MaxEntries = 1
  MaxSubs = 1
  Ids = {a}
  MaxRequests = 1
  MaxChunks = 1
  MaxPrompts = 2
  Pieces = 2
  ChunkBuffer = 1
  Plain = TRUE
  Typed = {"/stop"}
PROPERTIES StopCancels
CHECK_DEADLOCK FALSE
