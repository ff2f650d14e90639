SPECIFICATION StreamsSpec
CONSTANTS
  \* Statuses: a connection whose client also asks, two publishers.
  Conns = {c1}
  Publishers = {p1, p2}
  Capacity = 2
  MaxChanges = 4
  Asking = TRUE
  \* Log lines: two writers, a ring and a channel that both overflow.
  Writers = {w1, w2}
  RingSize = 2
  Buffer = 1
  MaxEntries = 3
  MaxSubs = 2
  \* Requests of a connection.
  Ids = {a, b}
  MaxRequests = 2
  MaxChunks = 1
  \* The chat of the terminal UI.
  MaxPrompts = 2
  Pieces = 2
  ChunkBuffer = 1
  Plain = TRUE
  Typed = {"/stop"}
INVARIANTS NoLostUpdate LogsExact  AnswersWellFormed BusyHasRequest PiecesInOrder
PROPERTIES UpdatesArrive FeedsEnd CanceledEnds FailureKeepsPrompt StoppedStreamEnds
CHECK_DEADLOCK FALSE
