SPECIFICATION MCSpec
CONSTANTS
  None = None
  \* The catalog: a model, two concurrent downloads, two restarts.
  Models = {m1}
  Workers = {w1, w2}
  Chunks = 2
  MaxCrashes = 2
  \* The manager of one server: two processes, three calls or patches.
  Ports = {1, 2}
  MaxProcs = 2
  MaxCalls = 3
  \* The proxy: two requests, an event stream, a change of the route.
  Requests = {r1, r2}
  Streams = {c1}
  Targets = {t1}
  Default = d
  Pieces = 2
  Buffer = 1
  Changes = 1
  \* The store: two restarts, one of which cannot read the database.
  Kinds = {"tab", "chat"}
  MaxActions = 2
  MaxRestarts = 2
  MaxFailures = 0
  MaxReadFailures = 1
  \* The file of backends: a UI and the configure script.
  UIs = {p}
  Litert <- LitertDef
  Llama <- LlamaDef
  Installed = {"cpu.", "cuda"}
  Serial = TRUE
  MaxWrites = 2
  \* The wizard.
  Typed <- TypedDef
  Lines <- LinesDef
  MaxRunners = 2
INVARIANTS AloneIsComplete DownloadingIsActive OneProcess AddressTrue RecordedInOrder
  StreamExact ChoiceOffered EntriesKept  RunnersDistinct
PROPERTIES WrittenIsKept
CHECK_DEADLOCK FALSE
