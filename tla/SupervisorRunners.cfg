\* The per-runner operations of the HTTP API, without runtime.start.
CONSTANTS
  RunnerIds = {i1, i2}
  Roles = {main, embedding}
  Procs = {p1, p2}
  Threads = {t1}
  DefaultId = i1
  DefaultRole = main
  Ops = {"create", "route", "update", "start", "stop", "restart", "close"}
  None = None
SPECIFICATION Spec
SYMMETRY MCSymmetry
INVARIANTS RouteValid LiveIsTracked
PROPERTY ImplementsRegistry
