\* A process that exits just after its first answer leaves a stale route.
CONSTANTS
  RunnerIds = {i1}
  Roles = {main}
  Procs = {p1}
  Threads = {t1}
  DefaultId = i1
  DefaultRole = main
  Ops = {"create", "route", "update", "start", "stop", "restart", "close"}
  None = None
SPECIFICATION Spec
INVARIANT NoRouteForExitedRunner
