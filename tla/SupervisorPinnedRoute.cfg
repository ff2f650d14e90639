\* Updating a runner that is not the routed one.
CONSTANTS
  RunnerIds = {i1, i2}
  Roles = {main, embedding}
  Procs = {p1}
  Threads = {t1}
  DefaultId = i1
  DefaultRole = main
  Ops = {"create", "route", "update", "start", "stop", "restart", "close"}
  None = None
SPECIFICATION Spec
PROPERTY PinnedRouteKept
