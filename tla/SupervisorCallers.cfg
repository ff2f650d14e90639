\* Two callers, every operation.
CONSTANTS
  RunnerIds = {i1}
  Roles = {main, embedding}
  Procs = {p1, p2}
  Threads = {t1, t2}
  DefaultId = i1
  DefaultRole = main
  Ops = {"create", "route", "update", "start", "stop", "restart", "close", "startDefault", "restartDefault"}
  None = None
SPECIFICATION Spec
SYMMETRY MCSymmetry
INVARIANTS TrackedIsUnreaped StopReturnsClean
