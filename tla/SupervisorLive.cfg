\* Two callers under fairness.
CONSTANTS
  RunnerIds = {i1}
  Roles = {main}
  Procs = {p1, p2}
  Threads = {t1, t2}
  DefaultId = i1
  DefaultRole = main
  Ops = {"create", "start", "stop", "close"}
  None = None
SPECIFICATION FairSpec
PROPERTIES EveryCallReturns StartingResolves
