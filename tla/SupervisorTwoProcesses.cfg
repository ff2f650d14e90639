\* runtime.start on a running default runner.
CONSTANTS
  RunnerIds = {i1}
  Roles = {main}
  Procs = {p1, p2}
  Threads = {t1}
  DefaultId = i1
  DefaultRole = main
  Ops = {"create", "route", "update", "start", "stop", "restart", "close", "startDefault", "restartDefault"}
  None = None
SPECIFICATION Spec
INVARIANT OneProcessPerRunner
