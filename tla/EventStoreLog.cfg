\* Flushes go on, one fails; the process is restarted.
CONSTANTS
  Kinds = {"wizard", "chat", "request"}
  MaxActions = 2
  MaxCrashes = 1
  MaxFailures = 1
  MaxReadFailures = 0
  None = None
SPECIFICATION FairSpec
CHECK_DEADLOCK FALSE
INVARIANTS CommittedIsKept RecoveryAgrees
PROPERTIES ImplementsLog EventuallyDurable
