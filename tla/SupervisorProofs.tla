-------------------------- MODULE SupervisorProofs --------------------------
(***************************************************************************)
(* Theorems about Supervisor for every set of runners, roles, processes    *)
(* and callers.                                                            *)
(***************************************************************************)
EXTENDS Supervisor, TLAPS

\* What a caller knows while it runs an operation: the runner of the
\* operation, that it stays registered once it was found, and its process.
AtChild == {"stopWait", "ready", "failing", "failStop", "failStopWait", "serving"}

CallOK ==
  \A t \in Threads :
    /\ pc[t] # "idle" => call[t].op \in CallOps \cap Ops /\ Id(t) \in RunnerIds
    /\ pc[t] \in AtChild => child[t] \in Procs
    /\ pc[t] \in {"stopWait", "stopped"} => call[t].op \in StopOps

\* opMu is held by the one caller that is inside an operation.
LockOK ==
  \A t \in Threads : pc[t] \in Inside <=> opMu = t

\* A runner that was found stays registered while opMu is held.
FoundOK ==
  \A t \in Threads : pc[t] \in Inside \ {"enter", "unlock"} => Id(t) \in runners

\* The small operators of the steps, expanded everywhere below.
USE DEF Id, Rec, Found, Return, Goto, SetState, markUnavailable, BecomeExternal, Started,
        Tracks, Exited

LEMMA InitType == Init => TypeOK /\ CallOK /\ LockOK /\ FoundOK
<1> SUFFICES ASSUME Init PROVE TypeOK /\ CallOK /\ LockOK /\ FoundOK
  OBVIOUS
<1> USE IdAssumption, RoleAssumption, NoneAssumption DEF Init
<1>1. NewRecord(DefaultRole, TRUE) \in RunnerRecord
  BY DEF NewRecord, RunnerRecord, States, initialState
<1>2. NewRecord(DefaultRole, FALSE) \in RunnerRecord
  BY DEF NewRecord, RunnerRecord, States, initialState
<1>3. Blank \in RunnerRecord
  BY DEF Blank, RunnerRecord, States
<1>4. record \in [RunnerIds -> RunnerRecord]
  BY <1>1, <1>2, <1>3
<1>5. TypeOK
  BY <1>4 DEF TypeOK, NoCall, Call, ProcStates
<1>6. QED
  BY <1>5 DEF CallOK, LockOK, FoundOK, AtChild, Inside

\* Updates of one field keep a record well typed.
LEMMA RecordUpdates ==
  ASSUME NEW rec \in RunnerRecord
  PROVE  /\ \A s \in States : /\ [rec EXCEPT !.state = s] \in RunnerRecord
                               /\ [rec EXCEPT !.cmd = None, !.state = s] \in RunnerRecord
         /\ \A c \in Procs, s \in States :
              [rec EXCEPT !.cmd = c, !.stopped = FALSE, !.state = s] \in RunnerRecord
         /\ [rec EXCEPT !.stopped = TRUE] \in RunnerRecord
         /\ \A l \in BOOLEAN : [rec EXCEPT !.launch = l] \in RunnerRecord
         /\ \A l \in BOOLEAN, s \in States :
              /\ [rec EXCEPT !.launch = l, !.state = s] \in RunnerRecord
              /\ \A r \in Roles :
                   [rec EXCEPT !.role = r, !.launch = l, !.state = s] \in RunnerRecord
  BY DEF RunnerRecord

LEMMA TypeStep ==
  ASSUME TypeOK, CallOK, Next
  PROVE  TypeOK'
<1> USE IdAssumption, RoleAssumption, NoneAssumption, OpsAssumption
<1>1. CASE \E i \in RunnerIds, r \in Roles, l \in BOOLEAN : CreateRunner(i, r, l)
  BY <1>1 DEF CreateRunner, TypeOK, NewRecord, RunnerRecord, States, initialState
<1>2. CASE \E r \in Roles, i \in RunnerIds : RouteRunner(r, i)
  BY <1>2 DEF RouteRunner, TypeOK
<1>3. CASE \E t \in Threads, op \in CallOps, i \in RunnerIds,
             ctx \in {"none", "open"} : Begin(t, op, i, ctx)
  BY <1>3 DEF Begin, TypeOK, Call, Inside
<1>4. CASE \E t \in Threads : Cancel(t) \/ Lock(t)
  BY <1>4 DEF Cancel, Lock, TypeOK, Call, Inside
<1>5. ASSUME NEW p \in Procs, Exit(p) \/ wait(p) \/ SendDone(p) PROVE TypeOK'
  <2>1. CASE Exit(p) \/ SendDone(p)
    BY <2>1 DEF Exit, SendDone, TypeOK, ProcStates
  <2>2. CASE wait(p)
    <3>1. \A i \in RunnerIds :
            [record[i] EXCEPT !.cmd = None,
                              !.state = IF record[i].stopped THEN "stopped" ELSE "exited"]
              \in RunnerRecord
      BY RecordUpdates DEF TypeOK, States
    <3>2. record' \in [RunnerIds -> RunnerRecord]
      BY <2>2, <3>1 DEF wait, TypeOK
    <3>3. QED BY <2>2, <3>2 DEF wait, TypeOK, ProcStates
  <2>3. QED BY <1>5, <2>1, <2>2
<1>6. ASSUME NEW t \in Threads, Step(t) PROVE TypeOK'
  <2> USE DEF TypeOK
  <2>1. CASE NotFound(t) \/ UpdateRejected(t) \/ PatchRejected(t) \/ WaitForRunnerReady(t)
             \/ HandleStartupFailure(t) \/ StopDone(t)
    BY <2>1 DEF NotFound, UpdateRejected, PatchRejected, WaitForRunnerReady,
       HandleStartupFailure, StopDone, AfterStop, Inside
  <2>2. Id(t) \in RunnerIds
    BY <1>6 DEF CallOK, Step, Unlock, NotFound, UpdateRejected, UpdateRunner, StartRunner,
       ApplyPatchAndStart, PatchRejected, Preflight, SpawnFailed, Spawn,
       WaitForRunnerReady, Serving, HandleStartupFailure, MarkUnavailable, StopNothing,
       StopSignal, StopDone, StopExpired, Stopped, CloseRunner, AtStop
  <2>3. CASE Unlock(t)
    BY <2>3 DEF Unlock, NoCall, Call
  <2>4. CASE \E r \in Roles, l \in BOOLEAN : UpdateRunner(t, r, l)
    <3>1. PICK r \in Roles, l \in BOOLEAN : UpdateRunner(t, r, l)
      BY <2>4
    <3>2. [record[Id(t)] EXCEPT !.role = r, !.launch = l, !.state = initialState(l)]
            \in RunnerRecord
      BY <2>2, <3>1, RecordUpdates DEF initialState, States, UpdateRunner
    <3>3. record' \in [RunnerIds -> RunnerRecord]
      BY <3>1, <3>2 DEF UpdateRunner
    <3>4. QED BY <2>2, <3>1, <3>3 DEF UpdateRunner, UpdateRoutes, Inside
  <2>5. ASSUME Id(t) \in RunnerIds,
               \E s \in States : record' = [record EXCEPT ![Id(t)].state = s]
        PROVE  record' \in [RunnerIds -> RunnerRecord]
    <3>1. PICK s \in States : record' = [record EXCEPT ![Id(t)].state = s]
      BY <2>5
    <3>2. [record[Id(t)] EXCEPT !.state = s] \in RunnerRecord
      BY <2>5, RecordUpdates
    <3>3. QED BY <2>5, <3>1, <3>2
  <2>6. CASE StartRunner(t) \/ Preflight(t) \/ SpawnFailed(t) \/ Serving(t)
             \/ MarkUnavailable(t) \/ StopNothing(t) \/ Stopped(t)
    <3>0. record[Id(t)].state \in States
      BY <2>2 DEF RunnerRecord
    <3>1. \/ record' = record
          \/ \E s \in States : record' = [record EXCEPT ![Id(t)].state = s]
      <4>1. CASE StartRunner(t) \/ Stopped(t)
        BY <4>1 DEF StartRunner, Stopped, States
      <4>2. CASE Preflight(t) \/ SpawnFailed(t) \/ Serving(t) \/ MarkUnavailable(t)
        BY <4>2 DEF Preflight, SpawnFailed, Serving, MarkUnavailable, States
      <4>3. CASE StopNothing(t)
        <5>1. record' = [record EXCEPT ![Id(t)].state =
                           IF Active(Rec(t)) THEN "stopped" ELSE Rec(t).state]
          BY <4>3 DEF StopNothing
        <5>2. QED BY <3>0, <5>1 DEF States
      <4>4. QED BY <2>6, <4>1, <4>2, <4>3
    <3>2. record' \in [RunnerIds -> RunnerRecord]
      BY <2>2, <2>5, <2>6, <3>1
    <3>3. QED
      BY <2>6, <3>2 DEF StartRunner, Preflight, SpawnFailed, Serving, MarkUnavailable,
         StopNothing, Stopped, AfterStop, Inside
  <2>7. CASE \E l \in BOOLEAN : ApplyPatchAndStart(t, l)
    <3>1. /\ [Rec(t) EXCEPT !.launch = TRUE] \in RunnerRecord
          /\ [Rec(t) EXCEPT !.launch = FALSE, !.state = "external"] \in RunnerRecord
      BY <2>2, RecordUpdates DEF States
    <3>2. \/ record' = [record EXCEPT ![Id(t)] = [Rec(t) EXCEPT !.launch = TRUE]]
          \/ record' = [record EXCEPT ![Id(t)] =
                         [Rec(t) EXCEPT !.launch = FALSE, !.state = "external"]]
      BY <2>2, <2>7 DEF ApplyPatchAndStart
    <3>3. record' \in [RunnerIds -> RunnerRecord]
      BY <2>2, <3>1, <3>2
    <3>4. QED BY <2>7, <3>3 DEF ApplyPatchAndStart, Inside
  <2>8. CASE \E p \in Procs : Spawn(t, p)
    <3>1. PICK p \in Procs : Spawn(t, p)
      BY <2>8
    <3>2. [Rec(t) EXCEPT !.cmd = p, !.stopped = FALSE, !.state = "starting"]
            \in RunnerRecord
      BY <2>2, RecordUpdates DEF States
    <3>3. record' = [record EXCEPT ![Id(t)] =
                       [Rec(t) EXCEPT !.cmd = p, !.stopped = FALSE, !.state = "starting"]]
      BY <2>2, <3>1 DEF Spawn
    <3>4. record' \in [RunnerIds -> RunnerRecord]
      BY <2>2, <3>2, <3>3
    <3>5. QED BY <2>2, <3>1, <3>4 DEF Spawn, Inside, ProcStates
  <2>9. CASE StopSignal(t)
    <3>1. [Rec(t) EXCEPT !.stopped = TRUE] \in RunnerRecord
      BY <2>2, RecordUpdates
    <3>2. record' = [record EXCEPT ![Id(t)] = [Rec(t) EXCEPT !.stopped = TRUE]]
      BY <2>2, <2>9 DEF StopSignal
    <3>3. record' \in [RunnerIds -> RunnerRecord]
      BY <2>2, <3>1, <3>2
    <3>4. Rec(t).cmd \in Procs
      BY <2>2, <2>9 DEF StopSignal, RunnerRecord
    <3>5. QED BY <2>9, <3>3, <3>4 DEF StopSignal, Inside, ProcStates
  <2>10. CASE StopExpired(t)
    BY <2>10 DEF StopExpired, Inside, ProcStates, Present
  <2>11. CASE CloseRunner(t)
    BY <2>2, <2>11 DEF CloseRunner, Inside, Blank, RunnerRecord, States
  <2>12. QED
    BY <1>6, <2>1, <2>3, <2>4, <2>6, <2>7, <2>8, <2>9, <2>10, <2>11 DEF Step
<1>7. QED BY <1>1, <1>2, <1>3, <1>4, <1>5, <1>6 DEF Next

-----------------------------------------------------------------------------
\* A step of an operation moves only its own caller, which holds opMu until
\* the operation returns.
LEMMA StepFrame ==
  ASSUME TypeOK, NEW t \in Threads, Step(t)
  PROVE  /\ pc[t] \in Inside
         /\ \A u \in Threads \ {t} : /\ pc'[u] = pc[u]
                                     /\ call'[u] = call[u]
                                     /\ child'[u] = child[u]
         /\ \/ Unlock(t)
            \/ pc'[t] \in Inside /\ call' = call /\ opMu' = opMu
<1> USE DEF TypeOK, Inside
<1>1. CASE NotFound(t) \/ UpdateRejected(t) \/ (\E r \in Roles, l \in BOOLEAN : UpdateRunner(t, r, l))
  BY <1>1 DEF NotFound, UpdateRejected, UpdateRunner
<1>2. CASE StartRunner(t) \/ (\E l \in BOOLEAN : ApplyPatchAndStart(t, l)) \/ PatchRejected(t)
  BY <1>2 DEF StartRunner, ApplyPatchAndStart, PatchRejected
<1>3. CASE Preflight(t) \/ SpawnFailed(t) \/ (\E p \in Procs : Spawn(t, p))
  BY <1>3 DEF Preflight, SpawnFailed, Spawn
<1>4. CASE WaitForRunnerReady(t) \/ Serving(t) \/ HandleStartupFailure(t) \/ MarkUnavailable(t)
  BY <1>4 DEF WaitForRunnerReady, Serving, HandleStartupFailure, MarkUnavailable
<1>5. CASE StopNothing(t) \/ StopSignal(t) \/ StopDone(t) \/ StopExpired(t)
  BY <1>5 DEF StopNothing, StopSignal, StopDone, StopExpired, AtStop, AfterStop
<1>6. CASE Stopped(t) \/ CloseRunner(t)
  BY <1>6 DEF Stopped, CloseRunner
<1>7. CASE Unlock(t)
  BY <1>7 DEF Unlock
<1>8. QED BY <1>1, <1>2, <1>3, <1>4, <1>5, <1>6, <1>7 DEF Step

LEMMA CallStep ==
  ASSUME TypeOK, CallOK, Next
  PROVE  CallOK'
<1> USE OpsAssumption, NoneAssumption
<1>1. CASE (\E i \in RunnerIds, r \in Roles, l \in BOOLEAN : CreateRunner(i, r, l))
           \/ (\E r \in Roles, i \in RunnerIds : RouteRunner(r, i))
           \/ (\E p \in Procs : Exit(p) \/ wait(p) \/ SendDone(p))
  BY <1>1 DEF CreateRunner, RouteRunner, Exit, wait, SendDone, CallOK
<1>2. CASE \E t \in Threads, op \in CallOps, i \in RunnerIds,
             ctx \in {"none", "open"} : Begin(t, op, i, ctx)
  BY <1>2 DEF Begin, TypeOK, CallOK, AtChild, CallOps
<1>3. CASE \E t \in Threads : Cancel(t) \/ Lock(t)
  BY <1>3 DEF Cancel, Lock, TypeOK, CallOK, AtChild, Call
<1>4. ASSUME NEW t \in Threads, Step(t) PROVE CallOK'
  <2>1. ASSUME NEW u \in Threads \ {t}
        PROVE  /\ pc'[u] # "idle" => call'[u].op \in CallOps \cap Ops /\ call'[u].id \in RunnerIds
               /\ pc'[u] \in AtChild => child'[u] \in Procs
               /\ pc'[u] \in {"stopWait", "stopped"} => call'[u].op \in StopOps
    BY <1>4, <2>1, StepFrame DEF CallOK
  <2>2. /\ pc'[t] # "idle" => call'[t].op \in CallOps \cap Ops /\ call'[t].id \in RunnerIds
    BY <1>4, StepFrame DEF CallOK, Unlock, Inside, TypeOK
  <2>3. pc'[t] \in AtChild => child'[t] \in Procs
    <3> USE DEF TypeOK, CallOK, AtChild
    <3>1. CASE \E p \in Procs : Spawn(t, p)
      BY <3>1 DEF Spawn
    <3>2. CASE StopSignal(t)
      <4>1. Rec(t).cmd \in Procs
        BY <3>2, StepFrame, <1>4 DEF StopSignal, RunnerRecord, Inside
      <4>2. QED BY <3>2, <4>1 DEF StopSignal
    <3>3. CASE NotFound(t) \/ UpdateRejected(t) \/ PatchRejected(t) \/ StartRunner(t)
               \/ (\E l \in BOOLEAN : ApplyPatchAndStart(t, l)) \/ CloseRunner(t)
               \/ (\E r \in Roles, l \in BOOLEAN : UpdateRunner(t, r, l))
      BY <3>3 DEF NotFound, UpdateRejected, PatchRejected, StartRunner,
         ApplyPatchAndStart, UpdateRunner, CloseRunner
    <3>4. CASE Preflight(t) \/ SpawnFailed(t) \/ WaitForRunnerReady(t) \/ Serving(t)
               \/ HandleStartupFailure(t) \/ MarkUnavailable(t)
      BY <3>4 DEF Preflight, SpawnFailed, WaitForRunnerReady, Serving,
         HandleStartupFailure, MarkUnavailable
    <3>5. CASE StopNothing(t) \/ StopDone(t) \/ StopExpired(t) \/ Stopped(t) \/ Unlock(t)
      BY <3>5 DEF StopNothing, StopDone, StopExpired, AfterStop, Stopped, Unlock
    <3>6. QED BY <1>4, <3>1, <3>2, <3>3, <3>4, <3>5 DEF Step
  <2>4. pc'[t] \in {"stopWait", "stopped"} => call'[t].op \in StopOps
    <3> USE DEF TypeOK, CallOK
    <3>1. CASE NotFound(t) \/ UpdateRejected(t) \/ PatchRejected(t) \/ StartRunner(t)
               \/ (\E l \in BOOLEAN : ApplyPatchAndStart(t, l)) \/ CloseRunner(t)
               \/ (\E r \in Roles, l \in BOOLEAN : UpdateRunner(t, r, l))
      BY <3>1 DEF NotFound, UpdateRejected, PatchRejected, StartRunner,
         ApplyPatchAndStart, UpdateRunner, CloseRunner
    <3>2. CASE Preflight(t) \/ SpawnFailed(t) \/ WaitForRunnerReady(t) \/ Serving(t)
               \/ HandleStartupFailure(t) \/ MarkUnavailable(t)
               \/ (\E p \in Procs : Spawn(t, p))
      BY <3>2 DEF Preflight, SpawnFailed, WaitForRunnerReady, Serving,
         HandleStartupFailure, MarkUnavailable, Spawn
    <3>3. CASE StopNothing(t) \/ StopSignal(t)
      BY <3>3 DEF StopNothing, StopSignal, AtStop, AfterStop
    <3>4. CASE StopDone(t) \/ StopExpired(t) \/ Stopped(t) \/ Unlock(t)
      BY <3>4 DEF StopDone, StopExpired, AfterStop, Stopped, Unlock
    <3>5. QED BY <1>4, <3>1, <3>2, <3>3, <3>4 DEF Step
  <2>5. QED BY <2>1, <2>2, <2>3, <2>4 DEF CallOK
<1>5. QED BY <1>1, <1>2, <1>3, <1>4 DEF Next

LEMMA LockStep ==
  ASSUME TypeOK, LockOK, Next
  PROVE  LockOK'
<1> USE NoneAssumption DEF LockOK, TypeOK
<1>1. CASE (\E i \in RunnerIds, r \in Roles, l \in BOOLEAN : CreateRunner(i, r, l))
           \/ (\E r \in Roles, i \in RunnerIds : RouteRunner(r, i))
           \/ (\E p \in Procs : Exit(p) \/ wait(p) \/ SendDone(p))
  BY <1>1 DEF CreateRunner, RouteRunner, Exit, wait, SendDone
<1>2. CASE \E t \in Threads, op \in CallOps, i \in RunnerIds,
             ctx \in {"none", "open"} : Begin(t, op, i, ctx)
  BY <1>2 DEF Begin, Inside
<1>3. CASE \E t \in Threads : Cancel(t) \/ Lock(t)
  BY <1>3 DEF Cancel, Lock, Inside
<1>4. ASSUME NEW t \in Threads, Step(t) PROVE LockOK'
  <2>1. CASE Unlock(t)
    BY <2>1 DEF Unlock, Inside
  <2>2. CASE ~Unlock(t)
    BY <1>4, <2>2, StepFrame
  <2>3. QED BY <2>1, <2>2
<1>5. QED BY <1>1, <1>2, <1>3, <1>4 DEF Next

LEMMA FoundStep ==
  ASSUME TypeOK, CallOK, LockOK, FoundOK, Next
  PROVE  FoundOK'
<1> USE DEF FoundOK
<1>1. CASE (\E i \in RunnerIds, r \in Roles, l \in BOOLEAN : CreateRunner(i, r, l))
           \/ (\E r \in Roles, i \in RunnerIds : RouteRunner(r, i))
           \/ (\E p \in Procs : Exit(p) \/ wait(p) \/ SendDone(p))
  BY <1>1 DEF CreateRunner, RouteRunner, Exit, wait, SendDone
<1>2. CASE \E t \in Threads, op \in CallOps, i \in RunnerIds,
             ctx \in {"none", "open"} : Begin(t, op, i, ctx)
  BY <1>2 DEF Begin, Inside, TypeOK
<1>3. CASE \E t \in Threads : Cancel(t) \/ Lock(t)
  <2>1. \A u \in Threads : call'[u].id = call[u].id
    BY <1>3 DEF Cancel, Lock, TypeOK, Call
  <2>2. QED BY <1>3, <2>1 DEF Cancel, Lock, Inside, TypeOK
<1>4. ASSUME NEW t \in Threads, Step(t) PROVE FoundOK'
  <2>1. \A u \in Threads \ {t} : pc'[u] \notin Inside
    BY <1>4, StepFrame DEF LockOK
  <2>2. CASE CloseRunner(t) \/ Unlock(t)
    BY <2>1, <2>2 DEF CloseRunner, Unlock, TypeOK, Inside
  <2>3. CASE ~CloseRunner(t) /\ ~Unlock(t)
    <3>1. runners' = runners /\ call' = call
      BY <1>4, <2>3, StepFrame DEF Step, NotFound, UpdateRejected, UpdateRunner, Spawn,
         StartRunner, ApplyPatchAndStart, PatchRejected, Preflight, SpawnFailed,
         WaitForRunnerReady, Serving, HandleStartupFailure, MarkUnavailable, StopNothing,
         StopSignal, StopDone, StopExpired, Stopped
    <3>2. Id(t) \in runners \/ pc'[t] = "unlock"
      BY <1>4, <2>3 DEF TypeOK, Inside, Step, NotFound, UpdateRejected, UpdateRunner, Spawn,
         StartRunner, ApplyPatchAndStart, PatchRejected, Preflight, SpawnFailed,
         WaitForRunnerReady, Serving, HandleStartupFailure, MarkUnavailable, StopNothing,
         StopSignal, StopDone, StopExpired, Stopped, AtStop
    <3>3. QED BY <2>1, <3>1, <3>2
  <2>4. QED BY <2>2, <2>3
<1>5. QED BY <1>1, <1>2, <1>3, <1>4 DEF Next

-----------------------------------------------------------------------------
\* A step of an operation changes the record of its own runner only, and only
\* an update, a spawn and a close change more than its state, launch and
\* stopped fields.
LEMMA RecordFrame ==
  ASSUME TypeOK, CallOK, NEW t \in Threads, Step(t)
  PROVE  /\ \A i \in RunnerIds \ {Id(t)} : record'[i] = record[i]
         /\ \/ \E r \in Roles, l \in BOOLEAN : UpdateRunner(t, r, l)
            \/ \E p \in Procs : Spawn(t, p)
            \/ CloseRunner(t)
            \/ /\ runners' = runners /\ routes' = routes /\ owner' = owner
               /\ \A i \in RunnerIds : /\ record'[i].role = record[i].role
                                       /\ record'[i].cmd = record[i].cmd
<1> USE DEF TypeOK, RunnerRecord
<1>0. Id(t) \in RunnerIds
  BY StepFrame DEF CallOK, Inside
<1>1. CASE \E r \in Roles, l \in BOOLEAN : UpdateRunner(t, r, l)
  BY <1>0, <1>1 DEF UpdateRunner
<1>2. CASE \E p \in Procs : Spawn(t, p)
  BY <1>0, <1>2 DEF Spawn
<1>3. CASE CloseRunner(t)
  BY <1>0, <1>3 DEF CloseRunner
<1>4. CASE NotFound(t) \/ UpdateRejected(t) \/ PatchRejected(t) \/ StartRunner(t)
  BY <1>0, <1>4 DEF NotFound, UpdateRejected, PatchRejected, StartRunner
<1>7. CASE \E l \in BOOLEAN : ApplyPatchAndStart(t, l)
  <2>1. CASE record' = [record EXCEPT ![Id(t)].launch = TRUE]
    BY <1>0, <1>7, <2>1 DEF ApplyPatchAndStart
  <2>2. CASE record' = [record EXCEPT ![Id(t)].launch = FALSE,
                                      ![Id(t)].state = "external"]
    BY <1>0, <1>7, <2>2 DEF ApplyPatchAndStart
  <2>3. QED BY <2>1, <2>2, <1>7 DEF ApplyPatchAndStart
<1>5. CASE Preflight(t) \/ SpawnFailed(t) \/ WaitForRunnerReady(t) \/ Serving(t)
           \/ HandleStartupFailure(t) \/ MarkUnavailable(t)
  BY <1>0, <1>5 DEF Preflight, SpawnFailed, WaitForRunnerReady, Serving,
     HandleStartupFailure, MarkUnavailable
<1>6. CASE StopNothing(t) \/ StopSignal(t) \/ StopDone(t) \/ StopExpired(t)
           \/ Stopped(t) \/ Unlock(t)
  BY <1>0, <1>6 DEF StopNothing, StopSignal, StopDone, StopExpired, Stopped, Unlock
<1>8. QED BY <1>1, <1>2, <1>3, <1>4, <1>7, <1>5, <1>6 DEF Step

\* wait() only ever forgets its own process.
LEMMA WaitFrame ==
  ASSUME TypeOK, NEW p \in Procs, wait(p)
  PROVE  /\ runners' = runners /\ routes' = routes /\ owner' = owner
         /\ \A i \in RunnerIds :
              /\ record'[i].role = record[i].role
              /\ record'[i].stopped = record[i].stopped
              /\ \/ record'[i] = record[i]
                    /\ ~(record[i].cmd = p /\ owner[p] = i /\ i \in runners)
                 \/ /\ record'[i].cmd = None /\ record[i].cmd = p
                    /\ record'[i].state \in {"stopped", "exited"}
<1>1. ASSUME NEW i \in RunnerIds
      PROVE  /\ record'[i].role = record[i].role
             /\ record'[i].stopped = record[i].stopped
             /\ \/ record'[i] = record[i]
                   /\ ~(record[i].cmd = p /\ owner[p] = i /\ i \in runners)
                \/ /\ record'[i].cmd = None /\ record[i].cmd = p
                   /\ record'[i].state \in {"stopped", "exited"}
  <2>1. record[i] \in RunnerRecord
    BY DEF TypeOK
  <2>2. CASE i = owner[p] /\ i \in runners /\ record[i].cmd = p
    <3>1. record'[i] = [record[i] EXCEPT !.cmd = None,
                                         !.state = IF record[i].stopped
                                                   THEN "stopped" ELSE "exited"]
      BY <2>2 DEF wait
    <3>2. QED BY <2>1, <2>2, <3>1 DEF RunnerRecord
  <2>3. CASE ~(i = owner[p] /\ i \in runners /\ record[i].cmd = p)
    BY <2>3 DEF wait
  <2>4. QED BY <2>2, <2>3
<1>2. QED BY <1>1 DEF wait

LEMMA RouteStep ==
  ASSUME TypeOK, CallOK, FoundOK, RouteValid, Next
  PROVE  RouteValid'
<1> USE NoneAssumption DEF RouteValid, TypeOK
<1>1. CASE \E i \in RunnerIds, r \in Roles, l \in BOOLEAN : CreateRunner(i, r, l)
  BY <1>1 DEF CreateRunner, NewRecord
<1>2. CASE \E r \in Roles, i \in RunnerIds : RouteRunner(r, i)
  BY <1>2 DEF RouteRunner
<1>3. CASE (\E t \in Threads : Cancel(t) \/ Lock(t))
           \/ (\E p \in Procs : Exit(p) \/ SendDone(p))
           \/ (\E t \in Threads, op \in CallOps, i \in RunnerIds,
                  ctx \in {"none", "open"} : Begin(t, op, i, ctx))
  BY <1>3 DEF Cancel, Lock, Exit, SendDone, Begin
<1>4. CASE \E p \in Procs : wait(p)
  BY <1>4, WaitFrame
<1>5. ASSUME NEW t \in Threads, Step(t) PROVE RouteValid'
  <2>0. Id(t) \in RunnerIds
    BY <1>5, StepFrame DEF CallOK, Inside
  <2>1. CASE \E r \in Roles, l \in BOOLEAN : UpdateRunner(t, r, l)
    BY <2>0, <2>1 DEF UpdateRunner, UpdateRoutes, RunnerRecord
  <2>2. CASE CloseRunner(t)
    BY <2>0, <2>2 DEF CloseRunner, Blank
  <2>3. CASE \E p \in Procs : Spawn(t, p)
    BY <2>0, <2>3 DEF Spawn, RunnerRecord
  <2>4. QED BY <1>5, <2>1, <2>2, <2>3, RecordFrame
<1>6. QED BY <1>1, <1>2, <1>3, <1>4, <1>5 DEF Next

LEMMA TrackedStep ==
  ASSUME TypeOK, CallOK, FoundOK, TrackedIsUnreaped, Next
  PROVE  TrackedIsUnreaped'
<1> USE NoneAssumption DEF TrackedIsUnreaped, TypeOK, Unreaped, Present
<1>1. CASE \E i \in RunnerIds, r \in Roles, l \in BOOLEAN : CreateRunner(i, r, l)
  BY <1>1 DEF CreateRunner, NewRecord
<1>2. CASE (\E t \in Threads : Cancel(t) \/ Lock(t))
           \/ (\E r \in Roles, i \in RunnerIds : RouteRunner(r, i))
           \/ (\E t \in Threads, op \in CallOps, i \in RunnerIds,
                  ctx \in {"none", "open"} : Begin(t, op, i, ctx))
  BY <1>2 DEF Cancel, Lock, RouteRunner, Begin
<1>3. CASE \E p \in Procs : Exit(p) \/ SendDone(p)
  BY <1>3 DEF Exit, SendDone, RunnerRecord
<1>4. CASE \E p \in Procs : wait(p)
  <2>1. PICK p \in Procs : wait(p)
    BY <1>4
  <2>2. ASSUME NEW i \in RunnerIds, record'[i].cmd # None
        PROVE  record'[i].cmd = record[i].cmd /\ record[i].cmd # p
    BY <2>1, <2>2, WaitFrame
  <2>3. \A q \in Procs \ {p} : proc'[q] = proc[q]
    BY <2>1 DEF wait
  <2>4. QED BY <2>1, <2>2, <2>3, WaitFrame DEF RunnerRecord
<1>5. ASSUME NEW t \in Threads, Step(t) PROVE TrackedIsUnreaped'
  <2>0. Id(t) \in RunnerIds
    BY <1>5, StepFrame DEF CallOK, Inside
  <2>1. CASE \E r \in Roles, l \in BOOLEAN : UpdateRunner(t, r, l)
    BY <2>0, <2>1 DEF UpdateRunner, RunnerRecord
  <2>2. CASE CloseRunner(t)
    BY <2>0, <2>2 DEF CloseRunner, Blank
  <2>3. CASE \E p \in Procs : Spawn(t, p)
    <3>1. Id(t) \in runners
      BY <2>3 DEF Spawn, FoundOK, Inside
    <3>2. QED BY <2>0, <2>3, <3>1 DEF Spawn, RunnerRecord
  <2>4. ASSUME \A i \in RunnerIds : record'[i].cmd = record[i].cmd,
               runners' = runners, owner' = owner
        PROVE  TrackedIsUnreaped'
    <3>1. \A p \in Procs : proc[p] \in Unreaped => proc'[p] \in Unreaped
      <4>1. CASE StopSignal(t)
        BY <4>1 DEF StopSignal, ProcStates
      <4>2. CASE StopExpired(t)
        BY <4>2 DEF StopExpired, ProcStates
      <4>3. CASE \E p \in Procs : Spawn(t, p)
        BY <4>3 DEF Spawn
      <4>4. CASE proc' = proc
        BY <4>4
      <4>5. QED
        BY <1>5, <4>1, <4>2, <4>3, <4>4 DEF Step, NotFound, UpdateRejected,
         UpdateRunner, StartRunner, ApplyPatchAndStart, PatchRejected, Preflight,
         SpawnFailed, WaitForRunnerReady, Serving, HandleStartupFailure, MarkUnavailable,
         StopNothing, StopDone, Stopped, CloseRunner, Unlock
    <3>2. QED BY <2>4, <3>1 DEF RunnerRecord
  <2>5. QED BY <1>5, <2>1, <2>2, <2>3, <2>4, RecordFrame
<1>6. QED BY <1>1, <1>2, <1>3, <1>4, <1>5 DEF Next

-----------------------------------------------------------------------------
(* The inductive invariant of every configuration. *)

IInv == TypeOK /\ CallOK /\ LockOK /\ FoundOK /\ RouteValid /\ TrackedIsUnreaped

LEMMA InitIInv == Init => IInv
<1> SUFFICES ASSUME Init PROVE RouteValid /\ TrackedIsUnreaped
  BY InitType DEF IInv
<1> USE IdAssumption, RoleAssumption, NoneAssumption DEF Init
<1>1. RouteValid
  BY DEF RouteValid, NewRecord
<1>2. TrackedIsUnreaped
  BY DEF TrackedIsUnreaped, NewRecord, Blank
<1>3. QED BY <1>1, <1>2

LEMMA NextIInv == IInv /\ [Next]_vars => IInv'
<1>1. ASSUME IInv, Next PROVE IInv'
  BY <1>1, TypeStep, CallStep, LockStep, FoundStep, RouteStep, TrackedStep DEF IInv
<1>2. ASSUME IInv, UNCHANGED vars PROVE IInv'
  BY <1>2 DEF IInv, vars, TypeOK, CallOK, LockOK, FoundOK, RouteValid, TrackedIsUnreaped,
     Unreaped
<1>3. QED BY <1>1, <1>2

LEMMA Invariance == Spec => []IInv
  BY InitIInv, NextIInv, PTL DEF Spec

\* Every variable keeps the values the Go types allow.
THEOREM TypeCorrect == Spec => []TypeOK
  BY Invariance, PTL DEF IInv

\* Whatever callers create, route, update and close, and in whatever order, a
\* role is only ever routed to a registered runner of that role.
THEOREM RoutesValid == Spec => []RouteValid
  BY Invariance, PTL DEF IInv

\* A record never keeps a process that wait() has already handled, so that no
\* stop waits for an exit that has been reported before.
THEOREM TrackedProcesses == Spec => []TrackedIsUnreaped
  BY Invariance, PTL DEF IInv

-----------------------------------------------------------------------------
(* Which processes may still serve.  A runner is quiet when it tracks no   *)
(* process, or one that was killed or has exited.                          *)

Quiet(i) == record[i].cmd = None \/ proc[record[i].cmd] \in {"killed", "exited"}

Waiting(t) == pc[t] \in {"stopWait", "failStopWait"}

\* The process an operation holds is the only one its record can track.
ChildOK ==
  \A t \in Threads :
    pc[t] \in AtChild => record[Id(t)].cmd \in {None, child[t]}

\* A record is marked stopped for the process it tracks, and while that
\* process has not been killed the stop is still waiting for it.
SignalOK ==
  \A i \in RunnerIds :
    record[i].stopped /\ ~Quiet(i) => \E t \in Threads : Id(t) = i /\ Waiting(t)

\* When stopRecord has returned nil the runner is quiet.
StoppedOK ==
  \A t \in Threads :
    /\ pc[t] \in {"stopped", "markUnavailable"} => Quiet(Id(t))
    /\ pc[t] = "stopWait" /\ Rec(t).cmd = None => ~Active(Rec(t))
    /\ pc[t] = "stopped" => ~Active(Rec(t))

\* A stop never gets to the steps of a start.
OpOK ==
  \A t \in Threads :
    pc[t] \in {"preflight", "spawn", "ready", "serving"} => call[t].op # "stop"

StopInv == ChildOK /\ SignalOK /\ StoppedOK /\ OpOK /\ StopReturnsClean

\* Operations on the default runner are only about it.
DefaultOK == \A t \in Threads : pc[t] # "idle" /\ call[t].op \in DefaultOps => Id(t) = DefaultId

\* For a runner that runtime.start never starts: a process that may still serve
\* belongs to a running runner or to the operation under way, and none is there
\* when one is spawned.
ServingOK ==
  \A i \in Spared :
    ~Quiet(i) => \/ record[i].state = "running"
                 \/ \E t \in Threads : Id(t) = i /\ pc[t] \in AtChild

SpawnOK ==
  \A t \in Threads : pc[t] \in {"preflight", "spawn"} /\ Id(t) \in Spared => Quiet(Id(t))

LiveInv == DefaultOK /\ ServingOK /\ SpawnOK /\ LiveIsTracked

\* The process a record tracks changes only by a spawn for that runner.
LEMMA CmdMoves ==
  ASSUME IInv, Next, NEW i \in RunnerIds
  PROVE  \/ record'[i].cmd \in {None, record[i].cmd}
         \/ \E t \in Threads, p \in Procs : Spawn(t, p) /\ Id(t) = i
<1> USE DEF IInv, TypeOK
<1>1. CASE \E j \in RunnerIds, r \in Roles, l \in BOOLEAN : CreateRunner(j, r, l)
  BY <1>1 DEF CreateRunner, NewRecord
<1>2. CASE (\E t \in Threads : Cancel(t) \/ Lock(t))
           \/ (\E r \in Roles, j \in RunnerIds : RouteRunner(r, j))
           \/ (\E p \in Procs : Exit(p) \/ SendDone(p))
           \/ (\E t \in Threads, op \in CallOps, j \in RunnerIds,
                  ctx \in {"none", "open"} : Begin(t, op, j, ctx))
  BY <1>2 DEF Cancel, Lock, RouteRunner, Begin, Exit, SendDone
<1>3. CASE \E p \in Procs : wait(p)
  BY <1>3, WaitFrame
<1>4. ASSUME NEW t \in Threads, Step(t)
      PROVE  \/ record'[i].cmd \in {None, record[i].cmd}
             \/ \E p \in Procs : Spawn(t, p) /\ Id(t) = i
  <2>0. Id(t) \in RunnerIds
    BY <1>4, StepFrame DEF CallOK, Inside
  <2>1. CASE \E r \in Roles, l \in BOOLEAN : UpdateRunner(t, r, l)
    BY <2>0, <2>1 DEF UpdateRunner, RunnerRecord
  <2>2. CASE CloseRunner(t)
    BY <2>0, <2>2 DEF CloseRunner, Blank
  <2>3. CASE \E p \in Procs : Spawn(t, p)
    BY <2>0, <2>3, RecordFrame, <1>4
  <2>4. QED BY <1>4, <2>1, <2>2, <2>3, RecordFrame
<1>5. QED BY <1>1, <1>2, <1>3, <1>4 DEF Next

\* How the steps of an operation change processes.
LEMMA ProcFrame ==
  ASSUME NEW t \in Threads, Step(t)
  PROVE  \/ \E p \in Procs : Spawn(t, p)
         \/ StopSignal(t)
         \/ StopExpired(t)
         \/ proc' = proc
  BY DEF Step, NotFound, UpdateRejected, UpdateRunner, StartRunner, ApplyPatchAndStart,
     PatchRejected, Preflight, SpawnFailed, WaitForRunnerReady, Serving,
     HandleStartupFailure, MarkUnavailable, StopNothing, StopDone, Stopped, CloseRunner,
     Unlock

\* A process that was killed or has exited never serves again.
LEMMA ProcMoves ==
  ASSUME IInv, Next, NEW p \in Procs, proc[p] \in {"killed", "exited"}
  PROVE  proc'[p] \in {"killed", "exited", "reaped"}
<1> USE DEF IInv, TypeOK
<1>1. CASE (\E j \in RunnerIds, r \in Roles, l \in BOOLEAN : CreateRunner(j, r, l))
           \/ (\E t \in Threads : Cancel(t) \/ Lock(t))
           \/ (\E r \in Roles, j \in RunnerIds : RouteRunner(r, j))
           \/ (\E t \in Threads, op \in CallOps, j \in RunnerIds,
                  ctx \in {"none", "open"} : Begin(t, op, j, ctx))
  BY <1>1 DEF CreateRunner, Cancel, Lock, RouteRunner, Begin
<1>2. CASE \E q \in Procs : Exit(q) \/ wait(q) \/ SendDone(q)
  BY <1>2 DEF Exit, wait, SendDone
<1>3. ASSUME NEW t \in Threads, Step(t) PROVE proc'[p] \in {"killed", "exited", "reaped"}
  <2>1. CASE \E q \in Procs : Spawn(t, q)
    BY <2>1 DEF Spawn
  <2>2. CASE StopSignal(t)
    BY <2>2 DEF StopSignal
  <2>3. CASE StopExpired(t)
    BY <2>3 DEF StopExpired
  <2>4. QED BY <1>3, <2>1, <2>2, <2>3, ProcFrame
<1>4. QED BY <1>1, <1>2, <1>3 DEF Next

\* A quiet runner stays quiet until a process is spawned for it.
LEMMA QuietKept ==
  ASSUME IInv, IInv', Next, NEW i \in RunnerIds, Quiet(i)
  PROVE  Quiet(i)' \/ \E t \in Threads, p \in Procs : Spawn(t, p) /\ Id(t) = i
<1>1. CASE record'[i].cmd = None
  BY <1>1 DEF Quiet
<1>2. CASE record'[i].cmd # None /\ record'[i].cmd = record[i].cmd
  <2>1. record[i].cmd \in Procs /\ proc[record[i].cmd] \in {"killed", "exited"}
    BY <1>2 DEF Quiet, IInv, TypeOK, RunnerRecord
  <2>2. proc'[record[i].cmd] \in {"killed", "exited", "reaped"}
    BY <2>1, ProcMoves
  <2>3. proc'[record[i].cmd] \in Unreaped
    BY <1>2 DEF IInv, TrackedIsUnreaped
  <2>4. QED BY <1>2, <2>2, <2>3 DEF Quiet, Unreaped, Present
<1>3. QED BY <1>1, <1>2, CmdMoves

\* The caller inside an operation is moved by its own steps only, and while it
\* does not step no other operation does.
LEMMA InsideFrame ==
  ASSUME IInv, Next, NEW u \in Threads, pc'[u] \in Inside \ {"enter"}
  PROVE  \/ Step(u)
         \/ /\ \A t \in Threads : ~Step(t)
            /\ pc'[u] = pc[u] /\ child'[u] = child[u] /\ result'[u] = result[u]
            /\ call'[u].id = call[u].id /\ call'[u].op = call[u].op
<1> USE DEF IInv, TypeOK
<1>1. CASE (\E j \in RunnerIds, r \in Roles, l \in BOOLEAN : CreateRunner(j, r, l))
           \/ (\E r \in Roles, j \in RunnerIds : RouteRunner(r, j))
           \/ (\E q \in Procs : Exit(q) \/ wait(q) \/ SendDone(q))
  <2>1. UNCHANGED <<pc, call, child, result>>
    BY <1>1 DEF CreateRunner, RouteRunner, Exit, wait, SendDone
  <2>2. ASSUME NEW t \in Threads, Step(t) PROVE t = u
    BY <2>1, <2>2, StepFrame DEF LockOK
  <2>3. QED BY <2>1, <2>2
<1>2. CASE \E t \in Threads : Cancel(t) \/ Lock(t) \/ \E op \in CallOps, j \in RunnerIds,
             ctx \in {"none", "open"} : Begin(t, op, j, ctx)
  <2>1. /\ pc'[u] = pc[u] /\ child'[u] = child[u] /\ result'[u] = result[u]
        /\ call'[u].id = call[u].id /\ call'[u].op = call[u].op
    BY <1>2 DEF Cancel, Lock, Begin, Inside, Call
  <2>2. ASSUME NEW t \in Threads, Step(t) PROVE t = u
    BY <2>1, <2>2, StepFrame DEF LockOK
  <2>3. QED BY <2>1, <2>2
<1>3. ASSUME NEW t \in Threads, Step(t) PROVE t = u
  BY <1>3, StepFrame DEF LockOK, Inside
<1>4. QED BY <1>1, <1>2, <1>3 DEF Next

LEMMA ChildStep ==
  ASSUME IInv, IInv', ChildOK, Next
  PROVE  ChildOK'
<1> SUFFICES ASSUME NEW u \in Threads, pc'[u] \in AtChild
             PROVE  record'[call'[u].id].cmd \in {None, child'[u]}
  BY DEF ChildOK
<1> USE DEF IInv, TypeOK
<1>0. pc'[u] \in Inside \ {"enter"}
  BY DEF AtChild, Inside
<1>1. CASE Step(u)
  <2>0. Id(u) \in RunnerIds /\ call'[u] = call[u]
    BY <1>0, <1>1, StepFrame DEF CallOK, Inside, Unlock
  <2>1. CASE \E p \in Procs : Spawn(u, p)
    BY <2>0, <2>1 DEF Spawn, RunnerRecord
  <2>2. CASE StopSignal(u)
    BY <2>0, <2>2 DEF StopSignal, RunnerRecord
  <2>3. CASE pc[u] \in AtChild /\ child' = child /\ record'[Id(u)].cmd = record[Id(u)].cmd
    BY <2>0, <2>3 DEF ChildOK
  <2>4. CASE WaitForRunnerReady(u) \/ HandleStartupFailure(u)
    BY <2>0, <2>3, <2>4 DEF WaitForRunnerReady, HandleStartupFailure, AtChild
  <2>5. CASE StopNothing(u) \/ StopDone(u) \/ StopExpired(u) \/ Stopped(u) \/ CloseRunner(u)
    BY <2>5 DEF StopNothing, StopDone, StopExpired, AfterStop, Stopped, CloseRunner,
       BecomeExternal, Goto, Return, AtChild
  <2>6. CASE NotFound(u) \/ UpdateRejected(u) \/ PatchRejected(u) \/ Serving(u) \/ Unlock(u)
             \/ SpawnFailed(u) \/ MarkUnavailable(u) \/ Preflight(u) \/ StartRunner(u)
    BY <2>6 DEF NotFound, UpdateRejected, PatchRejected, Serving, Unlock, SpawnFailed,
       MarkUnavailable, Preflight, StartRunner, markUnavailable, BecomeExternal, Goto,
       Return, AtChild
  <2>7. CASE (\E r \in Roles, l \in BOOLEAN : UpdateRunner(u, r, l))
             \/ (\E l \in BOOLEAN : ApplyPatchAndStart(u, l))
    BY <2>7 DEF UpdateRunner, ApplyPatchAndStart, Goto, Return, AtChild
  <2>8. QED BY <1>1, <2>1, <2>2, <2>4, <2>5, <2>6, <2>7 DEF Step
<1>2. CASE ~Step(u)
  <2>1. /\ \A t \in Threads : ~Step(t)
        /\ pc[u] = pc'[u] /\ child'[u] = child[u] /\ call'[u].id = call[u].id
    BY <1>0, <1>2, InsideFrame
  <2>2. record[Id(u)].cmd \in {None, child[u]} /\ Id(u) \in RunnerIds
    BY <2>1 DEF ChildOK, CallOK, AtChild
  <2>3. record'[Id(u)].cmd \in {None, record[Id(u)].cmd}
    BY <2>1, <2>2, CmdMoves DEF Step
  <2>4. QED BY <2>1, <2>2, <2>3
<1>3. QED BY <1>1, <1>2

\* When a stop has seen its process exit, or has killed it, the runner is quiet.
LEMMA WaitEnds ==
  ASSUME IInv, IInv', ChildOK, NEW t \in Threads, StopDone(t) \/ StopExpired(t), Step(t)
  PROVE  Quiet(Id(t))'
<1> USE DEF IInv, TypeOK
<1>0. /\ Id(t) \in RunnerIds /\ call' = call /\ record' = record
      /\ child[t] \in Procs /\ record[Id(t)].cmd \in {None, child[t]}
  BY DEF StopDone, StopExpired, CallOK, ChildOK, AtChild
<1>1. CASE StopDone(t)
  BY <1>0, <1>1 DEF StopDone, Quiet, TrackedIsUnreaped, Unreaped, Present
<1>2. CASE StopExpired(t)
  <2>1. CASE record[Id(t)].cmd = None
    BY <1>0, <2>1 DEF Quiet
  <2>2. CASE record[Id(t)].cmd = child[t]
    <3>1. proc[child[t]] \in Present \cup {"exited"}
      BY <1>0, <2>2, NoneAssumption DEF TrackedIsUnreaped, Unreaped
    <3>2. proc'[child[t]] \in {"killed", "exited"}
      BY <1>0, <1>2, <3>1 DEF StopExpired
    <3>3. QED BY <1>0, <2>2, <3>2 DEF Quiet
  <2>3. QED BY <1>0, <2>1, <2>2
<1>3. QED BY <1>1, <1>2

\* Between the steps of operations, the record of a registered runner changes
\* only when wait() reports that its process is gone.
LEMMA BetweenSteps ==
  ASSUME IInv, Next, \A t \in Threads : ~Step(t), NEW i \in runners
  PROVE  \/ record'[i] = record[i]
         \/ /\ record'[i].cmd = None /\ record'[i].stopped = record[i].stopped
            /\ record'[i].state \in {"stopped", "exited"}
<1> USE DEF IInv, TypeOK
<1>0. i \in RunnerIds /\ record[i] \in RunnerRecord
  OBVIOUS
<1>1. CASE \E j \in RunnerIds, r \in Roles, l \in BOOLEAN : CreateRunner(j, r, l)
  BY <1>0, <1>1 DEF CreateRunner
<1>2. CASE (\E t \in Threads : Cancel(t) \/ Lock(t))
           \/ (\E r \in Roles, j \in RunnerIds : RouteRunner(r, j))
           \/ (\E p \in Procs : Exit(p) \/ SendDone(p))
           \/ (\E t \in Threads, op \in CallOps, j \in RunnerIds,
                  ctx \in {"none", "open"} : Begin(t, op, j, ctx))
  BY <1>2 DEF Cancel, Lock, RouteRunner, Exit, SendDone, Begin
<1>3. CASE \E p \in Procs : wait(p)
  BY <1>0, <1>3, WaitFrame
<1>4. QED BY <1>1, <1>2, <1>3 DEF Next

\* A record becomes marked as stopped by a signal only.
LEMMA StoppedMoves ==
  ASSUME IInv, Next, NEW i \in RunnerIds, record'[i].stopped
  PROVE  record[i].stopped \/ \E t \in Threads : StopSignal(t) /\ Id(t) = i
<1> USE DEF IInv, TypeOK
<1>1. CASE \E j \in RunnerIds, r \in Roles, l \in BOOLEAN : CreateRunner(j, r, l)
  BY <1>1 DEF CreateRunner, NewRecord
<1>2. CASE (\E t \in Threads : Cancel(t) \/ Lock(t))
           \/ (\E r \in Roles, j \in RunnerIds : RouteRunner(r, j))
           \/ (\E p \in Procs : Exit(p) \/ SendDone(p))
           \/ (\E t \in Threads, op \in CallOps, j \in RunnerIds,
                  ctx \in {"none", "open"} : Begin(t, op, j, ctx))
  BY <1>2 DEF Cancel, Lock, RouteRunner, Exit, SendDone, Begin
<1>3. CASE \E p \in Procs : wait(p)
  BY <1>3, WaitFrame
<1>4. ASSUME NEW t \in Threads, Step(t), ~StopSignal(t) PROVE record[i].stopped
  <2>0. Id(t) \in RunnerIds /\ record[i] \in RunnerRecord /\ record[Id(t)] \in RunnerRecord
    BY <1>4, StepFrame DEF CallOK, Inside
  <2>1. CASE Id(t) # i
    BY <1>4, <2>1, RecordFrame
  <2>2. CASE Id(t) = i /\ \E p \in Procs : Spawn(t, p)
    BY <2>0, <2>2 DEF Spawn, RunnerRecord
  <2>6. CASE CloseRunner(t) \/ StopNothing(t)
    BY <2>0, <2>6 DEF CloseRunner, StopNothing, RunnerRecord, Blank
  <2>7. CASE \E r \in Roles, l \in BOOLEAN : UpdateRunner(t, r, l)
    BY <2>0, <2>7 DEF UpdateRunner, RunnerRecord
  <2>8. CASE \E l \in BOOLEAN : ApplyPatchAndStart(t, l)
    BY <2>0, <2>8 DEF ApplyPatchAndStart, RunnerRecord
  <2>3. CASE StartRunner(t) \/ Preflight(t) \/ SpawnFailed(t) \/ Serving(t)
             \/ MarkUnavailable(t) \/ Stopped(t)
    BY <2>0, <2>3 DEF StartRunner, Preflight, SpawnFailed, Serving, MarkUnavailable,
       Stopped, RunnerRecord
  <2>4. CASE NotFound(t) \/ UpdateRejected(t) \/ PatchRejected(t) \/ WaitForRunnerReady(t)
             \/ HandleStartupFailure(t) \/ StopDone(t) \/ StopExpired(t) \/ Unlock(t)
    BY <2>4 DEF NotFound, UpdateRejected, PatchRejected, WaitForRunnerReady,
       HandleStartupFailure, StopDone, StopExpired, Unlock
  <2>5. QED BY <1>4, <2>1, <2>2, <2>3, <2>4, <2>6, <2>7, <2>8 DEF Step
<1>5. CASE \E t \in Threads : StopSignal(t)
  <2>1. PICK t \in Threads : StopSignal(t)
    BY <1>5
  <2>2. CASE Id(t) = i
    BY <2>1, <2>2
  <2>3. CASE Id(t) # i
    BY <2>1, <2>3 DEF StopSignal
  <2>4. QED BY <2>2, <2>3
<1>6. QED BY <1>1, <1>2, <1>3, <1>4, <1>5 DEF Next

\* A caller inside an operation stays where it is until its own next step.
LEMMA StaysInside ==
  ASSUME IInv, Next, NEW u \in Threads, pc[u] \in Inside, ~Step(u)
  PROVE  pc'[u] = pc[u] /\ call'[u].id = call[u].id
<1> USE DEF IInv, TypeOK
<1>1. CASE (\E j \in RunnerIds, r \in Roles, l \in BOOLEAN : CreateRunner(j, r, l))
           \/ (\E r \in Roles, j \in RunnerIds : RouteRunner(r, j))
           \/ (\E q \in Procs : Exit(q) \/ wait(q) \/ SendDone(q))
  BY <1>1 DEF CreateRunner, RouteRunner, Exit, wait, SendDone
<1>2. CASE \E t \in Threads : Cancel(t) \/ Lock(t) \/ \E op \in CallOps, j \in RunnerIds,
             ctx \in {"none", "open"} : Begin(t, op, j, ctx)
  BY <1>2 DEF Cancel, Lock, Begin, Inside, Call
<1>3. ASSUME NEW t \in Threads, Step(t) PROVE FALSE
  BY <1>3, StepFrame DEF LockOK
<1>4. QED BY <1>1, <1>2, <1>3 DEF Next

LEMMA SignalStep ==
  ASSUME IInv, IInv', ChildOK, SignalOK, Next
  PROVE  SignalOK'
<1> SUFFICES ASSUME NEW i \in RunnerIds, record'[i].stopped, ~Quiet(i)'
             PROVE  \E t \in Threads : call'[t].id = i /\ Waiting(t)'
  BY DEF SignalOK
<1>1. CASE \E t \in Threads : StopSignal(t) /\ Id(t) = i
  BY <1>1 DEF StopSignal, Waiting, IInv, TypeOK
<1>2. CASE record[i].stopped /\ ~ \E t \in Threads : StopSignal(t) /\ Id(t) = i
  <2>1. ASSUME NEW t \in Threads, NEW p \in Procs, Spawn(t, p), Id(t) = i PROVE FALSE
    <3>1. record[i] \in RunnerRecord
      BY DEF IInv, TypeOK
    <3>2. record'[i] = [record[i] EXCEPT !.cmd = p, !.stopped = FALSE, !.state = "starting"]
      BY <2>1 DEF Spawn, IInv, TypeOK
    <3>3. record'[i].stopped = FALSE
      BY <3>1, <3>2 DEF RunnerRecord
    <3>4. QED BY <3>3
  <2>2. ~Quiet(i)
    BY <2>1, QuietKept
  <2>3. PICK u \in Threads : Id(u) = i /\ Waiting(u)
    BY <1>2, <2>2 DEF SignalOK
  <2>4. CASE Step(u)
    <3>1. StopDone(u) \/ StopExpired(u)
      BY <1>2, <2>3, <2>4 DEF Waiting, Step, NotFound, UpdateRejected, UpdateRunner,
         StartRunner, ApplyPatchAndStart, PatchRejected, Preflight, SpawnFailed, Spawn,
         WaitForRunnerReady, Serving, HandleStartupFailure, MarkUnavailable, StopNothing,
         AtStop, Stopped, CloseRunner, Unlock
    <3>2. call'[u] = call[u]
      BY <3>1 DEF StopDone, StopExpired
    <3>3. Quiet(Id(u))'
      BY <2>4, <3>1, WaitEnds
    <3>4. QED BY <2>3, <3>2, <3>3 DEF Quiet
  <2>5. CASE ~Step(u)
    BY <2>3, <2>5, StaysInside DEF Waiting, Inside
  <2>6. QED BY <2>4, <2>5
<1>3. QED BY <1>1, <1>2, StoppedMoves

LEMMA StoppedStep ==
  ASSUME IInv, IInv', ChildOK, SignalOK, StoppedOK, Next
  PROVE  StoppedOK'
<1> SUFFICES ASSUME NEW u \in Threads, pc'[u] \in {"stopWait", "stopped", "markUnavailable"}
             PROVE  /\ pc'[u] # "stopWait" => Quiet(call[u].id)'
                    /\ pc'[u] = "stopWait" /\ record'[call'[u].id].cmd = None
                          => ~Active(record[Id(u)])'
                    /\ pc'[u] = "stopped" => ~Active(record[Id(u)])'
  BY DEF StoppedOK, Quiet, Active
<1> USE DEF IInv, TypeOK
<1>0. pc'[u] \in Inside \ {"enter"}
  BY DEF Inside
<1>1. CASE Step(u)
  <2>0. /\ Id(u) \in RunnerIds /\ call'[u] = call[u]
        /\ record[Id(u)] \in RunnerRecord /\ record'[Id(u)] \in RunnerRecord
    BY <1>0, <1>1, StepFrame DEF CallOK, Inside, Unlock
  <2>1. CASE StopSignal(u)
    BY <2>0, <2>1 DEF StopSignal, RunnerRecord
  <2>2. CASE StopNothing(u)
    <3>1. ~ \E t \in Threads : Id(t) = Id(u) /\ Waiting(t)
      BY <2>2 DEF StopNothing, AtStop, LockOK, Waiting, Inside
    <3>2. Quiet(Id(u))
      BY <2>0, <2>2, <3>1 DEF StopNothing, SignalOK, Quiet
    <3>3. record'[Id(u)].cmd = record[Id(u)].cmd /\ proc' = proc /\ ~Active(record'[Id(u)])
      BY <2>0, <2>2 DEF StopNothing, Active, RunnerRecord
    <3>4. pc'[u] # "stopWait"
      BY <2>2 DEF StopNothing, AfterStop
    <3>5. QED BY <2>0, <3>2, <3>3, <3>4 DEF Quiet, Active
  <2>3. CASE StopDone(u)
    <3>1. Quiet(Id(u))'
      BY <1>1, <2>3, WaitEnds
    <3>2. record'[Id(u)] = record[Id(u)] /\ pc'[u] # "stopWait"
      BY <2>3 DEF StopDone, AfterStop
    <3>3. ASSUME pc'[u] = "stopped" PROVE ~Active(record[Id(u)])
      <4>1. pc[u] = "stopWait" /\ proc[child[u]] = "done" /\ record[Id(u)].cmd \in {None, child[u]}
        BY <2>3, <3>3 DEF StopDone, AfterStop, ChildOK, AtChild
      <4>2. record[Id(u)].cmd = None
        BY <2>0, <4>1 DEF TrackedIsUnreaped, Unreaped, Present
      <4>3. QED BY <4>1, <4>2 DEF StoppedOK
    <3>4. QED BY <2>0, <3>1, <3>2, <3>3 DEF Active
  <2>4. CASE StopExpired(u)
    <3>1. Quiet(Id(u))'
      BY <1>1, <2>4, WaitEnds
    <3>2. pc'[u] \notin {"stopWait", "stopped"}
      BY <2>4 DEF StopExpired
    <3>3. QED BY <2>0, <3>1, <3>2
  <2>5. pc'[u] \notin {"stopWait", "stopped", "markUnavailable"}
        \/ StopSignal(u) \/ StopNothing(u) \/ StopDone(u) \/ StopExpired(u)
    <3>1. CASE NotFound(u) \/ UpdateRejected(u) \/ PatchRejected(u) \/ Serving(u) \/ Unlock(u)
               \/ SpawnFailed(u) \/ MarkUnavailable(u) \/ Preflight(u) \/ StartRunner(u)
      BY <3>1 DEF NotFound, UpdateRejected, PatchRejected, Serving, Unlock, SpawnFailed,
         MarkUnavailable, Preflight, StartRunner
    <3>2. CASE \E r \in Roles, l \in BOOLEAN : UpdateRunner(u, r, l)
      BY <3>2 DEF UpdateRunner
    <3>5. CASE \E l \in BOOLEAN : ApplyPatchAndStart(u, l)
      BY <3>5 DEF ApplyPatchAndStart
    <3>6. CASE \E p \in Procs : Spawn(u, p)
      BY <3>6 DEF Spawn
    <3>3. CASE WaitForRunnerReady(u) \/ HandleStartupFailure(u) \/ Stopped(u) \/ CloseRunner(u)
      BY <3>3 DEF WaitForRunnerReady, HandleStartupFailure, Stopped, CloseRunner
    <3>4. QED BY <1>1, <3>1, <3>2, <3>3, <3>5, <3>6 DEF Step
  <2>6. QED BY <2>1, <2>2, <2>3, <2>4, <2>5
<1>2. CASE ~Step(u)
  <2>1. (\A t \in Threads : ~Step(t)) /\ pc'[u] = pc[u] /\ call'[u].id = Id(u)
    BY <1>0, <1>2, InsideFrame
  <2>2. Id(u) \in runners /\ Id(u) \in RunnerIds
    BY <2>1 DEF FoundOK, CallOK, Inside
  <2>3. \/ record'[Id(u)] = record[Id(u)]
        \/ record'[Id(u)].cmd = None /\ record'[Id(u)].state \in {"stopped", "exited"}
    BY <2>1, <2>2, BetweenSteps
  <2>4. CASE pc[u] = "stopWait"
    BY <2>1, <2>3, <2>4 DEF StoppedOK, Active
  <2>5. CASE pc[u] \in {"stopped", "markUnavailable"}
    <3>1. Quiet(Id(u))
      BY <2>5 DEF StoppedOK
    <3>2. ~ \E t \in Threads, p \in Procs : Spawn(t, p) /\ Id(t) = Id(u)
      BY <2>1 DEF Step
    <3>3. record'[Id(u)].cmd = None \/ proc'[record'[Id(u)].cmd] \in {"killed", "exited"}
      BY <2>1, <2>2, <3>1, <3>2, QuietKept DEF Quiet
    <3>4. pc[u] = "stopped" => ~Active(record[Id(u)])
      BY DEF StoppedOK
    <3>5. QED BY <2>1, <2>3, <2>5, <3>3, <3>4 DEF Quiet, Active
  <2>6. QED BY <2>1, <2>4, <2>5
<1>3. QED BY <1>1, <1>2

\* Nothing an operation does after a start began ends a stop.
LEMMA OpStep ==
  ASSUME IInv, IInv', OpOK, Next
  PROVE  OpOK'
<1> SUFFICES ASSUME NEW u \in Threads, pc'[u] \in {"preflight", "spawn", "ready", "serving"}
             PROVE  call'[u].op # "stop"
  BY DEF OpOK
<1> USE DEF IInv, TypeOK
<1>1. CASE Step(u)
  <2>0. call'[u] = call[u] /\ pc'[u] \in Inside
    BY <1>1, StepFrame DEF Unlock, Inside
  <2>1. CASE StopSignal(u) \/ StopNothing(u) \/ StopDone(u) \/ StopExpired(u)
    BY <2>1 DEF StopSignal, StopNothing, StopDone, StopExpired, AfterStop
  <2>2. CASE NotFound(u) \/ UpdateRejected(u) \/ PatchRejected(u) \/ Serving(u) \/ Unlock(u)
             \/ SpawnFailed(u) \/ MarkUnavailable(u) \/ Preflight(u) \/ StartRunner(u)
    BY <2>0, <2>2 DEF NotFound, UpdateRejected, PatchRejected, Serving, Unlock, SpawnFailed,
       MarkUnavailable, Preflight, StartRunner, OpOK
  <2>3. CASE (\E r \in Roles, l \in BOOLEAN : UpdateRunner(u, r, l))
             \/ (\E l \in BOOLEAN : ApplyPatchAndStart(u, l))
             \/ (\E p \in Procs : Spawn(u, p))
    BY <2>0, <2>3 DEF UpdateRunner, ApplyPatchAndStart, Spawn, OpOK
  <2>4. CASE WaitForRunnerReady(u) \/ HandleStartupFailure(u) \/ Stopped(u) \/ CloseRunner(u)
    BY <2>0, <2>4 DEF WaitForRunnerReady, HandleStartupFailure, Stopped, CloseRunner, OpOK
  <2>5. QED BY <1>1, <2>1, <2>2, <2>3, <2>4 DEF Step
<1>2. CASE ~Step(u)
  BY <1>2, InsideFrame DEF OpOK, Inside
<1>3. QED BY <1>1, <1>2

LEMMA CleanStep ==
  ASSUME IInv, IInv', StoppedOK, OpOK, StopReturnsClean, Next
  PROVE  StopReturnsClean'
<1> SUFFICES ASSUME NEW u \in Threads, pc'[u] = "unlock", call'[u].op = "stop", result'[u] = "ok"
             PROVE  Quiet(call[u].id)' /\ ~Active(record[Id(u)])'
  BY DEF StopReturnsClean, Quiet
<1> USE DEF IInv, TypeOK
<1>0. pc'[u] \in Inside \ {"enter"}
  BY DEF Inside
<1>1. CASE Step(u)
  <2>0. /\ Id(u) \in RunnerIds /\ call'[u] = call[u]
        /\ record[Id(u)] \in RunnerRecord
    BY <1>0, <1>1, StepFrame DEF CallOK, Inside, Unlock
  <2>1. CASE Stopped(u)
    BY <2>0, <2>1 DEF Stopped, StoppedOK, Quiet, Active
  <2>2. CASE NotFound(u) \/ UpdateRejected(u) \/ PatchRejected(u) \/ Serving(u) \/ Unlock(u)
             \/ SpawnFailed(u) \/ MarkUnavailable(u) \/ Preflight(u) \/ StartRunner(u)
    BY <2>0, <2>2 DEF NotFound, UpdateRejected, PatchRejected, Serving, Unlock, SpawnFailed,
       MarkUnavailable, Preflight, StartRunner, OpOK
  <2>3. CASE (\E r \in Roles, l \in BOOLEAN : UpdateRunner(u, r, l))
             \/ (\E l \in BOOLEAN : ApplyPatchAndStart(u, l))
             \/ (\E p \in Procs : Spawn(u, p))
    BY <2>0, <2>3 DEF UpdateRunner, ApplyPatchAndStart, Spawn
  <2>4. CASE WaitForRunnerReady(u) \/ HandleStartupFailure(u) \/ CloseRunner(u)
    BY <2>0, <2>4 DEF WaitForRunnerReady, HandleStartupFailure, CloseRunner
  <2>5. CASE StopSignal(u) \/ StopNothing(u) \/ StopDone(u) \/ StopExpired(u)
    BY <2>5 DEF StopSignal, StopNothing, StopDone, StopExpired, AfterStop
  <2>6. QED BY <1>1, <2>1, <2>2, <2>3, <2>4, <2>5 DEF Step
<1>2. CASE ~Step(u)
  <2>1. /\ \A t \in Threads : ~Step(t)
        /\ pc'[u] = pc[u] /\ call'[u].id = Id(u) /\ call'[u].op = call[u].op
        /\ result'[u] = result[u]
    BY <1>0, <1>2, InsideFrame
  <2>2. Quiet(Id(u)) /\ ~Active(record[Id(u)]) /\ Id(u) \in RunnerIds
    BY <2>1 DEF StopReturnsClean, CallOK, Quiet
  <2>3. record'[Id(u)].cmd = None \/ proc'[record'[Id(u)].cmd] \in {"killed", "exited"}
    BY <2>1, <2>2, QuietKept DEF Quiet, Step
  <2>4. ~Active(record'[Id(u)])
    <3>1. CASE Id(u) \in runners
      BY <2>1, <2>2, <3>1, BetweenSteps DEF Active
    <3>2. CASE \E j \in RunnerIds, r \in Roles, l \in BOOLEAN : CreateRunner(j, r, l)
      BY <2>2, <3>2 DEF CreateRunner, NewRecord, initialState, Active
    <3>3. CASE \E p \in Procs : wait(p)
      BY <2>2, <3>3, WaitFrame DEF Active
    <3>4. CASE (\E t \in Threads : Cancel(t) \/ Lock(t))
               \/ (\E r \in Roles, j \in RunnerIds : RouteRunner(r, j))
               \/ (\E p \in Procs : Exit(p) \/ SendDone(p))
               \/ (\E t \in Threads, op \in CallOps, j \in RunnerIds,
                      ctx \in {"none", "open"} : Begin(t, op, j, ctx))
      BY <2>2, <3>4 DEF Cancel, Lock, RouteRunner, Exit, SendDone, Begin
    <3>5. QED BY <2>1, <3>2, <3>3, <3>4 DEF Next
  <2>5. QED BY <2>1, <2>3, <2>4 DEF Quiet, Active
<1>3. QED BY <1>1, <1>2

LEMMA StopInvariance == Spec => []StopInv
<1>1. Init => StopInv
  <2> SUFFICES ASSUME Init PROVE StopInv
    OBVIOUS
  <2>1. \A i \in RunnerIds : record[i].cmd = None
    BY DEF Init, NewRecord, Blank
  <2>2. \A t \in Threads : pc[t] = "idle"
    BY DEF Init
  <2>3. QED
    BY <2>1, <2>2 DEF StopInv, ChildOK, SignalOK, StoppedOK, OpOK, StopReturnsClean, Quiet,
       AtChild
<1>2. ASSUME IInv, IInv', StopInv, [Next]_vars PROVE StopInv'
  <2>1. CASE Next
    BY <1>2, <2>1, ChildStep, SignalStep, StoppedStep, OpStep, CleanStep DEF StopInv
  <2>2. CASE UNCHANGED vars
    BY <1>2, <2>2 DEF vars, StopInv, ChildOK, SignalOK, StoppedOK, OpOK, StopReturnsClean,
       Quiet, Waiting, Active
  <2>3. QED BY <1>2, <2>1, <2>2
<1>3. QED BY <1>1, <1>2, Invariance, PTL DEF Spec

\* When a stop returns nil its runner serves no more, whatever other callers,
\* exits and earlier stops that timed out do meanwhile.
THEOREM StopsAreClean == Spec => []StopReturnsClean
  BY StopInvariance, PTL DEF StopInv

-----------------------------------------------------------------------------
(* No start but runtime.start overlooks a process that still serves.       *)

\* A caller keeps its operation and its runner.
LEMMA DefaultStep ==
  ASSUME IInv, DefaultOK, Next
  PROVE  DefaultOK'
<1> USE DEF IInv, TypeOK, DefaultOK
<1>1. CASE (\E j \in RunnerIds, r \in Roles, l \in BOOLEAN : CreateRunner(j, r, l))
           \/ (\E r \in Roles, j \in RunnerIds : RouteRunner(r, j))
           \/ (\E q \in Procs : Exit(q) \/ wait(q) \/ SendDone(q))
  BY <1>1 DEF CreateRunner, RouteRunner, Exit, wait, SendDone
<1>2. CASE \E t \in Threads, op \in CallOps, i \in RunnerIds,
             ctx \in {"none", "open"} : Begin(t, op, i, ctx)
  BY <1>2 DEF Begin
<1>3. CASE \E t \in Threads : Cancel(t) \/ Lock(t)
  <2>1. \A u \in Threads : call'[u].id = call[u].id /\ call'[u].op = call[u].op
    BY <1>3 DEF Cancel, Lock, Call
  <2>2. \A u \in Threads : pc'[u] # "idle" => pc[u] # "idle"
    BY <1>3 DEF Cancel, Lock
  <2> QED BY <2>1, <2>2
<1>4. ASSUME NEW t \in Threads, Step(t) PROVE DefaultOK'
  <2>1. CASE Unlock(t)
    BY <2>1 DEF Unlock
  <2>2. CASE ~Unlock(t)
    BY <1>4, <2>2, StepFrame DEF Inside
  <2> QED BY <2>1, <2>2
<1> QED BY <1>1, <1>2, <1>3, <1>4 DEF Next

\* While its process may serve, a runner is not patched, started or closed: an
\* operation only waits for the process, signals it or records that it serves.
LEMMA BusyStep ==
  ASSUME IInv, StopInv, LiveInv,
         NEW t \in Threads, Step(t), Id(t) \in Spared, ~Quiet(Id(t))
  PROVE  /\ ~ \E p \in Procs : Spawn(t, p)
         /\ ~CloseRunner(t)
         /\ ~StopNothing(t)
         /\ record'[Id(t)].state \in {record[Id(t)].state, "running"}
<1> USE DEF IInv, TypeOK
<1>0. /\ Id(t) \in RunnerIds /\ record[Id(t)] \in RunnerRecord
      /\ \A u \in Threads \ {t} : pc[u] \notin Inside
      /\ record[Id(t)].cmd # None
  BY StepFrame DEF CallOK, LockOK, Inside, Quiet
<1>1. pc[t] \notin {"preflight", "spawn", "stopped", "markUnavailable"}
  BY DEF StopInv, LiveInv, StoppedOK, SpawnOK
<1>2. ~StopNothing(t)
  BY <1>0 DEF StopNothing, AtStop, StopInv, SignalOK, Waiting, Inside
<1>3. CASE NotFound(t) \/ UpdateRejected(t) \/ PatchRejected(t) \/ WaitForRunnerReady(t)
           \/ HandleStartupFailure(t) \/ StopDone(t) \/ StopExpired(t) \/ Unlock(t)
  BY <1>1, <1>2, <1>3 DEF NotFound, UpdateRejected, PatchRejected, WaitForRunnerReady,
     HandleStartupFailure, StopDone, StopExpired, Unlock, Spawn, CloseRunner
<1>4. CASE StartRunner(t)
  <2>1. record[Id(t)].state = "running"
    BY <1>0, <1>4 DEF StartRunner, LiveInv, ServingOK, AtChild, Inside
  <2>2. QED BY <1>1, <1>2, <1>4, <2>1 DEF StartRunner, Spawn, CloseRunner
<1>5. CASE Serving(t) \/ StopSignal(t)
  <2>1. pc[t] \notin {"spawn", "stopped"}
    BY <1>1
  <2>2. record'[Id(t)].state \in {record[Id(t)].state, "running"}
    BY <1>0, <1>5 DEF Serving, StopSignal, RunnerRecord
  <2>3. QED BY <1>2, <2>1, <2>2 DEF Spawn, CloseRunner
<1>6. \A r \in Roles, l \in BOOLEAN : ~UpdateRunner(t, r, l)
  BY <1>0 DEF UpdateRunner, CannotUpdate
<1>7. \A l \in BOOLEAN : ~ApplyPatchAndStart(t, l)
  <2>1. call[t].op # "startDefault"
    BY StepFrame DEF CallOK, LiveInv, DefaultOK, DefaultOps, Spared, Inside
  <2> QED BY <1>1, <2>1 DEF ApplyPatchAndStart
<1>8. QED
  BY <1>1, <1>2, <1>3, <1>4, <1>5, <1>6, <1>7 DEF Step, Preflight, SpawnFailed, Spawn,
     MarkUnavailable, Stopped, CloseRunner

\* Steps of other operations and of processes leave the state of a runner that
\* may still serve alone.
LEMMA BusyKept ==
  ASSUME IInv, IInv', StopInv, LiveInv, Next,
         NEW i \in Spared, ~Quiet(i), ~Quiet(i)'
  PROVE  record'[i].state \in {record[i].state, "running"}
<1>0. i \in RunnerIds /\ i \in runners
  BY DEF IInv, TrackedIsUnreaped, Quiet, Spared
<1>1. CASE \A t \in Threads : ~Step(t)
  BY <1>0, <1>1, BetweenSteps DEF Quiet
<1>2. CASE \E t \in Threads : Step(t) /\ Id(t) = i
  BY <1>2, BusyStep
<1>3. CASE \E t \in Threads : Step(t) /\ Id(t) # i
  BY <1>0, <1>3, RecordFrame DEF IInv
<1>4. QED BY <1>1, <1>2, <1>3

LEMMA ServingStep ==
  ASSUME IInv, IInv', StopInv, LiveInv, Next
  PROVE  ServingOK'
<1> SUFFICES ASSUME NEW i \in Spared, ~Quiet(i)'
             PROVE  \/ record'[i].state = "running"
                    \/ \E t \in Threads : call'[t].id = i /\ pc'[t] \in AtChild
  BY DEF ServingOK
<1> USE DEF IInv, TypeOK
<1>0. i \in RunnerIds
  BY DEF Spared
<1>1. CASE \E t \in Threads, p \in Procs : Spawn(t, p) /\ Id(t) = i
  BY <1>1 DEF Spawn, AtChild
<1>2. CASE ~Quiet(i)
  <2>1. CASE record[i].state = "running"
    BY <1>2, <2>1, BusyKept
  <2>2. ASSUME NEW u \in Threads, Id(u) = i, pc[u] \in AtChild
        PROVE  \/ record'[i].state = "running"
               \/ call'[u].id = i /\ pc'[u] \in AtChild
    <3>1. CASE ~Step(u)
      BY <2>2, <3>1, StaysInside DEF AtChild, Inside
    <3>2. CASE Step(u)
      <4>0. record[i].cmd = child[u] /\ proc[child[u]] # "done" /\ call[u].op \in Ops
        BY <1>2, <2>2 DEF StopInv, ChildOK, Quiet, TrackedIsUnreaped, Unreaped, Present,
           CallOK, AtChild
      <4>1. CASE WaitForRunnerReady(u) \/ HandleStartupFailure(u)
        BY <2>2, <4>0, <4>1 DEF WaitForRunnerReady, HandleStartupFailure, AtChild
      <4>2. CASE Serving(u)
        BY <2>2, <4>2 DEF Serving, RunnerRecord
      <4>3. CASE StopSignal(u)
        BY <2>2, <4>3 DEF StopSignal, AtChild
      <4>4. CASE StopDone(u) \/ StopExpired(u)
        <5>1. Quiet(Id(u))' /\ call' = call
          BY <3>2, <4>4, WaitEnds DEF StopDone, StopExpired, StopInv
        <5>2. QED BY <2>2, <5>1 DEF Quiet
      <4>5. ~StopNothing(u)
        BY <1>2, <2>2, <3>2, BusyStep
      <4>6. QED
        BY <2>2, <3>2, <4>1, <4>2, <4>3, <4>4, <4>5 DEF Step, AtChild, NotFound,
           UpdateRejected, UpdateRunner, StartRunner, ApplyPatchAndStart, PatchRejected,
           Preflight, SpawnFailed, Spawn, MarkUnavailable, Stopped, CloseRunner, Unlock
    <3>3. QED BY <3>1, <3>2
  <2>3. QED BY <1>2, <2>1, <2>2 DEF LiveInv, ServingOK
<1>3. QED BY <1>0, <1>1, <1>2, QuietKept

LEMMA SpawnStep ==
  ASSUME IInv, IInv', StopInv, LiveInv, Next
  PROVE  SpawnOK'
<1> SUFFICES ASSUME NEW u \in Threads, pc'[u] \in {"preflight", "spawn"},
                    call'[u].id \in Spared
             PROVE  Quiet(call[u].id)'
  BY DEF SpawnOK
<1> USE DEF IInv, TypeOK
<1>0. pc'[u] \in Inside \ {"enter"}
  BY DEF Inside
<1>1. CASE Step(u)
  <2>0. /\ Id(u) \in RunnerIds /\ call'[u] = call[u] /\ call[u].op \in Ops
        /\ \A t \in Threads \ {u} : pc[t] \notin Inside
    BY <1>0, <1>1, StepFrame DEF CallOK, LockOK, Inside, Unlock
  <2>1. Quiet(Id(u))
    <3>1. CASE StartRunner(u)
      BY <2>0, <3>1 DEF StartRunner, LiveInv, ServingOK, AtChild, Inside
    <3>2. CASE \E l \in BOOLEAN : ApplyPatchAndStart(u, l)
      <4>1. call[u].op # "startDefault"
        BY <1>1, <2>0, StepFrame DEF LiveInv, DefaultOK, DefaultOps, Spared, Inside
      <4> QED BY <2>0, <3>2, <4>1 DEF ApplyPatchAndStart, StopInv, StoppedOK
    <3>3. CASE Preflight(u) \/ Stopped(u)
      BY <3>3 DEF Preflight, Stopped, LiveInv, SpawnOK, StopInv, StoppedOK
    <3>4. CASE NotFound(u) \/ UpdateRejected(u) \/ PatchRejected(u) \/ Serving(u) \/ Unlock(u)
               \/ SpawnFailed(u) \/ MarkUnavailable(u) \/ WaitForRunnerReady(u)
               \/ HandleStartupFailure(u) \/ CloseRunner(u)
      BY <3>4 DEF NotFound, UpdateRejected, PatchRejected, Serving, Unlock, SpawnFailed,
         MarkUnavailable, WaitForRunnerReady, HandleStartupFailure, CloseRunner
    <3>5. CASE StopSignal(u) \/ StopNothing(u) \/ StopDone(u) \/ StopExpired(u)
      BY <3>5 DEF StopSignal, StopNothing, StopDone, StopExpired, AfterStop
    <3>6. CASE \E r \in Roles, l \in BOOLEAN : UpdateRunner(u, r, l)
      BY <3>6 DEF UpdateRunner
    <3>7. CASE \E p \in Procs : Spawn(u, p)
      BY <3>7 DEF Spawn
    <3>8. QED BY <1>1, <3>1, <3>2, <3>3, <3>4, <3>5, <3>6, <3>7 DEF Step
  <2>2. ASSUME NEW t \in Threads, NEW p \in Procs, Spawn(t, p) PROVE FALSE
    <3>1. t = u
      BY <2>0, <2>2 DEF Spawn, Inside
    <3>2. pc'[u] = "ready"
      BY <2>2, <3>1 DEF Spawn
    <3>3. QED BY <3>2
  <2>3. record'[Id(u)].cmd = None \/ proc'[record'[Id(u)].cmd] \in {"killed", "exited"}
    BY <2>0, <2>1, <2>2, QuietKept DEF Quiet
  <2>4. QED BY <2>0, <2>3 DEF Quiet
<1>2. CASE ~Step(u)
  <2>1. (\A t \in Threads : ~Step(t)) /\ pc'[u] = pc[u] /\ call'[u].id = Id(u)
    BY <1>0, <1>2, InsideFrame
  <2>2. Quiet(Id(u)) /\ Id(u) \in RunnerIds
    BY <2>1 DEF LiveInv, SpawnOK, CallOK
  <2>3. record'[Id(u)].cmd = None \/ proc'[record'[Id(u)].cmd] \in {"killed", "exited"}
    BY <2>1, <2>2, QuietKept DEF Quiet, Step
  <2>4. QED BY <2>1, <2>3 DEF Quiet
<1>3. QED BY <1>1, <1>2

\* A process serves only if it did before or is spawned now, and the runner it
\* belongs to is the one it was spawned for.
LEMMA ServeMoves ==
  ASSUME IInv, Next, NEW p \in Procs, proc'[p] \in {"alive", "interrupted"}
  PROVE  \/ proc[p] \in {"alive", "interrupted"} /\ owner'[p] = owner[p]
         \/ \E t \in Threads : Spawn(t, p)
<1> USE DEF IInv, TypeOK
<1>1. CASE (\E j \in RunnerIds, r \in Roles, l \in BOOLEAN : CreateRunner(j, r, l))
           \/ (\E t \in Threads : Cancel(t) \/ Lock(t))
           \/ (\E r \in Roles, j \in RunnerIds : RouteRunner(r, j))
           \/ (\E t \in Threads, op \in CallOps, j \in RunnerIds,
                  ctx \in {"none", "open"} : Begin(t, op, j, ctx))
  BY <1>1 DEF CreateRunner, Cancel, Lock, RouteRunner, Begin
<1>2. CASE \E q \in Procs : Exit(q) \/ wait(q) \/ SendDone(q)
  BY <1>2 DEF Exit, wait, SendDone
<1>3. ASSUME NEW t \in Threads, Step(t)
      PROVE  \/ proc[p] \in {"alive", "interrupted"} /\ owner'[p] = owner[p]
             \/ Spawn(t, p)
  <2>1. CASE \E q \in Procs : Spawn(t, q)
    BY <2>1 DEF Spawn
  <2>2. CASE StopSignal(t)
    BY <2>2 DEF StopSignal
  <2>3. CASE StopExpired(t)
    BY <2>3 DEF StopExpired
  <2>4. CASE proc' = proc /\ owner' = owner
    BY <2>4
  <2>5. owner' = owner \/ \E q \in Procs : Spawn(t, q)
    BY <1>3, RecordFrame DEF UpdateRunner, CloseRunner
  <2>6. QED BY <1>3, <2>1, <2>2, <2>3, <2>4, <2>5, ProcFrame
<1>4. QED BY <1>1, <1>2, <1>3 DEF Next

LEMMA LiveStep ==
  ASSUME IInv, IInv', StopInv, LiveInv, Next
  PROVE  LiveIsTracked'
<1> SUFFICES ASSUME NEW p \in Procs, proc'[p] \in {"alive", "interrupted"}
             PROVE  /\ owner'[p] \in RunnerIds
                    /\ owner'[p] \in Spared => record'[owner'[p]].cmd = p
  BY DEF LiveIsTracked
<1> USE DEF IInv, TypeOK
<1>1. CASE \E t \in Threads : Spawn(t, p)
  BY <1>1 DEF Spawn, RunnerRecord, CallOK
<1>2. CASE proc[p] \in {"alive", "interrupted"} /\ owner'[p] = owner[p]
  <2> DEFINE i == owner[p]
  <2>0. i \in RunnerIds
    BY <1>2 DEF LiveInv, LiveIsTracked
  <2> SUFFICES ASSUME i \in Spared PROVE record'[owner'[p]].cmd = p
    BY <1>2, <2>0
  <2>1. i \in RunnerIds /\ record[i].cmd = p /\ ~Quiet(i) /\ i \in runners
    BY <1>2, NoneAssumption DEF LiveInv, LiveIsTracked, Quiet, TrackedIsUnreaped
  <2>2. CASE \E t \in Threads : Step(t) /\ Id(t) = i
    <3>1. PICK t \in Threads : Step(t) /\ Id(t) = i
      BY <2>2
    <3>2. (\A q \in Procs : ~Spawn(t, q)) /\ ~CloseRunner(t)
      BY <2>1, <3>1, BusyStep
    <3>3. \A r \in Roles, l \in BOOLEAN : ~UpdateRunner(t, r, l)
      BY <2>1, <3>1, NoneAssumption DEF UpdateRunner, CannotUpdate
    <3>4. QED BY <1>2, <2>1, <3>1, <3>2, <3>3, RecordFrame
  <2>3. CASE \E t \in Threads : Step(t) /\ Id(t) # i
    BY <1>2, <2>1, <2>3, RecordFrame
  <2>4. CASE (\A t \in Threads : ~Step(t)) /\ ~ \E q \in Procs : wait(q)
    <3>1. CASE \E j \in RunnerIds, r \in Roles, l \in BOOLEAN : CreateRunner(j, r, l)
      BY <1>2, <2>1, <3>1 DEF CreateRunner
    <3>2. CASE (\E t \in Threads : Cancel(t) \/ Lock(t))
               \/ (\E r \in Roles, j \in RunnerIds : RouteRunner(r, j))
               \/ (\E q \in Procs : Exit(q) \/ SendDone(q))
               \/ (\E t \in Threads, op \in CallOps, j \in RunnerIds,
                      ctx \in {"none", "open"} : Begin(t, op, j, ctx))
      BY <1>2, <2>1, <3>2 DEF Cancel, Lock, RouteRunner, Exit, SendDone, Begin
    <3>3. QED BY <2>4, <3>1, <3>2 DEF Next
  <2>5. CASE \E q \in Procs : wait(q)
    <3>1. PICK q \in Procs : wait(q)
      BY <2>5
    <3>2. q # p
      BY <1>2, <3>1 DEF wait
    <3>3. record'[i].cmd = p
      BY <2>1, <3>1, <3>2, WaitFrame
    <3>4. QED BY <1>2, <2>1, <3>3
  <2>6. QED BY <2>2, <2>3, <2>4, <2>5
<1>3. QED BY <1>1, <1>2, ServeMoves

LEMMA LiveInvariance == Spec => []LiveInv
<1>1. Init => LiveInv
  <2> SUFFICES ASSUME Init PROVE LiveInv
    OBVIOUS
  <2>1. (\A i \in RunnerIds : record[i].cmd = None) /\ (\A t \in Threads : pc[t] = "idle")
        /\ (\A p \in Procs : proc[p] = "unused")
    BY DEF Init, NewRecord, Blank
  <2>2. QED
    BY <2>1 DEF LiveInv, DefaultOK, ServingOK, SpawnOK, LiveIsTracked, Quiet, Spared
<1>2. ASSUME IInv, IInv', StopInv, LiveInv, [Next]_vars PROVE LiveInv'
  <2>1. CASE Next
    BY <1>2, <2>1, DefaultStep, ServingStep, SpawnStep, LiveStep DEF LiveInv
  <2>2. CASE UNCHANGED vars
    BY <1>2, <2>2 DEF vars, LiveInv, DefaultOK, ServingOK, SpawnOK, LiveIsTracked, Quiet
  <2>3. QED BY <1>2, <2>1, <2>2
<1>3. QED BY <1>1, <1>2, Invariance, StopInvariance, PTL DEF Spec

\* No process that may still serve is lost, except one of the default runner to
\* runtime.start: the record of its runner tracks it, so a stop or close
\* reaches it.
THEOREM LiveProcesses == Spec => []LiveIsTracked
  BY LiveInvariance, PTL DEF LiveInv

\* So a runner that runtime.start never starts has one serving process at most,
\* what TestSupervisorSerializesConcurrentStarts wants of the default runner.
THEOREM OneProcessOfOthers ==
  Spec => [](\A p, q \in Procs :
               /\ proc[p] = "alive" /\ proc[q] = "alive"
               /\ owner[p] = owner[q] /\ owner[p] \in Spared
               => p = q)
<1> DEFINE One == \A p, q \in Procs :
               /\ proc[p] = "alive" /\ proc[q] = "alive"
               /\ owner[p] = owner[q] /\ owner[p] \in Spared
               => p = q
<1>1. LiveIsTracked => One
  BY DEF LiveIsTracked
<1> QED BY <1>1, LiveProcesses, PTL

-----------------------------------------------------------------------------
(* What two documented promises that the code breaks come down to: the     *)
(* only steps that break them.                                             *)

\* A role is left without a route in no other way than by closing the runner it
\* leads to, or by giving another role to a runner that has this one; that this
\* runner need not be the routed one is all that PinnedRouteKept fails for.
THEOREM RoutesLost ==
  Spec => [][\A r \in Roles :
               routes[r] # None /\ routes'[r] = None =>
                 \/ routes[r] \in runners \ runners'
                 \/ \E i \in runners : record[i].role = r /\ record'[i].role # r]_vars
<1>1. ASSUME IInv, Next, NEW r \in Roles, routes[r] # None, routes'[r] = None
      PROVE  \/ routes[r] \in runners \ runners'
             \/ \E i \in runners : record[i].role = r /\ record'[i].role # r
  <2> USE NoneAssumption DEF IInv, TypeOK
  <2>1. CASE (\E i \in RunnerIds, s \in Roles, l \in BOOLEAN : CreateRunner(i, s, l))
             \/ (\E s \in Roles, i \in RunnerIds : RouteRunner(s, i))
             \/ (\E p \in Procs : Exit(p) \/ wait(p) \/ SendDone(p))
             \/ (\E t \in Threads : Cancel(t) \/ Lock(t))
             \/ (\E t \in Threads, op \in CallOps, i \in RunnerIds,
                    ctx \in {"none", "open"} : Begin(t, op, i, ctx))
    BY <1>1, <2>1 DEF CreateRunner, RouteRunner, Exit, wait, SendDone, Cancel, Lock, Begin
  <2>2. ASSUME NEW t \in Threads, Step(t)
        PROVE  \/ routes[r] \in runners \ runners'
               \/ \E i \in runners : record[i].role = r /\ record'[i].role # r
    <3>1. Id(t) \in RunnerIds /\ record[Id(t)] \in RunnerRecord
      BY <1>1, <2>2, StepFrame DEF CallOK, Inside
    <3>2. CASE CloseRunner(t)
      <4>1. routes[r] = Id(t)
        BY <1>1, <3>1, <3>2 DEF CloseRunner
      <4>2. Id(t) \in runners /\ runners' = runners \ {Id(t)}
        BY <1>1, <4>1, <3>2 DEF CloseRunner, RouteValid
      <4> QED BY <4>1, <4>2
    <3>3. CASE \E s \in Roles, l \in BOOLEAN : UpdateRunner(t, s, l)
      <4>1. PICK s \in Roles, l \in BOOLEAN : UpdateRunner(t, s, l)
        BY <3>3
      <4>2. r = record[Id(t)].role /\ r # s /\ Id(t) \in runners
        BY <1>1, <3>1, <4>1 DEF UpdateRunner, UpdateRoutes
      <4>3. record'[Id(t)].role = s
        BY <1>1, <3>1, <4>1 DEF UpdateRunner, RunnerRecord
      <4> QED BY <4>2, <4>3
    <3>4. CASE \E p \in Procs : Spawn(t, p)
      BY <1>1, <3>4 DEF Spawn
    <3> QED BY <1>1, <2>2, <3>2, <3>3, <3>4, RecordFrame
  <2> QED BY <1>1, <2>1, <2>2 DEF Next
<1>2. IInv /\ [Next]_vars =>
        [\A r \in Roles :
           routes[r] # None /\ routes'[r] = None =>
             \/ routes[r] \in runners \ runners'
             \/ \E i \in runners : record[i].role = r /\ record'[i].role # r]_vars
  BY <1>1
<1> QED BY <1>2, Invariance, PTL DEF Spec

\* A runner that runs is launched, and so is one that is being started.
Launching == {"preflight", "spawn", "ready", "serving"}

LaunchOK ==
  /\ \A i \in RunnerIds : record[i].state = "running" => record[i].launch
  /\ \A t \in Threads : pc[t] \in Launching => Rec(t).launch

\* What the steps of an operation do to its runner: only a probe that was
\* answered makes it running.
LEMMA OwnRecord ==
  ASSUME IInv, LaunchOK, NEW t \in Threads, Step(t)
  PROVE  /\ record'[Id(t)].state = "running" =>
              record'[Id(t)].launch /\ (record[Id(t)].state = "running" \/ Serving(t))
         /\ pc'[t] \in Launching => record'[Id(t)].launch
<1> USE DEF IInv, TypeOK, Launching
<1>0. /\ Id(t) \in RunnerIds /\ record[Id(t)] \in RunnerRecord
      /\ record[Id(t)].state = "running" => record[Id(t)].launch
      /\ pc[t] \in Launching => record[Id(t)].launch
  BY StepFrame DEF CallOK, Inside, LaunchOK
<1>1. CASE NotFound(t) \/ UpdateRejected(t) \/ PatchRejected(t) \/ WaitForRunnerReady(t)
           \/ HandleStartupFailure(t) \/ StopDone(t) \/ StopExpired(t) \/ Unlock(t)
  BY <1>0, <1>1 DEF NotFound, UpdateRejected, PatchRejected, WaitForRunnerReady,
     HandleStartupFailure, StopDone, StopExpired, Unlock, AfterStop
<1>2. CASE \E r \in Roles, l \in BOOLEAN : UpdateRunner(t, r, l)
  BY <1>0, <1>2 DEF UpdateRunner, RunnerRecord, initialState
<1>3. CASE StartRunner(t) \/ Stopped(t)
  BY <1>0, <1>3 DEF StartRunner, Stopped, RunnerRecord
<1>4. CASE \E l \in BOOLEAN : ApplyPatchAndStart(t, l)
  BY <1>0, <1>4 DEF ApplyPatchAndStart, RunnerRecord
<1>5. CASE Preflight(t) \/ SpawnFailed(t) \/ Serving(t) \/ MarkUnavailable(t)
  BY <1>0, <1>5 DEF Preflight, SpawnFailed, Serving, MarkUnavailable, RunnerRecord
<1>6. CASE \E p \in Procs : Spawn(t, p)
  BY <1>0, <1>6 DEF Spawn, RunnerRecord
<1>7. CASE StopNothing(t) \/ StopSignal(t)
  BY <1>0, <1>7 DEF StopNothing, StopSignal, RunnerRecord, AfterStop
<1>8. CASE CloseRunner(t)
  BY <1>0, <1>8 DEF CloseRunner, Blank
<1> QED BY <1>1, <1>2, <1>3, <1>4, <1>5, <1>6, <1>7, <1>8 DEF Step

\* Steps of no operation leave the records alone, but for an exit and a runner
\* that is created.
LEMMA OtherRecords ==
  ASSUME IInv, Next, \A t \in Threads : ~Step(t), NEW i \in RunnerIds
  PROVE  /\ record'[i].launch = record[i].launch \/ i \notin runners
         /\ record'[i] = record[i] \/ record'[i].state # "running"
<1> USE DEF IInv, TypeOK
<1>1. CASE \E j \in RunnerIds, r \in Roles, l \in BOOLEAN : CreateRunner(j, r, l)
  BY <1>1 DEF CreateRunner, NewRecord, initialState
<1>2. CASE (\E t \in Threads : Cancel(t) \/ Lock(t))
           \/ (\E r \in Roles, j \in RunnerIds : RouteRunner(r, j))
           \/ (\E p \in Procs : Exit(p) \/ SendDone(p))
           \/ (\E t \in Threads, op \in CallOps, j \in RunnerIds,
                  ctx \in {"none", "open"} : Begin(t, op, j, ctx))
  BY <1>2 DEF Cancel, Lock, RouteRunner, Exit, SendDone, Begin
<1>3. ASSUME NEW p \in Procs, wait(p)
      PROVE  record'[i].launch = record[i].launch
             /\ (record'[i] = record[i] \/ record'[i].state # "running")
  <2>1. record'[i] = record[i] \/ record'[i] = Exited(record[i])
    BY <1>3 DEF wait
  <2>2. record[i] \in RunnerRecord
    OBVIOUS
  <2> QED BY <2>1, <2>2 DEF RunnerRecord
<1> QED BY <1>1, <1>2, <1>3 DEF Next

LEMMA LaunchStep == ASSUME IInv, LaunchOK, Next PROVE LaunchOK'
<1> USE DEF IInv, TypeOK
<1>1. CASE \A t \in Threads : ~Step(t)
  <2>1. ASSUME NEW i \in RunnerIds, record'[i].state = "running" PROVE record'[i].launch
    <3>1. record'[i] = record[i]
      BY <1>1, <2>1, OtherRecords
    <3> QED BY <2>1, <3>1 DEF LaunchOK
  <2>2. ASSUME NEW u \in Threads, pc'[u] \in Launching PROVE record'[call'[u].id].launch
    <3>1. pc'[u] \in Inside \ {"enter"}
      BY <2>2 DEF Launching, Inside
    <3>2. pc[u] \in Launching /\ call'[u].id = Id(u)
      BY <1>1, <2>2, <3>1, InsideFrame
    <3>3. Id(u) \in runners /\ Id(u) \in RunnerIds /\ record[Id(u)].launch
      BY <3>2 DEF Launching, FoundOK, CallOK, Inside, LaunchOK
    <3>4. record'[Id(u)].launch = record[Id(u)].launch
      BY <1>1, <3>3, OtherRecords
    <3> QED BY <3>2, <3>3, <3>4
  <2> QED BY <2>1, <2>2 DEF LaunchOK
<1>2. ASSUME NEW t \in Threads, Step(t) PROVE LaunchOK'
  <2>1. ASSUME NEW i \in RunnerIds, record'[i].state = "running" PROVE record'[i].launch
    <3>1. CASE i = Id(t)
      BY <1>2, <2>1, <3>1, OwnRecord
    <3>2. CASE i # Id(t)
      BY <1>2, <2>1, <3>2, RecordFrame DEF LaunchOK
    <3> QED BY <3>1, <3>2
  <2>2. ASSUME NEW u \in Threads, pc'[u] \in Launching PROVE record'[call'[u].id].launch
    <3>1. u = t
      BY <1>2, <2>2, StepFrame DEF LockOK, Launching, Inside
    <3>2. call' = call
      BY <1>2, <2>2, <3>1, StepFrame DEF Unlock, Launching
    <3> QED BY <1>2, <2>2, <3>1, <3>2, OwnRecord
  <2> QED BY <2>1, <2>2 DEF LaunchOK
<1> QED BY <1>1, <1>2

\* NoRouteForExitedRunner fails in one way only: the start of a runner, whose
\* process wait() has reaped after its first answer, writes "running" over what
\* wait() wrote.  No call, exit or other start leaves a launched runner that
\* runs without a process.
Gone(i) == record[i].launch /\ record[i].state = "running" /\ record[i].cmd = None

THEOREM RunningWithoutProcess ==
  Spec => [][\A i \in RunnerIds :
               Gone(i)' /\ ~Gone(i) =>
                 \E t \in Threads : Serving(t) /\ Id(t) = i /\ record[i].cmd = None]_vars
<1> DEFINE Caused == \A i \in RunnerIds :
               Gone(i)' /\ ~Gone(i) =>
                 \E t \in Threads : Serving(t) /\ Id(t) = i /\ record[i].cmd = None
<1>1. Init => LaunchOK
  BY DEF Init, LaunchOK, Launching, NewRecord, Blank, initialState
<1>2. IInv /\ LaunchOK /\ [Next]_vars => LaunchOK'
  <2>1. CASE UNCHANGED vars
    BY <2>1 DEF vars, LaunchOK
  <2> QED BY <2>1, LaunchStep
<1>3. ASSUME IInv, LaunchOK, Next, NEW i \in RunnerIds, Gone(i)', ~Gone(i)
      PROVE  \E t \in Threads : Serving(t) /\ Id(t) = i /\ record[i].cmd = None
  <2> USE DEF IInv, TypeOK
  <2>1. record'[i].state = "running" /\ record'[i].cmd = None /\ record'[i] # record[i]
    BY <1>3 DEF Gone
  <2>2. PICK t \in Threads : Step(t)
    BY <1>3, <2>1, OtherRecords
  <2>3. Id(t) = i
    BY <1>3, <2>1, <2>2, RecordFrame
  <2>4. record[i].state = "running" => record[i].launch
    BY <1>3 DEF LaunchOK
  <2>5. record[i].state = "running" \/ Serving(t)
    BY <1>3, <2>1, <2>2, <2>3, OwnRecord
  <2>6. record[i] \in RunnerRecord
    BY <1>3
  <2>7. record'[i].cmd = record[i].cmd
    <3>1. CASE \E r \in Roles, l \in BOOLEAN : UpdateRunner(t, r, l)
      BY <1>3, <2>1, <2>3, <2>6, <3>1 DEF UpdateRunner, RunnerRecord, initialState
    <3>2. CASE CloseRunner(t)
      BY <1>3, <2>1, <2>3, <3>2 DEF CloseRunner, Blank
    <3>3. CASE \E p \in Procs : Spawn(t, p)
      BY <1>3, <2>1, <2>3, <2>6, <3>3 DEF Spawn, RunnerRecord
    <3> QED BY <1>3, <2>2, <3>1, <3>2, <3>3, RecordFrame
  <2>8. Serving(t)
    BY <1>3, <2>1, <2>4, <2>5, <2>7 DEF Gone
  <2> QED BY <2>1, <2>3, <2>7, <2>8
<1>4. IInv /\ LaunchOK /\ [Next]_vars => [Caused]_vars
  BY <1>3
<1> QED BY <1>1, <1>2, <1>4, Invariance, PTL DEF Spec

-----------------------------------------------------------------------------
(* The supervisor implements the registry: what RunnerRegistry sees of a   *)
(* state, and the step of the registry that each step of the supervisor is.*)

RoleOf == [i \in RunnerIds |-> record[i].role]
LiveOf == [i \in RunnerIds |-> {p \in Procs : owner[p] = i /\ proc[p] = "alive"}]

RInv == IInv /\ StopInv /\ LiveInv

\* A serving process of a spared runner is the one that the record tracks.
LEMMA LiveIsCmd ==
  ASSUME RInv, NEW i \in Spared
  PROVE  /\ LiveOf[i] \subseteq {record[i].cmd}
         /\ Quiet(i) => LiveOf[i] = {}
         /\ i \notin runners => LiveOf[i] = {}
<1>0. i \in RunnerIds
  BY DEF Spared
<1>1. \A p \in LiveOf[i] : /\ p \in Procs /\ record[i].cmd = p /\ proc[p] = "alive"
                           /\ i \in runners
  BY <1>0, NoneAssumption DEF RInv, LiveInv, LiveIsTracked, LiveOf, IInv, TrackedIsUnreaped
<1>2. \A p \in LiveOf[i] : ~ Quiet(i)
  BY <1>1, NoneAssumption DEF Quiet
<1> QED BY <1>1, <1>2

\* What a step that changes no process or role is to the registry.
LEMMA SameRoles ==
  ASSUME \A i \in RunnerIds : record'[i].role = record[i].role
  PROVE  RoleOf' = RoleOf
BY DEF RoleOf

LEMMA SameLive ==
  ASSUME owner' = owner, \A p \in Procs : proc'[p] = "alive" <=> proc[p] = "alive"
  PROVE  LiveOf' = LiveOf
BY DEF LiveOf

\* One process stops serving.
LEMMA LosesLive ==
  ASSUME RInv, runners' = runners, routes' = routes, owner' = owner, RoleOf' = RoleOf,
         NEW p \in Procs, proc[p] = "alive", proc'[p] # "alive",
         \A q \in Procs \ {p} : proc'[q] = "alive" <=> proc[q] = "alive"
  PROVE  Registry!Next
<1>0. owner[p] \in RunnerIds
  BY DEF RInv, LiveInv, LiveIsTracked
<1>1. PICK i \in RunnerIds : i = owner[p]
  BY <1>0
<1>2. p \in LiveOf[i]
  BY <1>1 DEF LiveOf
<1>3. LiveOf' = [LiveOf EXCEPT ![i] = LiveOf[i] \ {p}]
  BY <1>1 DEF LiveOf
<1>4. Registry!Lose(i, p)
  BY <1>2, <1>3 DEF Registry!Lose, RoleOf, LiveOf
<1> QED BY <1>1, <1>4 DEF Registry!Next

LEMMA CreateRegisters ==
  ASSUME RInv, NEW i \in RunnerIds, NEW r \in Roles, NEW l \in BOOLEAN,
         CreateRunner(i, r, l)
  PROVE  Registry!Register(i, r)
<1>1. (i \in Spared => LiveOf[i] = {}) /\ LiveOf' = LiveOf
  BY LiveIsCmd, SameLive DEF CreateRunner
<1>2. RoleOf' = [RoleOf EXCEPT ![i] = r]
  BY DEF CreateRunner, RoleOf, NewRecord, RInv, IInv, TypeOK
<1> QED BY <1>1, <1>2 DEF CreateRunner, Registry!Register, Registry!Idle, RoleOf, LiveOf

LEMMA RoutePins ==
  ASSUME RInv, NEW r \in Roles, NEW i \in RunnerIds, RouteRunner(r, i)
  PROVE  Registry!Pin(i)
<1>1. RoleOf' = RoleOf /\ LiveOf' = LiveOf
  BY SameRoles, SameLive DEF RouteRunner
<1>2. RoleOf[i] = r
  BY DEF RouteRunner, RoleOf
<1> QED BY <1>1, <1>2 DEF RouteRunner, Registry!Pin, RoleOf, LiveOf

LEMMA UpdateReroles ==
  ASSUME RInv, NEW t \in Threads, NEW r \in Roles, NEW l \in BOOLEAN,
         UpdateRunner(t, r, l)
  PROVE  Registry!Next
<1>0. Id(t) \in RunnerIds /\ Id(t) \in runners /\ record[Id(t)].cmd = None
  BY DEF UpdateRunner, CannotUpdate, RInv, IInv, TypeOK
<1>1. PICK i \in RunnerIds : i = Id(t) /\ i \in runners /\ record[i].cmd = None
  BY <1>0
<1>2. (i \in Spared => LiveOf[i] = {}) /\ LiveOf' = LiveOf
  BY <1>1, LiveIsCmd, SameLive DEF UpdateRunner, Quiet
<1>3. RoleOf' = [RoleOf EXCEPT ![i] = r]
  <2>1. record[i] \in RunnerRecord
    BY DEF RInv, IInv, TypeOK
  <2>2. record'[i] = [record[i] EXCEPT !.role = r, !.launch = l, !.state = initialState(l)]
    BY <1>1 DEF UpdateRunner, RInv, IInv, TypeOK
  <2>3. record'[i].role = r
    BY <2>1, <2>2 DEF RunnerRecord
  <2>4. \A j \in RunnerIds \ {i} : record'[j] = record[j]
    BY <1>1 DEF UpdateRunner, RInv, IInv, TypeOK
  <2> QED BY <2>3, <2>4 DEF RoleOf
<1>4. RoleOf[i] = record[i].role
  BY <1>1 DEF RoleOf
<1>5. routes' = [s \in Roles |-> IF s = r THEN i
                                 ELSE IF s = RoleOf[i] THEN None ELSE routes[s]]
  BY <1>1, <1>4 DEF UpdateRunner, UpdateRoutes
<1>6. Registry!Rerole(i, r)
  BY <1>1, <1>2, <1>3, <1>5 DEF UpdateRunner, Registry!Rerole, Registry!Idle, RoleOf, LiveOf
<1> QED BY <1>1, <1>6 DEF Registry!Next

LEMMA SpawnLaunches ==
  ASSUME RInv, NEW t \in Threads, NEW p \in Procs, Spawn(t, p)
  PROVE  Registry!Next
<1>0. Id(t) \in RunnerIds /\ Id(t) \in runners
  BY DEF Spawn, RInv, IInv, FoundOK, TypeOK, Inside
<1>1. PICK i \in RunnerIds : i = Id(t) /\ i \in runners
  BY <1>0
<1>2. i \in Spared => LiveOf[i] = {}
  BY <1>1, LiveIsCmd DEF Spawn, RInv, LiveInv, SpawnOK
<1>3. proc[p] = "unused" /\ proc'[p] = "alive" /\ owner'[p] = i
      /\ \A q \in Procs \ {p} : proc'[q] = proc[q] /\ owner'[q] = owner[q]
  BY <1>1 DEF Spawn, RInv, IInv, TypeOK
<1>4. LiveOf' = [LiveOf EXCEPT ![i] = LiveOf[i] \cup {p}]
  <2>1. \A j \in RunnerIds : LiveOf'[j] = IF j = i THEN LiveOf[i] \cup {p} ELSE LiveOf[j]
    BY <1>1, <1>3 DEF LiveOf
  <2> QED BY <2>1 DEF LiveOf
<1>7. \A j \in RunnerIds : p \notin LiveOf[j]
  BY <1>3 DEF LiveOf
<1>5. RoleOf' = RoleOf
  BY <1>1, SameRoles DEF Spawn, RInv, IInv, TypeOK, RunnerRecord
<1>6. Registry!Launch(i, p)
  BY <1>1, <1>2, <1>4, <1>5, <1>7
     DEF Spawn, Registry!Launch, Registry!Idle, RoleOf, LiveOf
<1> QED BY <1>1, <1>6 DEF Registry!Next

LEMMA CloseRemoves ==
  ASSUME RInv, NEW t \in Threads, CloseRunner(t)
  PROVE  Registry!Next
<1>0. Id(t) \in RunnerIds /\ Id(t) \in runners
  BY DEF CloseRunner, RInv, IInv, FoundOK, TypeOK, Inside
<1>1. PICK i \in RunnerIds : i = Id(t) /\ i \in runners
  BY <1>0
<1>2. (i \in Spared => LiveOf[i] = {}) /\ LiveOf' = LiveOf
  BY <1>1, LiveIsCmd, SameLive DEF CloseRunner, RInv, StopInv, StoppedOK
<1>3. RoleOf' = [RoleOf EXCEPT ![i] = None]
  BY <1>1 DEF CloseRunner, RoleOf, Blank, RInv, IInv, TypeOK
<1>4. routes' = [s \in Roles |-> IF routes[s] = i THEN None ELSE routes[s]]
  <2>1. routes \in [Roles -> RunnerIds \cup {None}]
    BY DEF RInv, IInv, TypeOK
  <2>2. routes' = [routes EXCEPT ![record[i].role] = IF @ = i THEN None ELSE @]
    BY <1>1 DEF CloseRunner
  <2>3. \A s \in Roles : routes[s] = i => s = record[i].role
    BY <1>1, NoneAssumption DEF RInv, IInv, RouteValid
  <2>4. \A s \in Roles : routes'[s] = IF routes[s] = i THEN None ELSE routes[s]
    BY <2>1, <2>2, <2>3
  <2>5. routes' \in [Roles -> RunnerIds \cup {None}]
    BY <2>1, <2>2
  <2> QED BY <2>4, <2>5
<1>5. Registry!Remove(i)
  BY <1>1, <1>2, <1>3, <1>4 DEF CloseRunner, Registry!Remove, Registry!Idle, RoleOf, LiveOf
<1> QED BY <1>1, <1>5 DEF Registry!Next

\* A step of an operation.
LEMMA StepRefines ==
  ASSUME RInv, NEW t \in Threads, Step(t)
  PROVE  Registry!Next \/ UNCHANGED Registry!vars
<1>1. CASE \E r \in Roles, l \in BOOLEAN : UpdateRunner(t, r, l)
  BY <1>1, UpdateReroles
<1>2. CASE \E p \in Procs : Spawn(t, p)
  BY <1>2, SpawnLaunches
<1>3. CASE CloseRunner(t)
  BY <1>3, CloseRemoves
<1>4. CASE /\ runners' = runners /\ routes' = routes /\ owner' = owner
           /\ \A i \in RunnerIds : record'[i].role = record[i].role
  <2>1. RoleOf' = RoleOf
    BY <1>4, SameRoles
  <2>2. CASE proc' = proc
    <3>1. LiveOf' = LiveOf
      BY <1>4, <2>2, SameLive
    <3> QED BY <1>4, <2>1, <3>1 DEF Registry!vars, RoleOf, LiveOf
  <2>3. ASSUME NEW p \in Procs, NEW s \in {"interrupted", "killed"},
               proc' = [proc EXCEPT ![p] = s] \/ proc' = proc
        PROVE  Registry!Next \/ UNCHANGED Registry!vars
    <3>1. CASE proc' = [proc EXCEPT ![p] = s] /\ proc[p] = "alive"
      <4>1. proc'[p] = s /\ \A q \in Procs \ {p} : proc'[q] = proc[q]
        BY <3>1 DEF RInv, IInv, TypeOK
      <4> QED BY <1>4, <2>1, <3>1, <4>1, LosesLive
    <3>2. CASE proc' = [proc EXCEPT ![p] = s] /\ proc[p] # "alive"
      <4>1. \A q \in Procs : proc'[q] = "alive" <=> proc[q] = "alive"
        BY <3>2 DEF RInv, IInv, TypeOK
      <4>2. LiveOf' = LiveOf
        BY <1>4, <4>1, SameLive
      <4> QED BY <1>4, <2>1, <4>2 DEF Registry!vars, RoleOf, LiveOf
    <3> QED BY <2>2, <2>3, <3>1, <3>2
  <2>4. CASE StopSignal(t)
    <3>1. record[Id(t)].cmd \in Procs
      BY <2>4, StepFrame DEF StopSignal, RInv, IInv, TypeOK, RunnerRecord, CallOK, Inside
    <3>2. PICK p \in Procs : p = record[Id(t)].cmd
      BY <3>1
    <3>3. proc' = [proc EXCEPT ![p] = "interrupted"] \/ proc' = proc
      BY <2>4, <3>2 DEF StopSignal, RInv, IInv, TypeOK
    <3> QED BY <2>3, <3>3
  <2>5. CASE StopExpired(t)
    <3>1. child[t] \in Procs
      BY <2>5 DEF StopExpired, RInv, IInv, CallOK, AtChild
    <3>2. PICK p \in Procs : p = child[t]
      BY <3>1
    <3>3. proc' = [proc EXCEPT ![p] = "killed"] \/ proc' = proc
      BY <2>5, <3>2 DEF StopExpired, RInv, IInv, TypeOK
    <3> QED BY <2>3, <3>3
  <2> QED BY <1>2, <2>2, <2>4, <2>5, ProcFrame, SpawnLaunches
<1> QED BY <1>1, <1>2, <1>3, <1>4, RecordFrame DEF RInv, IInv

LEMMA NextRefines ==
  ASSUME RInv, [Next]_vars
  PROVE  Registry!Next \/ UNCHANGED Registry!vars
<1>1. CASE \E i \in RunnerIds, r \in Roles, l \in BOOLEAN : CreateRunner(i, r, l)
  BY <1>1, CreateRegisters DEF Registry!Next
<1>2. CASE \E r \in Roles, i \in RunnerIds : RouteRunner(r, i)
  BY <1>2, RoutePins DEF Registry!Next
<1>3. CASE UNCHANGED <<runners, record, routes, proc, owner>>
  <2>1. RoleOf' = RoleOf /\ LiveOf' = LiveOf
    BY <1>3 DEF RoleOf, LiveOf
  <2> QED BY <1>3, <2>1 DEF Registry!vars, RoleOf, LiveOf
<1>4. CASE \/ \E t \in Threads, op \in CallOps, i \in RunnerIds,
                ctx \in {"none", "open"} : Begin(t, op, i, ctx)
           \/ \E t \in Threads : Cancel(t) \/ Lock(t)
           \/ UNCHANGED vars
  BY <1>3, <1>4 DEF Begin, Cancel, Lock, vars
<1>5. CASE \E t \in Threads : Step(t)
  BY <1>5, StepRefines
<1>6. ASSUME NEW p \in Procs, Exit(p)
      PROVE  Registry!Next \/ UNCHANGED Registry!vars
  <2>1. \A q \in Procs \ {p} : proc'[q] = proc[q]
    BY <1>6 DEF Exit, RInv, IInv, TypeOK
  <2>2. proc'[p] = "exited"
    BY <1>6 DEF Exit, RInv, IInv, TypeOK
  <2>3. RoleOf' = RoleOf
    BY <1>6 DEF Exit, RoleOf
  <2>4. CASE proc[p] = "alive"
    BY <1>6, <2>1, <2>2, <2>3, <2>4, LosesLive DEF Exit
  <2>5. CASE proc[p] # "alive"
    <3>1. LiveOf' = LiveOf
      BY <1>6, <2>1, <2>2, <2>5, SameLive DEF Exit
    <3> QED BY <1>6, <2>3, <3>1 DEF Exit, Registry!vars, RoleOf, LiveOf
  <2> QED BY <2>4, <2>5
<1>7. ASSUME NEW p \in Procs, wait(p) \/ SendDone(p)
      PROVE  UNCHANGED Registry!vars
  <2>1. /\ runners' = runners /\ routes' = routes /\ owner' = owner
        /\ \A i \in RunnerIds : record'[i].role = record[i].role
    BY <1>7, WaitFrame DEF SendDone, RInv, IInv
  <2>2. \A q \in Procs : proc'[q] = "alive" <=> proc[q] = "alive"
    BY <1>7 DEF wait, SendDone, RInv, IInv, TypeOK
  <2>3. RoleOf' = RoleOf /\ LiveOf' = LiveOf
    BY <2>1, <2>2, SameRoles, SameLive
  <2> QED BY <2>1, <2>3 DEF Registry!vars, RoleOf, LiveOf
<1> QED BY <1>1, <1>2, <1>4, <1>5, <1>6, <1>7 DEF Next

LEMMA InitRefines == Init => Registry!Init
<1> SUFFICES ASSUME Init PROVE Registry!Init
  OBVIOUS
<1>1. TypeOK
  BY InitType
<1>2. runners \subseteq RunnerIds /\ RoleOf \in [RunnerIds -> Roles \cup {None}]
  BY <1>1 DEF TypeOK, RoleOf, RunnerRecord
<1>3. routes \in [Roles -> runners \cup {None}]
  BY DEF Init
<1>4. \A r \in Roles : routes[r] # None => RoleOf[routes[r]] = r
  BY IdAssumption, NoneAssumption DEF Init, RoleOf, NewRecord
<1>5. LiveOf = [i \in RunnerIds |-> {}]
  BY DEF Init, LiveOf
<1> QED BY <1>2, <1>3, <1>4, <1>5 DEF Registry!Init, RoleOf, LiveOf

\* ImplementsRegistry: the supervisor does nothing that the registry does not
\* allow, for any runners, roles, processes, callers and operations.
THEOREM RegistryImplemented == Spec => ImplementsRegistry
<1>1. RInv /\ [Next]_vars => [Registry!Next]_(Registry!vars)
  BY NextRefines
<1>2. Spec => []RInv
  BY Invariance, StopInvariance, LiveInvariance, PTL DEF RInv
<1> QED BY InitRefines, <1>1, <1>2, PTL DEF Spec, ImplementsRegistry, Registry!Spec
=============================================================================
