----------------------------- MODULE Supervisor -----------------------------
(***************************************************************************)
(* The runner supervisor: internal/supervisor/supervisor.go, driven by the *)
(* controllers of cmd/g0litellama/main.go.                                 *)
(*                                                                         *)
(* A runner is a configured model server.  A launched runner owns a child  *)
(* process; an external one is only proxied.  Operations that start, stop, *)
(* update or close a runner serialise on opMu and may hold it for minutes  *)
(* (startup probe, waiting for a process to exit).  CreateRunner and       *)
(* RouteRunner take only the short mutex mu, and so does the goroutine     *)
(* wait() that each started process has.  One action below is one critical *)
(* section of mu; what happens between two of them may be interleaved.     *)
(*                                                                         *)
(* A record keeps the fields the control depends on.  PID is left out (it  *)
(* is set and cleared with cmd), and so are executable, model, host, port, *)
(* upstream (never empty) and the texts: whether a preflight check, the    *)
(* import, cmd.Start or a probe succeeds is a free choice.                 *)
(***************************************************************************)
EXTENDS FiniteSets

CONSTANTS RunnerIds,   \* ids a runner may have
          Roles,       \* main, embedding, reranking
          Procs,       \* child processes; their number bounds the starts
          Threads,     \* goroutines that call the supervisor
          DefaultId,   \* DefaultMainRunnerID
          DefaultRole, \* RoleMain
          Ops,         \* the operations callers may use
          None         \* nil

AllOps == {"create", "route", "update", "start", "stop", "restart", "close",
           "startDefault", "restartDefault"}

ASSUME IdAssumption   == DefaultId \in RunnerIds
ASSUME RoleAssumption == DefaultRole \in Roles
ASSUME OpsAssumption  == Ops \subseteq AllOps
ASSUME NoneAssumption == None \notin RunnerIds \cup Roles \cup Procs \cup Threads

VARIABLES
  runners, \* ids registered in Supervisor.runners
  record,  \* the runnerRecord of each id (Blank when not registered)
  routes,  \* Supervisor.routes: the runner a role is routed to
  proc,    \* each child process together with its wait() goroutine
  owner,   \* the runner id a process was started for
  opMu,    \* the holder of Supervisor.opMu
  pc,      \* where each caller is
  call,    \* the operation it runs
  child,   \* the process a caller holds in its locals cmd and done
  result   \* what the operation is about to return

vars == <<runners, record, routes, proc, owner, opMu, pc, call, child, result>>

-----------------------------------------------------------------------------
(* Types *)

States == {"created", "external", "starting", "running", "stopped", "exited",
           "unavailable"}

RunnerRecord == [role: Roles \cup {None}, launch: BOOLEAN, state: States,
                 cmd: Procs \cup {None}, stopped: BOOLEAN]

\* exited: the OS process is gone, cmd.Wait has yet to return.  reaped: wait()
\* has left its critical section.  done: the exit is in the done channel.
ProcStates == {"unused", "alive", "interrupted", "killed", "exited", "reaped",
               "done"}
Present    == {"alive", "interrupted", "killed"}
Unreaped   == Present \cup {"exited"}

\* ctx: "none" can never be cancelled, "open" still may be, "done" has been.
Call == [op: Ops \cup {None}, id: RunnerIds \cup {None},
         ctx: {"none", "open", "done"}]

\* The steps of an operation that holds opMu.
Inside == {"enter", "stopWait", "stopped", "preflight", "spawn", "ready",
           "failing", "failStop", "failStopWait", "markUnavailable", "serving",
           "unlock"}

initialState(launch) == IF launch THEN "created" ELSE "external"

NewRecord(r, l) == [role |-> r, launch |-> l, state |-> initialState(l),
                    cmd |-> None, stopped |-> FALSE]
Blank  == [role |-> None, launch |-> FALSE, state |-> "created",
           cmd |-> None, stopped |-> FALSE]
NoCall == [op |-> None, id |-> None, ctx |-> "none"]

Active(rec) == rec.state \in {"running", "starting"}

\* The runner an operation works on.
Id(t) == call[t].id
Rec(t) == record[Id(t)]
Found(t) == Id(t) \in runners

Init ==
  /\ runners \in {{}, {DefaultId}}
  /\ \E l \in BOOLEAN :
       record = [i \in RunnerIds |->
                   IF i \in runners THEN NewRecord(DefaultRole, l) ELSE Blank]
  /\ routes = [r \in Roles |->
                 IF r = DefaultRole /\ DefaultId \in runners THEN DefaultId ELSE None]
  /\ proc = [p \in Procs |-> "unused"]
  /\ owner = [p \in Procs |-> None]
  /\ opMu = None
  /\ pc = [t \in Threads |-> "idle"]
  /\ call = [t \in Threads |-> NoCall]
  /\ child = [t \in Threads |-> None]
  /\ result = [t \in Threads |-> "none"]

-----------------------------------------------------------------------------
(* Operations that take only mu *)

CreateRunner(i, r, l) ==
  /\ "create" \in Ops
  /\ i \notin runners
  /\ runners' = runners \cup {i}
  /\ record' = [record EXCEPT ![i] = NewRecord(r, l)]
  /\ routes' = [routes EXCEPT ![r] = i]
  /\ UNCHANGED <<proc, owner, opMu, pc, call, child, result>>

RouteRunner(r, i) ==
  /\ "route" \in Ops
  /\ i \in runners
  /\ record[i].role = r
  /\ routes' = [routes EXCEPT ![r] = i]
  /\ UNCHANGED <<runners, record, proc, owner, opMu, pc, call, child, result>>

-----------------------------------------------------------------------------
(* Calls.  The controllers look the runner up before they call, except for *)
(* the operations on the default runner.  They detach starts from the      *)
(* request context (WithoutCancel); main starts the default runner with    *)
(* its signal context; stops and closes run under the request context or,  *)
(* on shutdown, under a deadline.                                          *)

DefaultOps == {"startDefault", "restartDefault"}
StopOps    == {"stop", "restart", "close", "restartDefault"}
CallOps    == {"update", "start"} \cup StopOps \cup DefaultOps

Contexts(op, i) ==
  CASE op \in {"stop", "close"}          -> {"open"}
    [] op = "start" /\ i = DefaultId     -> {"none", "open"}
    [] OTHER                             -> {"none"}

Begin(t, op, i, ctx) ==
  /\ pc[t] = "idle"
  /\ op \in CallOps \cap Ops
  /\ IF op \in DefaultOps THEN i = DefaultId ELSE i \in runners
  /\ ctx \in Contexts(op, i)
  /\ call' = [call EXCEPT ![t] = [op |-> op, id |-> i, ctx |-> ctx]]
  /\ pc' = [pc EXCEPT ![t] = "lock"]
  /\ UNCHANGED <<runners, record, routes, proc, owner, opMu, child, result>>

\* The client disconnects, or the deadline of a shutdown passes.
Cancel(t) ==
  /\ pc[t] # "idle"
  /\ call[t].ctx = "open"
  /\ call' = [call EXCEPT ![t].ctx = "done"]
  /\ UNCHANGED <<runners, record, routes, proc, owner, opMu, pc, child, result>>

Lock(t) ==
  /\ pc[t] = "lock"
  /\ opMu = None
  /\ opMu' = t
  /\ pc' = [pc EXCEPT ![t] = "enter"]
  /\ UNCHANGED <<runners, record, routes, proc, owner, call, child, result>>

Unlock(t) ==
  /\ pc[t] = "unlock"
  /\ opMu' = None
  /\ pc' = [pc EXCEPT ![t] = "idle"]
  /\ call' = [call EXCEPT ![t] = NoCall]
  /\ child' = [child EXCEPT ![t] = None]
  /\ result' = [result EXCEPT ![t] = "none"]
  /\ UNCHANGED <<runners, record, routes, proc, owner>>

\* The operation is over and returns nil or an error.
Return(t, res) ==
  /\ pc' = [pc EXCEPT ![t] = "unlock"]
  /\ result' = [result EXCEPT ![t] = res]

Goto(t, l) ==
  /\ pc' = [pc EXCEPT ![t] = l]
  /\ UNCHANGED result

SetState(i, s) == record' = [record EXCEPT ![i].state = s]

\* Mutant: the early return comes before the deferred unlock.
NotFoundKeepsLock(t) ==
  /\ pc[t] = "enter"
  /\ ~Found(t)
  /\ pc' = [pc EXCEPT ![t] = "idle"]
  /\ call' = [call EXCEPT ![t] = NoCall]
  /\ UNCHANGED <<runners, record, routes, proc, owner, opMu, child, result>>

\* recordForUpdate returns "not found".
NotFound(t) ==
  /\ pc[t] = "enter"
  /\ ~Found(t)
  /\ Return(t, "err")
  /\ UNCHANGED <<runners, record, routes, proc, owner, opMu, call, child>>

-----------------------------------------------------------------------------
(* UpdateRunner *)

\* Mutant: only a runner that is starting is protected.
CannotUpdateStarting(rec) == rec.state = "starting"

CannotUpdate(rec) == rec.cmd # None \/ Active(rec)

\* The runner is busy, or the patched spec is not valid.
UpdateRejected(t) ==
  /\ pc[t] = "enter" /\ call[t].op = "update" /\ Found(t)
  /\ Return(t, "err")
  /\ UNCHANGED <<runners, record, routes, proc, owner, opMu, call, child>>

\* Mutant: the route of the old role is not deleted.
UpdateRoutesKept(i, old, new) == [routes EXCEPT ![new] = i]

\* The route of the old role is deleted whichever runner it leads to.
UpdateRoutes(i, old, new) ==
  [r \in Roles |-> IF r = new THEN i
                   ELSE IF r = old THEN None
                   ELSE routes[r]]

\* One critical section of mu, from the lookup to the routes.
UpdateRunner(t, r, l) ==
  /\ pc[t] = "enter" /\ call[t].op = "update" /\ Found(t)
  /\ ~CannotUpdate(Rec(t))
  /\ record' = [record EXCEPT ![Id(t)].role = r,
                              ![Id(t)].launch = l,
                              ![Id(t)].state = initialState(l)]
  /\ routes' = UpdateRoutes(Id(t), Rec(t).role, r)
  /\ Return(t, "ok")
  /\ UNCHANGED <<runners, proc, owner, opMu, call, child>>

-----------------------------------------------------------------------------
(* startRecord *)

BecomeExternal(t) ==
  /\ SetState(Id(t), "external")
  /\ Return(t, "ok")

StartRunner(t) ==
  /\ pc[t] = "enter" /\ call[t].op = "start" /\ Found(t)
  /\ \/ /\ Rec(t).state = "running"
        /\ Return(t, "ok")
        /\ UNCHANGED record
     \/ /\ Rec(t).state # "running" /\ ~Rec(t).launch
        /\ BecomeExternal(t)
     \/ /\ Rec(t).state # "running" /\ Rec(t).launch
        /\ Goto(t, "preflight")
        /\ UNCHANGED record
  /\ UNCHANGED <<runners, routes, proc, owner, opMu, call, child>>

\* applyDefaultLiteRTPatch, then external or startRecord: two critical sections
\* of mu in one step, because the second writes what it writes whatever wait,
\* CreateRunner or RouteRunner do between them.  StartDefaultLiteRT looks at
\* neither the state nor cmd of the default runner.
ApplyPatchAndStart(t, l) ==
  /\ \/ pc[t] = "enter" /\ call[t].op = "startDefault" /\ Found(t)
     \/ pc[t] = "stopped" /\ call[t].op = "restartDefault"
  /\ \/ /\ l
        /\ record' = [record EXCEPT ![Id(t)].launch = TRUE]
        /\ Goto(t, "preflight")
     \/ /\ ~l
        /\ record' = [record EXCEPT ![Id(t)].launch = FALSE,
                                    ![Id(t)].state = "external"]
        /\ Return(t, "ok")
  /\ UNCHANGED <<runners, routes, proc, owner, opMu, call, child>>

\* The patch has an unknown mode or a negative port.
PatchRejected(t) ==
  /\ \/ pc[t] = "enter" /\ call[t].op = "startDefault" /\ Found(t)
     \/ pc[t] = "stopped" /\ call[t].op = "restartDefault"
  /\ Return(t, "err")
  /\ UNCHANGED <<runners, record, routes, proc, owner, opMu, call, child>>

\* Mutant: the failure is returned but not recorded.
markUnavailableForgotten(t) ==
  /\ UNCHANGED record
  /\ Return(t, "err")

markUnavailable(t) ==
  /\ SetState(Id(t), "unavailable")
  /\ Return(t, "err")

\* No executable or no usable model; or the runner is set to starting.
Preflight(t) ==
  /\ pc[t] = "preflight"
  /\ \/ markUnavailable(t)
     \/ SetState(Id(t), "starting") /\ Goto(t, "spawn")
  /\ UNCHANGED <<runners, routes, proc, owner, opMu, call, child>>

\* The model import, the command or cmd.Start fails.
SpawnFailed(t) ==
  /\ pc[t] = "spawn"
  /\ markUnavailable(t)
  /\ UNCHANGED <<runners, routes, proc, owner, opMu, call, child>>

\* Mutant: the mark of the previous stop stays.
StartedKeepsMark(rec, p) == [rec EXCEPT !.cmd = p, !.state = "starting"]

\* The record of a runner whose process p has just been started.
Started(rec, p) == [rec EXCEPT !.cmd = p, !.stopped = FALSE, !.state = "starting"]

\* cmd.Start succeeds, the record tracks the process, go wait().
Spawn(t, p) ==
  /\ pc[t] = "spawn"
  /\ proc[p] = "unused"
  /\ proc' = [proc EXCEPT ![p] = "alive"]
  /\ owner' = [owner EXCEPT ![p] = Id(t)]
  /\ record' = [record EXCEPT ![Id(t)] = Started(@, p)]
  /\ child' = [child EXCEPT ![t] = p]
  /\ Goto(t, "ready")
  /\ UNCHANGED <<runners, routes, opMu, call>>

\* waitForRunnerReady: the process exited before serving, a probe succeeded,
\* or the startup timeout (or the caller's context) ended the wait.
WaitForRunnerReady(t) ==
  /\ pc[t] = "ready"
  /\ \/ proc[child[t]] = "done" /\ Return(t, "err")
     \/ proc[child[t]] # "done" /\ Goto(t, "serving")
     \/ Goto(t, "failing")
  /\ UNCHANGED <<runners, record, routes, proc, owner, opMu, call, child>>

\* The state is written whatever wait() may have written meanwhile.
Serving(t) ==
  /\ pc[t] = "serving"
  /\ SetState(Id(t), "running")
  /\ Return(t, "ok")
  /\ UNCHANGED <<runners, routes, proc, owner, opMu, call, child>>

HandleStartupFailure(t) ==
  /\ pc[t] = "failing"
  /\ \/ proc[child[t]] = "done" /\ Return(t, "err")
     \/ proc[child[t]] # "done" /\ Goto(t, "failStop")
  /\ UNCHANGED <<runners, record, routes, proc, owner, opMu, call, child>>

MarkUnavailable(t) ==
  /\ pc[t] = "markUnavailable"
  /\ markUnavailable(t)
  /\ UNCHANGED <<runners, routes, proc, owner, opMu, call, child>>

-----------------------------------------------------------------------------
(* stopRecord, called by the stop operations and by handleStartupFailure *)

AtStop(t) == \/ pc[t] = "enter" /\ call[t].op \in StopOps /\ Found(t)
             \/ pc[t] = "failStop"

AfterStop(t) == IF pc[t] \in {"failStop", "failStopWait"}
                THEN "markUnavailable" ELSE "stopped"

\* Nothing to signal: no process, or an earlier stop already signalled it.
StopNothing(t) ==
  /\ AtStop(t)
  /\ Rec(t).cmd = None \/ Rec(t).stopped
  /\ record' = [record EXCEPT ![Id(t)].state =
                  IF Active(Rec(t)) THEN "stopped" ELSE @]
  /\ Goto(t, AfterStop(t))
  /\ UNCHANGED <<runners, routes, proc, owner, opMu, call, child>>

StopSignal(t) ==
  /\ AtStop(t)
  /\ Rec(t).cmd # None /\ ~Rec(t).stopped
  /\ record' = [record EXCEPT ![Id(t)].stopped = TRUE]
  /\ proc' = [proc EXCEPT ![Rec(t).cmd] = IF @ = "alive" THEN "interrupted" ELSE @]
  /\ child' = [child EXCEPT ![t] = Rec(t).cmd]
  /\ Goto(t, IF pc[t] = "failStop" THEN "failStopWait" ELSE "stopWait")
  /\ UNCHANGED <<runners, routes, owner, opMu, call>>

StopDone(t) ==
  /\ pc[t] \in {"stopWait", "failStopWait"}
  /\ proc[child[t]] = "done"
  /\ Goto(t, AfterStop(t))
  /\ UNCHANGED <<runners, record, routes, proc, owner, opMu, call, child>>

\* The context ended first (the 5 s timeout of handleStartupFailure always
\* can): the process is killed and the record keeps cmd until wait() runs.
StopExpired(t) ==
  /\ \/ pc[t] = "stopWait" /\ call[t].ctx = "done" /\ Return(t, "err")
     \/ pc[t] = "failStopWait" /\ Goto(t, "markUnavailable")
  /\ proc' = [proc EXCEPT ![child[t]] = IF @ \in Present THEN "killed" ELSE @]
  /\ UNCHANGED <<runners, record, routes, owner, opMu, call, child>>

\* StopRunner and RestartRunner once stopRecord has returned nil.
Stopped(t) ==
  /\ pc[t] = "stopped"
  /\ \/ call[t].op = "stop" /\ Return(t, "ok") /\ UNCHANGED record
     \/ call[t].op = "restart" /\ ~Rec(t).launch /\ BecomeExternal(t)
     \/ call[t].op = "restart" /\ Rec(t).launch
          /\ Goto(t, "preflight") /\ UNCHANGED record
  /\ UNCHANGED <<runners, routes, proc, owner, opMu, call, child>>

\* The last critical section of CloseRunner.
CloseRunner(t) ==
  /\ pc[t] = "stopped" /\ call[t].op = "close"
  /\ runners' = runners \ {Id(t)}
  /\ record' = [record EXCEPT ![Id(t)] = Blank]
  /\ routes' = [routes EXCEPT ![Rec(t).role] = IF @ = Id(t) THEN None ELSE @]
  /\ Return(t, "ok")
  /\ UNCHANGED <<proc, owner, opMu, call, child>>

-----------------------------------------------------------------------------
(* Processes and wait() *)

Exit(p) ==
  /\ proc[p] \in Present
  /\ proc' = [proc EXCEPT ![p] = "exited"]
  /\ UNCHANGED <<runners, record, routes, owner, opMu, pc, call, child, result>>

\* Mutant: whichever process the runner has now is taken for p.
TracksAny(i, p) == i = owner[p] /\ i \in runners

Tracks(i, p) == i = owner[p] /\ i \in runners /\ record[i].cmd = p

\* Mutant: the process stays in the record.
ExitedKeepsCmd(rec) ==
  [rec EXCEPT !.state = IF rec.stopped THEN "stopped" ELSE "exited"]

\* The record of a runner whose process is gone.
Exited(rec) ==
  [rec EXCEPT !.cmd = None, !.state = IF rec.stopped THEN "stopped" ELSE "exited"]

\* The critical section of wait(): the record is touched only when it still
\* tracks this process.
wait(p) ==
  /\ proc[p] = "exited"
  /\ proc' = [proc EXCEPT ![p] = "reaped"]
  /\ record' = [i \in RunnerIds |->
                  IF Tracks(i, p) THEN Exited(record[i]) ELSE record[i]]
  /\ UNCHANGED <<runners, routes, owner, opMu, pc, call, child, result>>

\* The deferred send to the done channel.
SendDone(p) ==
  /\ proc[p] = "reaped"
  /\ proc' = [proc EXCEPT ![p] = "done"]
  /\ UNCHANGED <<runners, record, routes, owner, opMu, pc, call, child, result>>

-----------------------------------------------------------------------------
Step(t) ==
  \/ NotFound(t)
  \/ UpdateRejected(t)
  \/ \E r \in Roles, l \in BOOLEAN : UpdateRunner(t, r, l)
  \/ StartRunner(t)
  \/ \E l \in BOOLEAN : ApplyPatchAndStart(t, l)
  \/ PatchRejected(t)
  \/ Preflight(t)
  \/ SpawnFailed(t)
  \/ \E p \in Procs : Spawn(t, p)
  \/ WaitForRunnerReady(t)
  \/ Serving(t)
  \/ HandleStartupFailure(t)
  \/ MarkUnavailable(t)
  \/ StopNothing(t)
  \/ StopSignal(t)
  \/ StopDone(t)
  \/ StopExpired(t)
  \/ Stopped(t)
  \/ CloseRunner(t)
  \/ Unlock(t)

Next ==
  \/ \E i \in RunnerIds, r \in Roles, l \in BOOLEAN : CreateRunner(i, r, l)
  \/ \E r \in Roles, i \in RunnerIds : RouteRunner(r, i)
  \/ \E t \in Threads, op \in CallOps, i \in RunnerIds,
        ctx \in {"none", "open"} : Begin(t, op, i, ctx)
  \/ \E t \in Threads : Cancel(t) \/ Lock(t) \/ Step(t)
  \/ \E p \in Procs : Exit(p) \/ wait(p) \/ SendDone(p)

Spec == Init /\ [][Next]_vars

-----------------------------------------------------------------------------
(* Fairness.  A goroutine that can take its next step takes it: every wait *)
(* of an operation is bounded by a timer or ends with the process.  opMu   *)
(* is a sync.Mutex, whose starvation mode serves every waiter.  A process  *)
(* that was interrupted or killed exits; one that is merely alive need not.*)

Fairness ==
  /\ \A t \in Threads : WF_vars(Step(t)) /\ SF_vars(Lock(t))
  /\ \A p \in Procs :
       /\ WF_vars(proc[p] # "alive" /\ Exit(p))
       /\ WF_vars(wait(p))
       /\ WF_vars(SendDone(p))

FairSpec == Spec /\ Fairness

-----------------------------------------------------------------------------
(* Properties *)

\* Every variable has the values the Go types allow.
TypeOK ==
  /\ runners \subseteq RunnerIds
  /\ record \in [RunnerIds -> RunnerRecord]
  /\ routes \in [Roles -> RunnerIds \cup {None}]
  /\ proc \in [Procs -> ProcStates]
  /\ owner \in [Procs -> RunnerIds \cup {None}]
  /\ opMu \in Threads \cup {None}
  /\ pc \in [Threads -> Inside \cup {"idle", "lock"}]
  /\ call \in [Threads -> Call]
  /\ child \in [Threads -> Procs \cup {None}]
  /\ result \in [Threads -> {"none", "ok", "err"}]

\* A role is only ever routed to a registered runner of that role, although
\* runners are created and routed while others are updated and closed.
\* Otherwise UpstreamForPath would send embeddings to a chat model.
RouteValid ==
  \A r \in Roles :
    routes[r] # None => routes[r] \in runners /\ record[routes[r]].role = r

\* A record tracks only a process of its own that wait() has not handled yet:
\* a stop never waits on the done channel of a process that is already gone.
TrackedIsUnreaped ==
  \A i \in RunnerIds :
    record[i].cmd # None =>
      /\ i \in runners
      /\ owner[record[i].cmd] = i
      /\ proc[record[i].cmd] \in Unreaped

\* The runners that runtime.start never starts.
Spared == {i \in RunnerIds : "startDefault" \in Ops => i # DefaultId}

\* A process that was not killed is still tracked by the record of its runner,
\* so that a stop or close can reach it; runtime.start may lose processes of
\* the default runner, and of no other.
LiveIsTracked ==
  \A p \in Procs :
    proc[p] \in {"alive", "interrupted"} =>
      /\ owner[p] \in RunnerIds
      /\ owner[p] \in Spared => record[owner[p]].cmd = p

\* When a stop returns nil the runner is neither running nor starting, and a
\* process it still tracks (an earlier stop timed out) has been killed.
StopReturnsClean ==
  \A t \in Threads :
    pc[t] = "unlock" /\ call[t].op = "stop" /\ result[t] = "ok" =>
      /\ ~Active(Rec(t))
      /\ Rec(t).cmd # None => proc[Rec(t).cmd] \in {"killed", "exited"}

\* Every operation returns: none waits forever for opMu, for a process or for
\* a probe.
EveryCallReturns == \A t \in Threads : pc[t] # "idle" ~> pc[t] = "idle"

\* No runner is left in "starting": whichever of the probe, the exit and the
\* timeout comes first, the state moves on.
StartingResolves ==
  \A i \in RunnerIds : record[i].state = "starting" ~> record[i].state # "starting"

\* supervisor_test.go wants "no route for exited runner": a launched runner
\* that requests are routed to has a process that wait() has not reaped.
NoRouteForExitedRunner ==
  \A r \in Roles :
    routes[r] # None /\ record[routes[r]].launch /\ record[routes[r]].state = "running"
      => record[routes[r]].cmd # None

\* TestSupervisorSerializesConcurrentStarts wants one serve process however
\* often the default runner is started.
OneProcessPerRunner ==
  \A p, q \in Procs :
    proc[p] = "alive" /\ proc[q] = "alive" /\ owner[p] = owner[q] => p = q

\* API.md: routing a runner pins it to its role.  Updating another runner does
\* not leave the role without a route.
PinnedRouteKept ==
  [][\A r \in Roles, t \in Threads :
       /\ routes[r] # None /\ routes'[r] = None
       /\ pc[t] = "enter" /\ pc'[t] = "unlock" /\ call[t].op = "update"
       => routes[r] = Id(t)]_vars

\* The supervisor implements the registry: the serving processes of a runner
\* are those started for it that were neither signalled nor have exited.
Registry == INSTANCE RunnerRegistry WITH
  Exclusive <- Spared,
  role <- [i \in RunnerIds |-> record[i].role],
  live <- [i \in RunnerIds |-> {p \in Procs : owner[p] = i /\ proc[p] = "alive"}]

\* No runner that runtime.start does not start has two serving processes, is
\* closed or given another role while its process serves, and no process serves
\* two runners; the routes of all runners change only as the registry allows.
ImplementsRegistry == Registry!Spec
=============================================================================
