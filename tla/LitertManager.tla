---------------------------- MODULE LitertManager ----------------------------
(***************************************************************************)
(* The manager of a single litert server (internal/litert/litert.go): it   *)
(* starts, restarts and stops one process.  opMu serializes these; a patch *)
(* of the configuration, the goroutine that waits for a process and the    *)
(* context of a call come between their steps.                             *)
(*                                                                         *)
(* A context lives as long as the call or is ended by its caller, also     *)
(* after the call: it then kills the process that the call has started.    *)
(***************************************************************************)
EXTENDS Naturals

CONSTANTS Ports,    \* ports of the configuration
          MaxProcs, \* bound on the processes started
          MaxCalls  \* bound on the calls and the patches

ASSUME LitertAssumption == MaxProcs \in Nat /\ MaxCalls \in Nat /\ Ports # {}

VARIABLES
  config,   \* Manager.config: whether it launches, and the port
  manager,  \* Manager.cmd (0 for nil), stopped and status
  proc,     \* the processes and their waiting goroutines
  op,       \* the call that holds opMu
  detached, \* processes that the status was turned away from
  calls     \* number of calls and patches

litertVars == <<config, manager, proc, op, detached, calls>>

Procs  == 1 .. MaxProcs

Config  == [launch : BOOLEAN, port : Ports]
Patch   == [launch : {"keep", "on", "off"}, port : Ports, valid : BOOLEAN]

Idle == [pc |-> "idle"]
AnyPort == CHOOSE p \in Ports : TRUE

LitertInit ==
  /\ config \in Config
  /\ manager = [cmd |-> 0, stopped |-> FALSE, port |-> config.port,
                state |-> IF config.launch THEN "created" ELSE "external"]
  /\ proc = [p \in Procs |-> [up |-> "unborn", killed |-> FALSE, ctx |-> "live",
                              port |-> AnyPort, told |-> FALSE]]
  /\ op = Idle /\ detached = {} /\ calls = 0

-----------------------------------------------------------------------------
(* ApplyConfigPatch *)

\* A negative port is refused after Launch has been set.
PatchedConfig(c, patch) ==
  [launch |-> CASE patch.launch = "keep" -> c.launch
                [] patch.launch = "on"   -> TRUE
                [] patch.launch = "off"  -> FALSE,
   port |-> IF patch.valid THEN patch.port ELSE c.port]

\* refreshConfiguredStatusLocked. Mutant: also of a running process.
XRefreshedStatus(m, c) == [m EXCEPT !.port = c.port]

RefreshedStatus(m, c) ==
  IF m.state \in {"running", "starting"} THEN m ELSE [m EXCEPT !.port = c.port]

ApplyConfigPatch(patch) ==
  /\ config' = PatchedConfig(config, patch)
  /\ manager' = IF patch.valid THEN RefreshedStatus(manager, config') ELSE manager

\* Any goroutine may patch the configuration.
PatchAlone(patch) == /\ calls < MaxCalls
                     /\ calls' = calls + 1
                     /\ ApplyConfigPatch(patch)
                     /\ UNCHANGED <<proc, op, detached>>

-----------------------------------------------------------------------------
(* The calls *)

Call(kind, patch) ==
  /\ op = Idle /\ calls < MaxCalls
  /\ calls' = calls + 1
  /\ op' = [pc |-> IF kind = "start" THEN "patch" ELSE "stop", kind |-> kind,
            ctx |-> "live", patch |-> patch]
  /\ UNCHANGED <<config, manager, proc, detached>>

\* StartModeWithConfig and the second half of RestartWithConfig, which return
\* the error of the patch.
PatchStep ==
  /\ op.pc = "patch"
  /\ ApplyConfigPatch(op.patch)
  /\ op' = IF op.patch.valid THEN [op EXCEPT !.pc = "start"] ELSE Idle
  /\ UNCHANGED <<proc, detached, calls>>

IsRunning == manager.cmd # 0 /\ ~ manager.stopped /\ manager.state = "running"

\* start of an external server: a process that runs is left to itself.  The
\* configuration is read and the status written in one step; a patch between
\* the two is left out.
StartExternal ==
  /\ op.pc = "start" /\ ~ config.launch
  /\ manager' = [manager EXCEPT !.state = "external", !.port = config.port]
  /\ detached' = detached \cup (IF manager.state = "running" THEN {manager.cmd} ELSE {})
  /\ op' = Idle
  /\ UNCHANGED <<config, proc, calls>>

AlreadyRunning == /\ op.pc = "start" /\ config.launch
                  /\ IsRunning
                  /\ op' = Idle
                  /\ UNCHANGED <<config, manager, proc, detached, calls>>

\* The executable is found or not. The configuration is the one that start has read.
Prepare(found) ==
  /\ op.pc = "start" /\ config.launch /\ ~ IsRunning
  /\ manager' = [manager EXCEPT !.state = IF found THEN "starting" ELSE "unavailable",
                                !.port = config.port]
  /\ op' = IF found THEN [pc |-> "spawn", ctx |-> op.ctx, port |-> config.port] ELSE Idle
  /\ UNCHANGED <<config, proc, detached, calls>>

\* The import of the model or the process fails.
SpawnFails ==
  /\ op.pc = "spawn"
  /\ manager' = [manager EXCEPT !.state = "unavailable", !.port = op.port]
  /\ op' = Idle
  /\ UNCHANGED <<config, proc, detached, calls>>

\* A context that has ended starts no process.
Spawn(p) ==
  /\ op.pc = "spawn" /\ op.ctx = "live"
  /\ proc[p].up = "unborn" /\ \A q \in Procs : proc[q].up = "unborn" => q >= p
  /\ proc' = [proc EXCEPT ![p] = [@ EXCEPT !.up = "live", !.port = op.port]]
  /\ manager' = [cmd |-> p, stopped |-> FALSE, state |-> "running", port |-> op.port]
  /\ op' = Idle
  /\ UNCHANGED <<config, detached, calls>>

AfterStop(o) == IF o.kind = "restart" THEN [o EXCEPT !.pc = "patch"] ELSE Idle

StopNothing ==
  /\ op.pc = "stop" /\ (manager.cmd = 0 \/ manager.stopped)
  /\ op' = AfterStop(op)
  /\ UNCHANGED <<config, manager, proc, detached, calls>>

Interrupt ==
  /\ op.pc = "stop" /\ manager.cmd # 0 /\ ~ manager.stopped
  /\ manager' = [manager EXCEPT !.stopped = TRUE]
  /\ op' = [pc |-> "wait", kind |-> op.kind, ctx |-> op.ctx, patch |-> op.patch,
            proc |-> manager.cmd]
  /\ UNCHANGED <<config, proc, detached, calls>>

\* The process has been waited for, or the context of the call ends first.
StopDone ==
  /\ op.pc = "wait" /\ proc[op.proc].told
  /\ op' = AfterStop([kind |-> op.kind, ctx |-> op.ctx, patch |-> op.patch, pc |-> "stop"])
  /\ UNCHANGED <<config, manager, proc, detached, calls>>

\* Mutant: the process is not killed.
XStopTimeout ==
  /\ op.pc = "wait" /\ op.ctx # "live"
  /\ op' = Idle
  /\ UNCHANGED <<config, manager, proc, detached, calls>>

StopTimeout ==
  /\ op.pc = "wait" /\ op.ctx # "live"
  /\ proc' = [proc EXCEPT ![op.proc].killed = TRUE]
  /\ op' = Idle
  /\ UNCHANGED <<config, manager, detached, calls>>

-----------------------------------------------------------------------------
(* Contexts, processes and the goroutine of each *)

EndContext(how) ==
  /\ op # Idle /\ op.ctx = "live"
  /\ op' = [op EXCEPT !.ctx = how]
  /\ UNCHANGED <<config, manager, proc, detached, calls>>

\* The context that a process was started with.
EndProcessContext(p, how) ==
  /\ proc[p].up = "live" /\ proc[p].ctx = "live"
  /\ proc' = [proc EXCEPT ![p].ctx = how, ![p].killed = TRUE]
  /\ UNCHANGED <<config, manager, op, detached, calls>>

Exit(p) == /\ proc[p].up = "live"
           /\ proc' = [proc EXCEPT ![p].up = "dead"]
           /\ UNCHANGED <<config, manager, op, detached, calls>>

\* wait: the manager forgets the process, unless it has another one by now.
Wait(p) ==
  /\ proc[p].up = "dead"
  /\ proc' = [proc EXCEPT ![p].up = "reaped"]
  /\ manager' =
       IF manager.cmd # p THEN manager
       ELSE [manager EXCEPT !.cmd = 0,
                            !.state = IF manager.stopped \/ proc[p].ctx = "canceled"
                                      THEN "stopped" ELSE "exited"]
  /\ UNCHANGED <<config, op, detached, calls>>

\* done <- err.
Tell(p) == /\ proc[p].up = "reaped" /\ ~ proc[p].told
           /\ proc' = [proc EXCEPT ![p].told = TRUE]
           /\ UNCHANGED <<config, manager, op, detached, calls>>

LitertNext ==
  \/ \E patch \in Patch : \/ PatchAlone(patch)
                          \/ \E kind \in {"start", "restart"} : Call(kind, patch)
  \/ Call("stop", [launch |-> "keep", port |-> AnyPort, valid |-> TRUE])
  \/ PatchStep \/ StartExternal \/ AlreadyRunning \/ SpawnFails
  \/ StopNothing \/ Interrupt \/ StopDone \/ StopTimeout
  \/ \E found \in BOOLEAN : Prepare(found)
  \/ \E how \in {"canceled", "expired"} :
       EndContext(how) \/ \E p \in Procs : EndProcessContext(p, how)
  \/ \E p \in Procs : Spawn(p) \/ Exit(p) \/ Wait(p) \/ Tell(p)

LitertSpec == LitertInit /\ [][LitertNext]_litertVars

-----------------------------------------------------------------------------
(* Properties *)

Serving == {p \in Procs : proc[p].up = "live" /\ ~ proc[p].killed}

\* At most one process serves, after restarts, stops that ran out of time and
\* exits that are noticed late, apart from those that a patch of Launch has
\* detached; and none that the manager has forgotten.
OneProcess == \A p \in Serving \ detached : p = manager.cmd

\* The address in the status of a running process is the one it was started
\* with, although the configuration is patched meanwhile.
AddressTrue == manager.state = "running" => manager.port = proc[manager.cmd].port
=============================================================================
