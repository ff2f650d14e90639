----------------------------- MODULE HostProofs -----------------------------
(***************************************************************************)
(* Proofs about parts of a host of runners: the downloads of the model     *)
(* catalog, the manager of a single litert server, the file of working     *)
(* backends with the choice that a UI makes from it, and the runners that  *)
(* the Launch Wizard creates.                                              *)
(***************************************************************************)
EXTENDS Downloads, LitertManager, Backends, Wizard, SelectionProofs, FiniteSetTheorems

-----------------------------------------------------------------------------
(* The model catalog *)

\* What is at a target path is complete unless two downloads of the model
\* used its .part file together, for any number of models, downloads, chunks
\* and restarts; and an entry that says "downloading" has a download.

\* Only a worker in the copy has a file open, the file it has open is there,
\* and a worker that is not idle has a model.
WorkerOK ==
  \A w \in Workers :
    /\ step[w] # "idle" => model[w] \in Models
    /\ step[w] # "copy" => fd[w] = "none"
    /\ fd[w] = "part" => part[model[w]] # None
    /\ fd[w] = "target" => target[model[w]] # None

Using(w) == fd[w] = "part" \/ step[w] = "rename"

\* Two workers that use the .part file of one model have made it shared.
UsersShare ==
  \A v, w \in Workers :
    v # w /\ model[v] = model[w] /\ Using(v) /\ Using(w) => model[w] \in shared

\* The .part file of a model that is not shared holds what its only user has
\* written.
PartIsWritten ==
  \A w \in Workers :
    model[w] \in Models \ shared =>
      /\ step[w] = "copy" => fd[w] = "part" /\ part[model[w]] = 1 .. written[w]
      /\ step[w] = "rename" => part[model[w]] = All

IInv == /\ TypeOK /\ WorkerOK /\ UsersShare /\ PartIsWritten
        /\ AloneIsComplete /\ DownloadingIsActive

LEMMA InitIInv == Init => IInv
<1> SUFFICES ASSUME Init PROVE IInv
  OBVIOUS
<1> USE ChunksAssumption, NoneAssumption DEF Init, Opened
<1>1. TypeOK
  BY DEF TypeOK, States, Steps, Names, File, All
<1>2. WorkerOK /\ UsersShare /\ PartIsWritten
  BY DEF WorkerOK, UsersShare, Using, PartIsWritten
<1>3. AloneIsComplete /\ DownloadingIsActive
  BY DEF AloneIsComplete, DownloadingIsActive
<1> QED
  BY <1>1, <1>2, <1>3 DEF IInv

-----------------------------------------------------------------------------
LEMMA EntriesStep == IInv /\ Entries => IInv'
<1> SUFFICES ASSUME IInv, Entries PROVE IInv'
  OBVIOUS
<1> USE DEF IInv, Entries
<1>1. TypeOK'
  BY DEF TypeOK, Refreshed, States
<1>2. WorkerOK' /\ UsersShare' /\ PartIsWritten' /\ AloneIsComplete'
  BY DEF WorkerOK, UsersShare, Using, PartIsWritten, AloneIsComplete
<1>3. DownloadingIsActive'
  BY DEF DownloadingIsActive, Refreshed, TypeOK
<1> QED
  BY <1>1, <1>2, <1>3

LEMMA DownloadStep ==
  ASSUME IInv, NEW w \in Workers, NEW m \in Models, Download(w, m)
  PROVE  IInv'
<1> USE DEF IInv, Download
<1>1. TypeOK'
  BY DEF TypeOK, States, Steps
<1>2. WorkerOK'
  BY DEF WorkerOK, TypeOK
<1>3. UsersShare'
  BY DEF UsersShare, Using, TypeOK, WorkerOK
<1>4. PartIsWritten'
  BY DEF PartIsWritten, TypeOK
<1>5. AloneIsComplete'
  BY DEF AloneIsComplete
<1>6. DownloadingIsActive'
  BY DEF DownloadingIsActive, TypeOK
<1> QED
  BY <1>1, <1>2, <1>3, <1>4, <1>5, <1>6

\* A step to "failed" that closes the file disturbs nothing.
LEMMA FailedStep ==
  ASSUME IInv, NEW w \in Workers,
         step[w] # "idle",
         step' = [step EXCEPT ![w] = "failed"],
         fd' = [fd EXCEPT ![w] = "none"],
         UNCHANGED <<state, part, target, model, written, shared, crashes>>
  PROVE  IInv'
<1> USE DEF IInv
<1>1. TypeOK'
  BY DEF TypeOK, Steps, Names
<1>2. WorkerOK' /\ UsersShare' /\ PartIsWritten'
  BY DEF WorkerOK, UsersShare, Using, PartIsWritten, TypeOK
<1>3. AloneIsComplete' /\ DownloadingIsActive'
  BY DEF AloneIsComplete, DownloadingIsActive, TypeOK
<1> QED
  BY <1>1, <1>2, <1>3

LEMMA OpenFileStep ==
  ASSUME IInv, NEW w \in Workers, OpenFile(w)
  PROVE  IInv'
<1> USE ChunksAssumption DEF IInv, OpenFile
<1>0. model[w] \in Models
  BY DEF WorkerOK
<1>1. TypeOK'
  BY <1>0 DEF TypeOK, File, Steps, Names
<1>2. WorkerOK'
  <2>1. part'[model[w]] # None
    BY <1>0, NoneAssumption DEF TypeOK
  <2> QED
    BY <1>0, <2>1 DEF WorkerOK, TypeOK
<1>3. UsersShare'
  <2> SUFFICES ASSUME NEW u \in Workers, NEW v \in Workers, u # v,
                      model[u] = model[v], Using(u)', Using(v)'
               PROVE  model[v] \in shared'
    BY DEF UsersShare
  <2>1. CASE u = w
    BY <2>1 DEF Using, Sharing, TypeOK
  <2>2. CASE v = w
    BY <2>2 DEF Using, Sharing, TypeOK
  <2>3. CASE u # w /\ v # w
    BY <2>3 DEF Using, UsersShare, TypeOK
  <2> QED
    BY <2>1, <2>2, <2>3
<1>4. PartIsWritten'
  <2> SUFFICES ASSUME NEW v \in Workers, model[v] \in Models \ shared'
               PROVE  /\ step'[v] = "copy" => fd'[v] = "part" /\ part'[model[v]] = 1 .. written'[v]
                      /\ step'[v] = "rename" => part'[model[v]] = All
    BY DEF PartIsWritten
  <2>1. CASE v = w
    BY <2>1 DEF TypeOK
  <2>2. CASE v # w
    <3>1. model[v] \notin shared
      OBVIOUS
    <3>2. ASSUME step[v] \in {"copy", "rename"} PROVE model[v] # model[w]
      <4>1. Using(v)
        BY <3>1, <3>2 DEF Using, PartIsWritten
      <4> QED
        BY <2>2, <4>1 DEF Sharing, Using
    <3> QED
      BY <2>2, <3>1, <3>2 DEF TypeOK, PartIsWritten
  <2> QED
    BY <2>1, <2>2
<1>5. AloneIsComplete'
  BY DEF AloneIsComplete
<1>6. DownloadingIsActive'
  BY DEF DownloadingIsActive, TypeOK
<1> QED
  BY <1>1, <1>2, <1>3, <1>4, <1>5, <1>6

LEMMA CopyStep ==
  ASSUME IInv, NEW w \in Workers, Copy(w)
  PROVE  IInv'
<1> USE ChunksAssumption, NoneAssumption DEF IInv, Copy
<1> DEFINE m == model[w]
           k == written[w] + 1
<1>0. /\ m \in Models
      /\ written[w] \in 0 .. Chunks /\ k \in 1 .. Chunks
      /\ fd[w] # "part" => m \in shared
  BY DEF WorkerOK, PartIsWritten, TypeOK
<1>1. /\ fd[w] = "part" => part[m] \in File /\ part[m] \cup {k} \in File
      /\ fd[w] = "target" => target[m] \in File /\ target[m] \cup {k} \in File
  BY <1>0 DEF WorkerOK, TypeOK, File, All
<1>2. written' \in [Workers -> 0 .. Chunks]
  BY <1>0 DEF TypeOK
<1>3. part' \in [Models -> File \cup {None}]
  BY <1>0, <1>1 DEF TypeOK
<1>4. target' \in [Models -> File \cup {None}]
  BY <1>0, <1>1 DEF TypeOK
<1>5. \A n \in Models : /\ part[n] # None => part'[n] # None
                        /\ target[n] # None => target'[n] # None
  <2>1. /\ part[m] # None => part'[m] # None
        /\ target[m] # None => target'[m] # None
    <3>1. \A f \in File : f # None
      BY DEF File, All
    <3> QED
      BY <1>0, <1>1, <3>1 DEF TypeOK
  <2>2. \A n \in Models \ {m} : part'[n] = part[n] /\ target'[n] = target[n]
    BY DEF TypeOK
  <2> QED
    BY <2>1, <2>2
<1>6. TypeOK'
  BY <1>2, <1>3, <1>4 DEF TypeOK
<1>7. WorkerOK'
  BY <1>5 DEF WorkerOK
<1>8. UsersShare'
  BY DEF UsersShare, Using
<1>9. PartIsWritten'
  <2> SUFFICES ASSUME NEW v \in Workers, model[v] \in Models \ shared
               PROVE  /\ step[v] = "copy" => fd[v] = "part" /\ part'[model[v]] = 1 .. written'[v]
                      /\ step[v] = "rename" => part'[model[v]] = All
    BY DEF PartIsWritten
  <2>1. CASE v = w
    <3>1. fd[w] = "part" /\ part[m] = 1 .. written[w]
      BY <2>1 DEF PartIsWritten
    <3>2. (1 .. written[w]) \cup {k} = 1 .. k
      BY <1>0
    <3>3. part'[m] = 1 .. k /\ written'[w] = k
      BY <3>1, <3>2, <1>0 DEF TypeOK
    <3> QED
      BY <2>1, <3>1, <3>3
  <2>2. CASE v # w /\ model[v] = m
    BY <2>2, <1>0 DEF PartIsWritten, UsersShare, Using
  <2>3. CASE v # w /\ model[v] # m
    BY <2>3, <1>0 DEF PartIsWritten, TypeOK
  <2> QED
    BY <2>1, <2>2, <2>3
<1>10. AloneIsComplete'
  BY <1>0 DEF AloneIsComplete, TypeOK
<1>11. DownloadingIsActive'
  BY DEF DownloadingIsActive
<1> QED
  BY <1>6, <1>7, <1>8, <1>9, <1>10, <1>11

\* A body that ended without an error has been written to the end.
LEMMA CopiedStep ==
  ASSUME IInv, NEW w \in Workers, step[w] = "copy", written[w] = Chunks,
         step' = [step EXCEPT ![w] = "rename"],
         fd' = [fd EXCEPT ![w] = "none"],
         UNCHANGED <<state, part, target, model, written, shared, crashes>>
  PROVE  IInv'
<1> USE DEF IInv
<1>1. TypeOK'
  BY DEF TypeOK, Steps, Names
<1>2. WorkerOK'
  BY DEF WorkerOK, TypeOK
<1>3. UsersShare'
  <2> SUFFICES ASSUME NEW u \in Workers, NEW v \in Workers, u # v,
                      model[u] = model[v], Using(u)', Using(v)'
               PROVE  model[v] \in shared
    BY DEF UsersShare
  <2>1. model[w] \in Models
    BY DEF WorkerOK
  <2>2. model[w] \in shared \/ Using(w)
    BY <2>1 DEF PartIsWritten, Using
  <2> QED
    BY <2>2 DEF UsersShare, Using, TypeOK
<1>4. PartIsWritten'
  BY DEF PartIsWritten, TypeOK, All
<1>5. AloneIsComplete' /\ DownloadingIsActive'
  BY DEF AloneIsComplete, DownloadingIsActive, TypeOK
<1> QED
  BY <1>1, <1>2, <1>3, <1>4, <1>5

LEMMA RenameStep ==
  ASSUME IInv, NEW w \in Workers, Rename(w)
  PROVE  IInv'
<1> USE NoneAssumption DEF IInv, Rename
<1> DEFINE m == model[w]
<1>0. m \in Models /\ part[m] \in File
  BY DEF WorkerOK, TypeOK
<1>1. \A v \in Workers :
        /\ fd'[v] \in Names
        /\ fd[v] = "none" => fd'[v] = "none"
        /\ fd'[v] = "part" => fd[v] = "part" /\ model[v] # m
        /\ fd'[v] = "target" => fd[v] = "target" \/ model[v] = m
        /\ model[v] # m => fd'[v] = fd[v]
  BY DEF TypeOK, Names, Renamed
<1>2. TypeOK'
  <2>1. fd' \in [Workers -> Names]
    BY <1>1
  <2> QED
    BY <1>0, <2>1 DEF TypeOK, Steps
<1>3. WorkerOK'
  BY <1>0, <1>1 DEF WorkerOK, TypeOK
<1>4. UsersShare'
  BY <1>1 DEF UsersShare, Using, TypeOK
<1>5. PartIsWritten'
  <2> SUFFICES ASSUME NEW v \in Workers, model[v] \in Models \ shared,
                      v # w, step[v] \in {"copy", "rename"}
               PROVE  model[v] # m
    BY <1>0, <1>1 DEF PartIsWritten, TypeOK
  <2> QED
    BY DEF PartIsWritten, UsersShare, Using
<1>6. AloneIsComplete'
  BY <1>0 DEF AloneIsComplete, PartIsWritten, TypeOK
<1>7. DownloadingIsActive'
  BY DEF DownloadingIsActive, TypeOK
<1> QED
  BY <1>2, <1>3, <1>4, <1>5, <1>6, <1>7

LEMMA ReturnStep ==
  ASSUME IInv, NEW w \in Workers, Return(w)
  PROVE  IInv'
<1> USE ChunksAssumption, NoneAssumption DEF IInv, Return
<1>0. model[w] \in Models
  BY DEF WorkerOK
<1>1. TypeOK'
  BY <1>0 DEF TypeOK, Steps, States, Result
<1>2. WorkerOK'
  BY <1>0 DEF WorkerOK, TypeOK
<1>3. UsersShare'
  BY DEF UsersShare, Using, TypeOK, WorkerOK
<1>4. PartIsWritten'
  BY DEF PartIsWritten, TypeOK
<1>5. AloneIsComplete'
  BY DEF AloneIsComplete
<1>6. DownloadingIsActive'
  BY <1>0 DEF DownloadingIsActive, TypeOK, Result
<1> QED
  BY <1>1, <1>2, <1>3, <1>4, <1>5, <1>6

LEMMA RestartStep == IInv /\ Restart => IInv'
<1> SUFFICES ASSUME IInv, Restart PROVE IInv'
  OBVIOUS
<1> USE ChunksAssumption, NoneAssumption DEF IInv, Restart, Opened
<1>1. TypeOK'
  BY DEF TypeOK, States, Steps, Names
<1>2. WorkerOK' /\ UsersShare' /\ PartIsWritten'
  BY DEF WorkerOK, UsersShare, Using, PartIsWritten
<1>3. AloneIsComplete' /\ DownloadingIsActive'
  BY DEF AloneIsComplete, DownloadingIsActive
<1> QED
  BY <1>1, <1>2, <1>3

LEMMA NextStep == IInv /\ [Next]_vars => IInv'
<1> SUFFICES ASSUME IInv, [Next]_vars PROVE IInv'
  OBVIOUS
<1>1. ASSUME NEW w \in Workers, RequestFails(w) \/ RenameFails(w) PROVE IInv'
  <2>1. step[w] # "copy" /\ step[w] # "idle" /\ fd = [fd EXCEPT ![w] = "none"]
    BY <1>1 DEF RequestFails, RenameFails, IInv, WorkerOK, TypeOK
  <2> QED
    BY <1>1, <2>1, FailedStep DEF RequestFails, RenameFails
<1>2. ASSUME NEW w \in Workers, CopyEnds(w) PROVE IInv'
  BY <1>2, CopiedStep, FailedStep DEF CopyEnds
<1>3. CASE UNCHANGED vars
  BY <1>3 DEF vars, IInv, TypeOK, WorkerOK, UsersShare, Using, PartIsWritten,
              AloneIsComplete, DownloadingIsActive
<1> QED
  BY <1>1, <1>2, <1>3, EntriesStep, RestartStep, DownloadStep, OpenFileStep,
     CopyStep, RenameStep, ReturnStep DEF Next, Downloading

-----------------------------------------------------------------------------
\* What is at a target path is complete unless downloads of the model shared
\* its .part file, after any number of failed transfers and restarts.
THEOREM TargetsComplete == Spec => []AloneIsComplete
<1>1. IInv => AloneIsComplete
  BY DEF IInv
<1> QED
  BY <1>1, InitIInv, NextStep, PTL DEF Spec

\* No entry says "downloading" without a download.
THEOREM DownloadsActive == Spec => []DownloadingIsActive
<1>1. IInv => DownloadingIsActive
  BY DEF IInv
<1> QED
  BY <1>1, InitIInv, NextStep, PTL DEF Spec

-----------------------------------------------------------------------------
(* The manager of a single litert server *)

ManagerStates == {"created", "external", "starting", "running", "stopped", "exited",
           "unavailable"}
Contexts == {"live", "canceled", "expired"}
Kinds == {"start", "restart", "stop"}

Called  == [pc : {"patch", "start", "stop"}, kind : Kinds, ctx : Contexts, patch : Patch]
Waiting == [pc : {"wait"}, kind : Kinds, ctx : Contexts, patch : Patch, proc : Procs]
Ready   == [pc : {"spawn"}, ctx : Contexts, port : Ports]

Process == [up : {"unborn", "live", "dead", "reaped"}, killed : BOOLEAN,
            ctx : Contexts, port : Ports, told : BOOLEAN]
Manager == [cmd : 0 .. MaxProcs, stopped : BOOLEAN, port : Ports, state : ManagerStates]

TypesOK ==
  /\ config.port \in Ports
  /\ manager \in Manager
  /\ proc \in [Procs -> Process]
  /\ op \in {Idle} \cup Called \cup Waiting \cup Ready

\* Who waits for a process to end hears of it when it has been waited for.
ToldOK == \A p \in Procs : proc[p].told => proc[p].up = "reaped"

\* The process of the manager serves only as a running one, or while a stop
\* waits for it.
CmdOK == manager.cmd \in Serving \ detached =>
           \/ manager.state = "running" /\ ~ manager.stopped
           \/ op.pc = "wait" /\ op.proc = manager.cmd

\* No process is started beside one that serves.
SpawnOK == op.pc = "spawn" => manager.cmd \notin Serving \ detached

\* The manager has the process that its status calls running.
RunningOK == manager.state = "running" =>
               manager.cmd # 0 /\ manager.port = proc[manager.cmd].port

LInv == TypesOK /\ ToldOK /\ CmdOK /\ SpawnOK /\ RunningOK /\ OneProcess

-----------------------------------------------------------------------------
USE DEF Process, Manager

LEMMA PatchedPort ==
  ASSUME NEW patch \in Patch, config.port \in Ports
  PROVE  PatchedConfig(config, patch).port \in Ports
BY DEF Patch, PatchedConfig

\* A patch changes the port of the status at most, and not of a running process.
LEMMA PatchKeeps ==
  ASSUME TypesOK, NEW patch \in Patch, ApplyConfigPatch(patch)
  PROVE  /\ config'.port \in Ports
         /\ manager' \in Manager
         /\ manager'.cmd = manager.cmd
         /\ manager'.stopped = manager.stopped
         /\ manager'.state = manager.state
         /\ manager.state = "running" => manager'.port = manager.port
<1>1. config'.port \in Ports
  BY PatchedPort DEF TypesOK, ApplyConfigPatch
<1>2. \/ manager' = manager
      \/ manager.state # "running" /\ manager' = [manager EXCEPT !.port = config'.port]
  BY DEF ApplyConfigPatch, RefreshedStatus
<1> QED BY <1>1, <1>2 DEF TypesOK

\* The step of a call or of a patch that leaves the processes as they are, and
\* of the manager at most the port.
LEMMA Harmless ==
  ASSUME LInv, UNCHANGED <<proc, detached>>,
         config'.port \in Ports,
         manager' \in Manager,
         manager'.cmd = manager.cmd,
         manager'.stopped = manager.stopped,
         manager'.state = manager.state,
         manager.state = "running" => manager'.port = manager.port,
         op' \in {Idle} \cup Called \cup Waiting \cup Ready,
         op'.pc = "spawn" => op.pc = "spawn",
         op.pc = "wait" /\ op.proc = manager.cmd /\ manager.cmd \in Serving
           => op'.pc = "wait" /\ op'.proc = op.proc
  PROVE  LInv'
<1>1. Serving' = Serving
  BY DEF Serving
<1>2. TypesOK'
  BY DEF LInv, TypesOK
<1>3. CmdOK'
  BY <1>1 DEF LInv, CmdOK
<1>4. SpawnOK'
  BY <1>1 DEF LInv, SpawnOK
<1>5. OneProcess'
  BY <1>1 DEF LInv, OneProcess
<1>6. ToldOK' /\ RunningOK'
  BY DEF LInv, ToldOK, RunningOK
<1> QED BY <1>2, <1>3, <1>4, <1>5, <1>6 DEF LInv

\* The steps of the process p that leave the manager alone.
LEMMA ProcKeeps ==
  ASSUME LInv, UNCHANGED <<config, manager, op, detached>>, NEW p \in Procs,
         proc' = [proc EXCEPT ![p] = proc'[p]],
         proc'[p] \in Process,
         proc'[p].port = proc[p].port,
         p \in Serving' => p \in Serving,
         proc'[p].told => proc'[p].up = "reaped"
  PROVE  LInv'
<1>1. \A q \in Procs \ {p} : proc'[q] = proc[q]
  BY DEF LInv, TypesOK
<1>2. Serving' \subseteq Serving
  BY <1>1 DEF Serving
<1>3. TypesOK'
  BY DEF LInv, TypesOK
<1>4. ToldOK'
  BY <1>1 DEF LInv, ToldOK
<1>5. CmdOK' /\ SpawnOK' /\ OneProcess'
  BY <1>2 DEF LInv, CmdOK, SpawnOK, OneProcess
<1>6. RunningOK'
  <2> SUFFICES ASSUME manager.state = "running"
               PROVE  manager.port = proc'[manager.cmd].port
    BY DEF LInv, RunningOK
  <2>1. manager.cmd \in Procs
    BY DEF LInv, RunningOK, TypesOK, Procs
  <2> QED BY <1>1, <2>1 DEF LInv, RunningOK
<1> QED BY <1>3, <1>4, <1>5, <1>6 DEF LInv

\* A process is started: none serves, except what a patch has detached.
LEMMA SpawnKeeps ==
  ASSUME LInv, NEW p \in Procs, Spawn(p)
  PROVE  LInv'
<1>1. op \in Ready
  BY DEF LInv, TypesOK, Spawn, Idle, Called, Waiting, Ready
<1>2. /\ proc[p].up = "unborn"
      /\ proc' = [proc EXCEPT ![p] = [proc[p] EXCEPT !.up = "live", !.port = op.port]]
      /\ manager' = [cmd |-> p, stopped |-> FALSE, state |-> "running", port |-> op.port]
      /\ op' = Idle
      /\ UNCHANGED <<config, detached>>
  BY DEF Spawn
<1>3. /\ proc'[p] = [proc[p] EXCEPT !.up = "live", !.port = op.port]
      /\ \A q \in Procs \ {p} : proc'[q] = proc[q]
  BY <1>2 DEF LInv, TypesOK
<1>4. proc'[p].port = op.port /\ proc'[p].told = proc[p].told
  BY <1>3 DEF LInv, TypesOK
<1>5. Serving' \subseteq Serving \cup {p}
  BY <1>3 DEF Serving
<1>6. Serving \ detached = {}
  BY DEF LInv, SpawnOK, OneProcess, Spawn
<1>7. TypesOK'
  <2>1. manager' \in Manager
    BY <1>1, <1>2 DEF Ready, ManagerStates, Procs
  <2>2. proc'[p] \in Process
    BY <1>1, <1>3 DEF LInv, TypesOK, Ready
  <2>3. proc' \in [Procs -> Process]
    BY <1>2, <1>3, <2>2 DEF LInv, TypesOK
  <2> QED BY <1>2, <2>1, <2>3 DEF LInv, TypesOK
<1>8. ToldOK'
  BY <1>2, <1>3, <1>4 DEF LInv, ToldOK
<1>9. CmdOK' /\ SpawnOK' /\ OneProcess'
  BY <1>2, <1>5, <1>6 DEF CmdOK, SpawnOK, OneProcess, Idle
<1>10. RunningOK'
  BY <1>2, <1>4 DEF RunningOK, Procs
<1> QED BY <1>7, <1>8, <1>9, <1>10 DEF LInv

\* The manager forgets a process that has ended.
LEMMA WaitKeeps ==
  ASSUME LInv, NEW p \in Procs, Wait(p)
  PROVE  LInv'
<1>1. /\ proc[p].up = "dead"
      /\ proc' = [proc EXCEPT ![p].up = "reaped"]
      /\ UNCHANGED <<config, op, detached>>
  BY DEF Wait
<1>2. CASE manager.cmd # p
  <2>1. manager' = manager
    BY <1>2 DEF Wait
  <2> QED BY <1>1, <2>1, ProcKeeps DEF LInv, TypesOK, Serving, ToldOK
<1>3. CASE manager.cmd = p
  <2>1. manager' = [manager EXCEPT !.cmd = 0,
                      !.state = IF manager.stopped \/ proc[p].ctx = "canceled"
                                THEN "stopped" ELSE "exited"]
    BY <1>3 DEF Wait
  <2>2. manager'.cmd = 0 /\ manager'.state \in {"stopped", "exited"}
    BY <2>1 DEF LInv, TypesOK
  <2>3. TypesOK'
    <3>1. 0 \in 0 .. MaxProcs
      BY LitertAssumption
    <3>2. manager' \in Manager
      BY <2>1, <3>1 DEF LInv, TypesOK, ManagerStates
    <3>3. proc' \in [Procs -> Process]
      BY <1>1 DEF LInv, TypesOK
    <3> QED BY <1>1, <3>2, <3>3 DEF LInv, TypesOK
  <2>4. Serving' \subseteq Serving
    BY <1>1 DEF Serving, LInv, TypesOK
  <2>5. Serving \ detached = {}
    BY <1>1, <1>3 DEF LInv, OneProcess, Serving
  <2>6. ToldOK'
    BY <1>1 DEF LInv, ToldOK, TypesOK
  <2>7. CmdOK' /\ SpawnOK' /\ OneProcess'
    BY <1>1, <2>4, <2>5 DEF CmdOK, SpawnOK, OneProcess
  <2>8. RunningOK'
    BY <2>2 DEF RunningOK
  <2> QED BY <2>3, <2>6, <2>7, <2>8 DEF LInv
<1> QED BY <1>2, <1>3

\* A start begins, or does not: what the manager had does not run any more, or
\* is left to itself.
LEMMA BeginStart ==
  ASSUME LInv, op.pc = "start", UNCHANGED <<config, proc>>,
         NEW newState \in ManagerStates \ {"running"},
         manager' = [manager EXCEPT !.state = newState, !.port = config.port],
         detached \subseteq detached',
         manager.cmd \in Serving \ detached => manager.cmd \in detached',
         op' \in {Idle} \cup Ready
  PROVE  LInv'
<1>1. /\ Serving' = Serving
      /\ manager'.cmd = manager.cmd
      /\ manager'.state = newState
  BY DEF Serving, LInv, TypesOK
<1>2. Serving \ detached' = {}
  BY DEF LInv, OneProcess
<1>3. TypesOK'
  BY DEF LInv, TypesOK
<1>4. CmdOK' /\ SpawnOK' /\ OneProcess'
  BY <1>1, <1>2 DEF CmdOK, SpawnOK, OneProcess
<1>5. ToldOK' /\ RunningOK'
  BY <1>1 DEF LInv, ToldOK, RunningOK
<1> QED BY <1>3, <1>4, <1>5 DEF LInv

-----------------------------------------------------------------------------
LEMMA ManagerInit == LitertInit => LInv
<1> SUFFICES ASSUME LitertInit PROVE LInv
  OBVIOUS
<1>1. AnyPort \in Ports
  BY LitertAssumption DEF AnyPort
<1>2. config.port \in Ports
  BY DEF LitertInit, Config
<1>3. TypesOK
  <2>1. 0 \in 0 .. MaxProcs
    BY LitertAssumption
  <2>2. manager \in Manager
    BY <1>2, <2>1 DEF LitertInit, ManagerStates
  <2>3. proc \in [Procs -> Process]
    BY <1>1 DEF LitertInit, Contexts
  <2> QED BY <1>2, <2>2, <2>3 DEF LitertInit, TypesOK
<1>4. Serving = {} /\ ToldOK
  BY DEF LitertInit, Serving, ToldOK
<1>5. CmdOK /\ SpawnOK /\ OneProcess
  BY <1>4 DEF CmdOK, SpawnOK, OneProcess
<1>6. RunningOK
  BY DEF LitertInit, RunningOK
<1> QED BY <1>3, <1>4, <1>5, <1>6 DEF LInv

\* The steps of the call that holds opMu.
LEMMA OpKeeps ==
  ASSUME LInv,
         \/ PatchStep \/ StartExternal \/ AlreadyRunning \/ SpawnFails
         \/ StopNothing \/ Interrupt \/ StopDone \/ StopTimeout
         \/ \E found \in BOOLEAN : Prepare(found)
  PROVE  LInv'
<1> USE DEF Idle, Called, Waiting, Ready
<1>1. CASE PatchStep
  <2>1. op \in Called /\ op.patch \in Patch
    BY <1>1 DEF LInv, TypesOK, PatchStep
  <2>2. op' \in {Idle} \cup Called
    BY <1>1, <2>1 DEF PatchStep
  <2>3. op'.pc # "spawn" /\ op.pc # "wait"
    BY <1>1, <2>1 DEF PatchStep
  <2> QED BY <1>1, <2>1, <2>2, <2>3, PatchKeeps, Harmless DEF PatchStep, LInv
<1>2. CASE StartExternal
  <2>1. manager.cmd \in Serving \ detached => manager.cmd \in detached'
    BY <1>2 DEF StartExternal, LInv, CmdOK
  <2>2. detached \subseteq detached'
    BY <1>2 DEF StartExternal
  <2> QED BY <1>2, <2>1, <2>2, BeginStart DEF StartExternal, ManagerStates
<1>3. CASE AlreadyRunning
  BY <1>3, Harmless DEF AlreadyRunning, LInv, TypesOK
<1>4. CASE SpawnFails
  <2>1. op \in Ready /\ op.port \in Ports
    BY <1>4 DEF LInv, TypesOK, SpawnFails
  <2>2. /\ manager'.cmd = manager.cmd /\ manager'.state = "unavailable"
        /\ manager' \in Manager
    BY <1>4, <2>1 DEF SpawnFails, LInv, TypesOK, ManagerStates
  <2>3. Serving' = Serving
    BY <1>4 DEF SpawnFails, Serving
  <2>4. TypesOK'
    BY <1>4, <2>2 DEF SpawnFails, LInv, TypesOK
  <2>5. CmdOK' /\ SpawnOK' /\ OneProcess'
    BY <1>4, <2>2, <2>3 DEF SpawnFails, LInv, CmdOK, SpawnOK, OneProcess
  <2>6. ToldOK' /\ RunningOK'
    BY <1>4, <2>2 DEF SpawnFails, LInv, ToldOK, RunningOK
  <2> QED BY <2>4, <2>5, <2>6 DEF LInv
<1>5. CASE StopNothing
  <2>1. op \in Called
    BY <1>5 DEF LInv, TypesOK, StopNothing
  <2>2. op' \in {Idle} \cup Called /\ op'.pc # "spawn"
    BY <1>5, <2>1 DEF StopNothing, AfterStop
  <2> QED BY <1>5, <2>1, <2>2, Harmless DEF StopNothing, LInv, TypesOK
<1>6. CASE Interrupt
  <2>1. op \in Called
    BY <1>6 DEF LInv, TypesOK, Interrupt
  <2>2. /\ manager'.cmd = manager.cmd /\ manager'.state = manager.state
        /\ manager'.port = manager.port
        /\ manager' \in Manager
    BY <1>6 DEF Interrupt, LInv, TypesOK
  <2>3. manager.cmd \in Procs
    BY <1>6 DEF Interrupt, LInv, TypesOK, Procs
  <2>4. op' \in Waiting /\ op'.pc = "wait" /\ op'.proc = manager.cmd
    BY <1>6, <2>1, <2>3 DEF Interrupt
  <2>5. Serving' = Serving
    BY <1>6 DEF Interrupt, Serving
  <2>6. TypesOK'
    BY <1>6, <2>2, <2>4 DEF Interrupt, LInv, TypesOK
  <2>7. CmdOK' /\ SpawnOK' /\ OneProcess'
    BY <1>6, <2>2, <2>4, <2>5 DEF Interrupt, LInv, CmdOK, SpawnOK, OneProcess
  <2>8. ToldOK' /\ RunningOK'
    BY <1>6, <2>2 DEF Interrupt, LInv, ToldOK, RunningOK
  <2> QED BY <2>6, <2>7, <2>8 DEF LInv
<1>7. CASE StopDone
  <2>1. op \in Waiting
    BY <1>7 DEF LInv, TypesOK, StopDone
  <2>2. op' \in {Idle} \cup Called /\ op'.pc # "spawn"
    BY <1>7, <2>1 DEF StopDone, AfterStop
  <2>3. op.proc \notin Serving
    BY <1>7, <2>1 DEF StopDone, LInv, ToldOK, Serving
  <2> QED BY <1>7, <2>2, <2>3, Harmless DEF StopDone, LInv, TypesOK
<1>8. CASE StopTimeout
  <2>1. op \in Waiting /\ op.proc \in Procs
    BY <1>8 DEF LInv, TypesOK, StopTimeout
  <2>2. /\ \A q \in Procs \ {op.proc} : proc'[q] = proc[q]
        /\ proc'[op.proc] = [proc[op.proc] EXCEPT !.killed = TRUE]
    BY <1>8, <2>1 DEF StopTimeout, LInv, TypesOK
  <2>3. proc'[op.proc].killed /\ op.proc \notin Serving'
    BY <2>1, <2>2 DEF LInv, TypesOK, Serving
  <2>4. Serving' \subseteq Serving \ {op.proc}
    BY <2>2, <2>3 DEF Serving
  <2>5. TypesOK'
    <3>1. proc' \in [Procs -> Process]
      <4>1. proc'[op.proc] \in Process
        <5>1. proc[op.proc] \in Process
          BY <2>1 DEF LInv, TypesOK
        <5> QED BY <2>2, <5>1
      <4>2. proc' = [proc EXCEPT ![op.proc] = proc'[op.proc]]
        BY <1>8 DEF StopTimeout, LInv, TypesOK
      <4> QED BY <4>1, <4>2 DEF LInv, TypesOK
    <3>2. UNCHANGED <<config, manager>> /\ op' = Idle
      BY <1>8 DEF StopTimeout
    <3> QED BY <3>1, <3>2 DEF LInv, TypesOK
  <2>6. CmdOK' /\ SpawnOK' /\ OneProcess'
    BY <1>8, <2>4 DEF StopTimeout, LInv, CmdOK, SpawnOK, OneProcess
  <2>7. ToldOK'
    BY <1>8 DEF StopTimeout, LInv, ToldOK, TypesOK
  <2>8. RunningOK'
    BY <1>8 DEF StopTimeout, LInv, RunningOK, TypesOK, Procs
  <2> QED BY <2>5, <2>6, <2>7, <2>8 DEF LInv
<1>9. ASSUME NEW found \in BOOLEAN, Prepare(found) PROVE LInv'
  <2>1. op \in Called
    <3>1. op.pc = "start"
      BY <1>9 DEF Prepare
    <3> QED BY <3>1 DEF LInv, TypesOK
  <2>2. op' \in {Idle} \cup Ready
    BY <1>9, <2>1 DEF Prepare, LInv, TypesOK
  <2>3. manager.cmd \notin Serving \ detached
    <3> SUFFICES ASSUME manager.cmd \in Serving \ detached PROVE FALSE
      OBVIOUS
    <3>1. manager.state = "running" /\ ~ manager.stopped
      BY <1>9 DEF Prepare, LInv, CmdOK
    <3>2. manager.cmd # 0
      BY <3>1 DEF LInv, RunningOK
    <3> QED BY <1>9, <3>1, <3>2 DEF Prepare, IsRunning
  <2>4. (IF found THEN "starting" ELSE "unavailable") \in ManagerStates \ {"running"}
    BY DEF ManagerStates
  <2> QED BY <1>9, <2>2, <2>3, <2>4, BeginStart DEF Prepare
<1> QED BY <1>1, <1>2, <1>3, <1>4, <1>5, <1>6, <1>7, <1>8, <1>9

LEMMA ManagerNext == LInv /\ [LitertNext]_litertVars => LInv'
<1> SUFFICES ASSUME LInv, [LitertNext]_litertVars PROVE LInv'
  OBVIOUS
<1>1. ASSUME NEW patch \in Patch, PatchAlone(patch) PROVE LInv'
  BY <1>1, PatchKeeps, Harmless DEF PatchAlone, LInv, TypesOK
<1>2. ASSUME NEW kind \in Kinds, NEW patch \in Patch, Call(kind, patch) PROVE LInv'
  <2>1. op' \in Called /\ op.pc = "idle" /\ op'.pc # "spawn"
    BY <1>2 DEF Call, Called, Contexts, Idle
  <2> QED BY <1>2, <2>1, Harmless DEF Call, LInv, TypesOK
<1>3. CASE \/ PatchStep \/ StartExternal \/ AlreadyRunning \/ SpawnFails
           \/ StopNothing \/ Interrupt \/ StopDone \/ StopTimeout
           \/ \E found \in BOOLEAN : Prepare(found)
  BY <1>3, OpKeeps
<1>4. ASSUME NEW how \in {"canceled", "expired"}, EndContext(how) PROVE LInv'
  <2>1. op \in Called \cup Waiting \cup Ready
    BY <1>4 DEF EndContext, LInv, TypesOK
  <2>2. /\ op' \in Called \cup Waiting \cup Ready
        /\ op'.pc = op.pc
        /\ op.pc = "wait" => op'.proc = op.proc
    BY <1>4, <2>1 DEF EndContext, Called, Waiting, Ready, Contexts
  <2> QED BY <1>4, <2>2, Harmless DEF EndContext, LInv, TypesOK
<1>5. ASSUME NEW p \in Procs, NEW how \in {"canceled", "expired"},
             EndProcessContext(p, how)
      PROVE LInv'
  BY <1>5, ProcKeeps DEF EndProcessContext, LInv, TypesOK, ToldOK, Serving, Contexts
<1>6. ASSUME NEW p \in Procs, Spawn(p) PROVE LInv'
  BY <1>6, SpawnKeeps
<1>7. ASSUME NEW p \in Procs, Exit(p) PROVE LInv'
  BY <1>7, ProcKeeps DEF Exit, LInv, TypesOK, ToldOK, Serving
<1>8. ASSUME NEW p \in Procs, Wait(p) PROVE LInv'
  BY <1>8, WaitKeeps
<1>9. ASSUME NEW p \in Procs, Tell(p) PROVE LInv'
  BY <1>9, ProcKeeps DEF Tell, LInv, TypesOK, ToldOK, Serving
<1>10. CASE UNCHANGED litertVars
  BY <1>10, Harmless DEF litertVars, LInv, TypesOK
<1>11. [launch |-> "keep", port |-> AnyPort, valid |-> TRUE] \in Patch
  BY LitertAssumption DEF Patch, AnyPort
<1> QED BY <1>1, <1>2, <1>3, <1>4, <1>5, <1>6, <1>7, <1>8, <1>9, <1>10, <1>11
        DEF LitertNext, Kinds

\* OneProcess of Manager, for any number of processes, calls and patches.
THEOREM SingleProcess == LitertSpec => []OneProcess
<1>1. LInv => OneProcess
  BY DEF LInv
<1> QED BY ManagerInit, ManagerNext, <1>1, PTL DEF LitertSpec

\* AddressTrue of Manager.Status, for any ports, processes, calls and patches.
THEOREM TrueAddress == LitertSpec => []AddressTrue
<1>1. LInv => AddressTrue
  BY DEF LInv, RunningOK, AddressTrue
<1> QED BY ManagerInit, ManagerNext, <1>1, PTL DEF LitertSpec

-----------------------------------------------------------------------------
(* The file of working backends *)

Writing(p) == job[p].pc \in {"write", "fill"}

\* What a write is going to put into the file differs from what is wanted in
\* the entry that it is about.
JobContent(p) ==
  job[p].content.entries
    = [wanted EXCEPT ![job[p].backend] = job[p].content.entries[job[p].backend]]

FunOK == /\ job = [p \in Processes |-> job[p]]
         /\ wanted = [b \in AllBackends |-> wanted[b]]
         /\ \A p \in Processes : Writing(p) =>
              job[p] = [pc |-> job[p].pc, backend |-> job[p].backend,
                        content |-> job[p].content]

\* Nobody writes while another one does.
OneWriter == Serial => \A p, q \in Processes : Writing(p) /\ p # q => job[q] = NoJob

\* The file is what is wanted, except between the two steps of a write.
FileOK == Serial /\ ~ torn =>
  /\ (\A p \in Processes : job[p].pc # "fill") => file.entries = wanted
  /\ \A p \in Processes : Writing(p) => JobContent(p)

BInv == FunOK /\ OneWriter /\ FileOK

-----------------------------------------------------------------------------
LEMMA ExceptTwice ==
  ASSUME NEW f, NEW b, NEW e, NEW g, g = [f EXCEPT ![b] = e]
  PROVE  g = [f EXCEPT ![b] = g[b]]
<1>1. CASE b \in DOMAIN f
  <2>1. g[b] = e
    BY <1>1
  <2> QED BY <2>1
<1>2. CASE b \notin DOMAIN f
  <2>1. \A e1, e2 : \A x \in DOMAIN f :
          (IF x = b THEN e1 ELSE f[x]) = (IF x = b THEN e2 ELSE f[x])
    BY <1>2
  <2>2. [f EXCEPT ![b] = e] = [f EXCEPT ![b] = g[b]]
    BY <2>1
  <2> QED BY <2>2
<1> QED BY <1>1, <1>2

\* A write that begins: the process was idle, as were all others if they wait.
LEMMA BeginWrite ==
  ASSUME BInv, NEW p \in Processes, MayWrite(p), NEW b, NEW entry,
         job' = [job EXCEPT ![p] = [pc |-> "write", backend |-> b,
                                    content |-> Updated(file, b, entry)]],
         UNCHANGED <<file, wanted, torn>>
  PROVE  BInv'
<1> DEFINE content == Updated(file, b, entry)
           j == [pc |-> "write", backend |-> b, content |-> content]
<1>1. job'[p] = j /\ \A q \in Processes \ {p} : job'[q] = job[q]
  BY DEF BInv, FunOK
<1>2. FunOK'
  <2>1. j = [pc |-> j.pc, backend |-> j.backend, content |-> j.content]
    OBVIOUS
  <2> QED BY <1>1, <2>1 DEF BInv, FunOK, Writing
<1>3. OneWriter'
  BY <1>1 DEF BInv, OneWriter, MayWrite, Writing, NoJob
<1>4. FileOK'
  <2> SUFFICES ASSUME Serial, ~ torn
               PROVE  /\ file.entries = wanted
                      /\ \A q \in Processes : Writing(q)' => JobContent(q)'
    BY DEF FileOK
  <2>1. \A q \in Processes : job[q] = NoJob
    BY DEF MayWrite
  <2>2. file.entries = wanted
    BY <2>1 DEF BInv, FileOK, NoJob
  <2>3. content.entries = [wanted EXCEPT ![b] = entry]
    BY <2>2 DEF Updated
  <2>4. content.entries = [wanted EXCEPT ![b] = content.entries[b]]
    BY <2>3, ExceptTwice
  <2>5. JobContent(p)'
    <3>1. /\ job'[p].content = content
          /\ job'[p].backend = b
          /\ wanted' = wanted
      BY <1>1
    <3> HIDE DEF content, j
    <3> QED BY <3>1, <2>4 DEF JobContent
  <2> QED BY <1>1, <2>1, <2>2, <2>5 DEF Writing, NoJob
<1> QED BY <1>2, <1>3, <1>4 DEF BInv

\* A process gives up or ends what it does without having emptied the file.
LEMMA EndJob ==
  ASSUME BInv, NEW p \in Processes, NEW rest \in {NoJob, [pc |-> "refresh"]},
         job' = [job EXCEPT ![p] = rest],
         UNCHANGED <<file, wanted>>,
         ~ torn' => ~ torn /\ job[p].pc # "fill",
         Serial => (rest = NoJob \/ \A q \in Processes \ {p} : ~ Writing(q))
  PROVE  BInv'
<1>1. job'[p] = rest /\ \A q \in Processes \ {p} : job'[q] = job[q]
  BY DEF BInv, FunOK
<1>2. ~ Writing(p)' /\ job'[p].pc # "fill"
  BY <1>1 DEF Writing, NoJob
<1>3. FunOK'
  BY <1>1, <1>2 DEF BInv, FunOK, Writing
<1>4. OneWriter'
  BY <1>1, <1>2 DEF BInv, OneWriter, Writing
<1>5. FileOK'
  BY <1>1, <1>2 DEF BInv, FileOK, Writing, JobContent
<1> QED BY <1>3, <1>4, <1>5 DEF BInv

\* The file is emptied.
LEMMA TruncateKeeps ==
  ASSUME BInv, NEW p \in Processes, Truncate(p)
  PROVE  BInv'
<1>1. /\ job'[p] = [job[p] EXCEPT !.pc = "fill"]
      /\ \A q \in Processes \ {p} : job'[q] = job[q]
  BY DEF BInv, FunOK, Truncate
<1>2. Writing(p)
  BY DEF Truncate, Writing
<1>3. /\ job'[p].pc = "fill"
      /\ job'[p].backend = job[p].backend
      /\ job'[p].content = job[p].content
  BY <1>1, <1>2 DEF BInv, FunOK
<1>4. job'[p] = [pc |-> "fill", backend |-> job[p].backend, content |-> job[p].content]
  BY <1>1, <1>2 DEF BInv, FunOK
<1>5. FunOK'
  BY <1>1, <1>3, <1>4 DEF BInv, FunOK, Truncate, Writing
<1>6. OneWriter'
  BY <1>1, <1>2 DEF BInv, OneWriter, Writing, NoJob
<1>7. FileOK'
  BY <1>1, <1>2, <1>3 DEF BInv, FileOK, Truncate, Writing, JobContent
<1> QED BY <1>5, <1>6, <1>7 DEF BInv

\* The new content is written: what is wanted is what the file holds.
LEMMA FillKeeps ==
  ASSUME BInv, NEW p \in Processes, Fill(p)
  PROVE  BInv'
<1>1. Writing(p)
  BY DEF Fill, Writing
<1>2. /\ job'[p] \in {NoJob, [pc |-> "refresh"]}
      /\ \A q \in Processes \ {p} : job'[q] = job[q]
  BY DEF BInv, FunOK, Fill
<1>3. ~ Writing(p)'
  BY <1>2 DEF Writing, NoJob
<1>4. FunOK'
  BY <1>2, <1>3 DEF BInv, FunOK, Fill, Writing
<1>5. OneWriter'
  BY <1>1, <1>2, <1>3 DEF BInv, OneWriter, Writing, NoJob
<1>6. FileOK'
  <2> SUFFICES ASSUME Serial, ~ torn
               PROVE  /\ file'.entries = wanted'
                      /\ \A q \in Processes : ~ Writing(q)'
    BY DEF FileOK, Fill
  <2>1. file'.entries = wanted'
    BY <1>1 DEF BInv, FileOK, JobContent, Fill
  <2>2. \A q \in Processes : ~ Writing(q)'
    BY <1>1, <1>2, <1>3 DEF BInv, OneWriter, Writing, NoJob
  <2> QED BY <2>1, <2>2
<1> QED BY <1>4, <1>5, <1>6 DEF BInv

\* What the UI alone does leaves the file and the writers as they are.
LEMMA UIKeeps ==
  ASSUME BInv, UNCHANGED <<file, job, wanted, torn>>
  PROVE  BInv'
<1>1. FunOK'
  BY DEF BInv, FunOK, Writing
<1>2. OneWriter'
  BY DEF BInv, OneWriter, Writing
<1>3. FileOK'
  BY DEF BInv, FileOK, Writing, JobContent
<1> QED BY <1>1, <1>2, <1>3 DEF BInv

-----------------------------------------------------------------------------
\* EntriesKept of SetBackendWorking and of the probes of configure.sh, for any
\* UIs, backends and number of writes.
THEOREM KeepsEntries == BackendSpec => []EntriesKept
<1>1. BackendInit => BInv
  <2> SUFFICES ASSUME BackendInit PROVE BInv
    OBVIOUS
  <2>1. /\ job = [p \in Processes |-> NoJob]
        /\ \A p \in Processes : job[p] = NoJob /\ job[p].pc = "idle"
    BY DEF BackendInit, NoJob
  <2>2. file.entries = NoEntries /\ wanted = NoEntries
    BY DEF BackendInit, Load, Unreadable
  <2>3. FunOK
    <3>1. job = [p \in Processes |-> job[p]]
      BY <2>1
    <3>2. wanted = [b \in AllBackends |-> wanted[b]]
      BY <2>2 DEF NoEntries
    <3> QED BY <2>1, <3>1, <3>2 DEF FunOK, Writing
  <2>4. OneWriter
    BY <2>1 DEF OneWriter
  <2>5. FileOK
    BY <2>1, <2>2 DEF FileOK, Writing
  <2> QED BY <2>3, <2>4, <2>5 DEF BInv
<1>2. BInv => EntriesKept
  BY DEF BInv, FileOK, EntriesKept, Load
<1>3. BInv /\ [BackendNext]_backendVars => BInv'
  <2> SUFFICES ASSUME BInv, [BackendNext]_backendVars PROVE BInv'
    OBVIOUS
  <2>1. ASSUME NEW u \in UIs, Toggle(u) PROVE BInv'
    <3> DEFINE b == SetupRows(ui[u].status)[ui[u].selection]
               entry == IF Visible(ui[u].status, b) THEN "broken" ELSE "working"
    <3>1. /\ MayWrite(u)
          /\ job' = [job EXCEPT ![u] = [pc |-> "write", backend |-> b,
                                        content |-> Updated(file, b, entry)]]
          /\ UNCHANGED <<file, wanted, torn>>
      BY <2>1 DEF Toggle
    <3>2. u \in Processes
      BY DEF Processes
    <3> HIDE DEF b, entry
    <3> QED BY <3>1, <3>2, BeginWrite
  <2>2. ASSUME NEW b \in AllBackends, NEW works \in BOOLEAN, Probe(b, works) PROVE BInv'
    BY <2>2, BeginWrite DEF Probe, Processes
  <2>3. ASSUME NEW p \in Processes, Truncate(p) PROVE BInv'
    BY <2>3, TruncateKeeps
  <2>4. ASSUME NEW p \in Processes, Fill(p) PROVE BInv'
    BY <2>4, FillKeeps
  <2>5. ASSUME NEW u \in UIs, Refresh(u) PROVE BInv'
    <3>1. ~ torn' => ~ torn /\ job[u].pc # "fill"
      BY <2>5 DEF Refresh
    <3> QED BY <2>5, <3>1, EndJob DEF Refresh, Processes
  <2>6. ASSUME NEW p \in Processes, Crash(p) PROVE BInv'
    <3>1. ~ torn' => ~ torn /\ job[p].pc # "fill"
      BY <2>6 DEF Crash
    <3> QED BY <2>6, <3>1, EndJob DEF Crash
  <2>7. ASSUME NEW u \in UIs, ToggleRuntime(u) PROVE BInv'
    BY <2>7, UIKeeps DEF ToggleRuntime
  <2>8. ASSUME NEW u \in UIs, NEW row, MoveSelection(u, row) PROVE BInv'
    BY <2>8, UIKeeps DEF MoveSelection
  <2>9. ASSUME NEW u \in UIs, NEW b, ChooseBackend(u, b) PROVE BInv'
    BY <2>9, UIKeeps DEF ChooseBackend
  <2>10. ASSUME UNCHANGED backendVars PROVE BInv'
    BY <2>10, UIKeeps DEF backendVars
  <2> QED BY <2>1, <2>2, <2>3, <2>4, <2>5, <2>6, <2>7, <2>8, <2>9, <2>10 DEF BackendNext
<1> QED BY <1>1, <1>2, <1>3, PTL DEF BackendSpec

-----------------------------------------------------------------------------
(* Backends: the choice of the wizard *)

ShownUI(u) == u = [status |-> u.status, selection |-> u.selection,
                   runtime |-> u.runtime, backend |-> u.backend]

OffersIt(u) == ShownUI(u) /\ (Options(u) # <<>> => u.backend \in Range(Options(u)))

UIsOffer == ui = [u \in UIs |-> ui[u]] /\ \A u \in UIs : OffersIt(ui[u])

LEMMA OptionsType == ASSUME NEW u PROVE Options(u) \in Seq(STRING)
<1>1. ASSUME NEW options \in Seq(STRING), NEW status
      PROVE  Shown(status, options) \in Seq(STRING)
  <2>1. PICK X : X = {b \in AllBackends : Visible(status, b)}
    OBVIOUS
  <2>2. Kept(options, X) \in Seq(STRING)
    BY KeptType
  <2> QED BY <2>1, <2>2 DEF Shown
<1>2. Kept(Llama, Installed) \in Seq(STRING) /\ Litert \in Seq(STRING)
  BY BackendAssumption, KeptType
<1> QED BY <1>1, <1>2 DEF Options, LitertOptions, LlamaOptions

\* normalizeWizardSelection chooses what is offered, if anything is.
LEMMA NormalizedOffers ==
  ASSUME NEW u, ShownUI(u)
  PROVE  OffersIt(Normalized(u))
<1>1. PICK o, v : o = Options(u) /\ v = Normalized(u)
  OBVIOUS
<1>2. o \in Seq(STRING)
  BY <1>1, OptionsType
<1>3. CASE u.backend \in Range(o)
  BY <1>1, <1>3 DEF Normalized, OffersIt
<1>4. CASE u.backend \notin Range(o)
  <2>1. v = [u EXCEPT !.backend = FirstOf(o, "cpu")]
    BY <1>1, <1>4 DEF Normalized
  <2>2. /\ ShownUI(v) /\ v.runtime = u.runtime /\ v.status = u.status
        /\ v.backend = FirstOf(o, "cpu")
    BY <2>1 DEF ShownUI
  <2>3. Options(v) = o
    BY <1>1, <2>2 DEF Options
  <2>4. o # <<>> => Head(o) \in Range(o)
    <3> SUFFICES ASSUME o # <<>> PROVE Head(o) \in Range(o)
      OBVIOUS
    <3>1. 1 \in DOMAIN o /\ Head(o) = o[1]
      BY <1>2
    <3> QED BY <3>1 DEF Range
  <2> QED BY <1>1, <2>2, <2>3, <2>4 DEF FirstOf, OffersIt
<1> QED BY <1>3, <1>4

LEMMA RefreshedOffers ==
  ASSUME NEW u, ShownUI(u), NEW content
  PROVE  OffersIt(RefreshedUI(u, content))
<1>1. PICK status : status = Load(content)
  OBVIOUS
<1>2. PICK v : v = [u EXCEPT !.status = status,
                             !.selection = Clamped(u.selection, SetupRows(status))]
  OBVIOUS
<1>3. ShownUI(v)
  BY <1>2 DEF ShownUI
<1>4. RefreshedUI(u, content) = Normalized(v)
  BY <1>1, <1>2 DEF RefreshedUI
<1> QED BY <1>3, <1>4, NormalizedOffers

LEMMA FreshOffers == \A runtime, backend, content : OffersIt(Fresh(runtime, backend, content))
<1> SUFFICES ASSUME NEW runtime, NEW backend, NEW content
             PROVE  OffersIt(Fresh(runtime, backend, content))
  OBVIOUS
<1>1. PICK u : u = [status |-> NoEntries, selection |-> 1, runtime |-> runtime,
                    backend |-> backend]
  OBVIOUS
<1>2. ShownUI(u) /\ Fresh(runtime, backend, content) = RefreshedUI(u, content)
  BY <1>1 DEF ShownUI, Fresh
<1> QED BY <1>2, RefreshedOffers

LEMMA OneUI ==
  ASSUME UIsOffer, NEW u \in UIs, NEW v, OffersIt(v), ui' = [ui EXCEPT ![u] = v]
  PROVE  UIsOffer'
<1>1. ui' = [w \in UIs |-> IF w = u THEN v ELSE ui[w]]
  BY DEF UIsOffer
<1>2. \A w \in UIs : OffersIt(ui'[w])
  BY <1>1 DEF UIsOffer
<1>3. \A w : OffersIt(w)' <=> OffersIt(w)
  BY DEF OffersIt
<1> QED BY <1>1, <1>2, <1>3 DEF UIsOffer

\* The wizard never keeps a backend that it does not offer, unless it offers
\* none: refresh, toggleWizardRuntime, cycleWizardVariant and the restoring
\* NewModel, whatever happens to the file.
THEOREM ChoosesOffered == BackendSpec => []ChoiceOffered
<1>1. BackendInit => UIsOffer
  <2> SUFFICES ASSUME BackendInit PROVE UIsOffer
    OBVIOUS
  <2>1. PICK v : v = Fresh("litert", "cpu", file)
    OBVIOUS
  <2>2. OffersIt(v) /\ ui = [u \in UIs |-> v]
    BY <2>1, FreshOffers DEF BackendInit
  <2> QED BY <2>2 DEF UIsOffer
<1>2. UIsOffer => ChoiceOffered
  BY DEF UIsOffer, OffersIt, ChoiceOffered
<1>3. UIsOffer /\ [BackendNext]_backendVars => UIsOffer'
  <2> SUFFICES ASSUME UIsOffer, [BackendNext]_backendVars PROVE UIsOffer'
    OBVIOUS
  <2>0. \A u \in UIs : OffersIt(ui[u]) /\ ShownUI(ui[u])
    BY DEF UIsOffer, OffersIt
  <2>1. ASSUME UNCHANGED ui PROVE UIsOffer'
    <3>1. \A w : OffersIt(w)' <=> OffersIt(w)
      BY DEF OffersIt
    <3> QED BY <2>1, <3>1 DEF UIsOffer
  <2>2. ASSUME NEW u \in UIs, Refresh(u) PROVE UIsOffer'
    <3>1. PICK v : v = RefreshedUI(ui[u], file)
      OBVIOUS
    <3>2. OffersIt(v)
      BY <2>0, <3>1, RefreshedOffers
    <3>3. ui' = [ui EXCEPT ![u] = v]
      BY <2>2, <3>1 DEF Refresh, UIsOffer
    <3> QED BY <3>2, <3>3, OneUI
  <2>3. ASSUME NEW p \in Processes, Crash(p) PROVE UIsOffer'
    <3>1. CASE p = Configure
      BY <2>1, <2>3, <3>1 DEF Crash
    <3>2. CASE p # Configure
      <4>1. p \in UIs
        BY <3>2 DEF Processes
      <4>2. PICK r, b : ui' = [ui EXCEPT ![p] = Fresh(r, b, file)]
        BY <2>3, <3>2 DEF Crash
      <4>3. PICK v : v = Fresh(r, b, file)
        OBVIOUS
      <4> QED BY <4>1, <4>2, <4>3, FreshOffers, OneUI
    <3> QED BY <3>1, <3>2
  <2>4. ASSUME NEW u \in UIs, NEW row, MoveSelection(u, row) PROVE UIsOffer'
    <3>1. PICK v0, v : v0 = ui[u] /\ v = [v0 EXCEPT !.selection = row]
      OBVIOUS
    <3>2. ui' = [ui EXCEPT ![u] = v]
      BY <2>4, <3>1 DEF MoveSelection, UIsOffer
    <3>3. OffersIt(v0) /\ ShownUI(v0)
      BY <2>0, <3>1
    <3>4. /\ ShownUI(v) /\ v.runtime = v0.runtime /\ v.status = v0.status
          /\ v.backend = v0.backend
      BY <3>1, <3>3 DEF ShownUI
    <3>5. OffersIt(v)
      BY <3>3, <3>4 DEF OffersIt, Options
    <3> QED BY <3>2, <3>5, OneUI
  <2>5. ASSUME NEW u \in UIs, ToggleRuntime(u) PROVE UIsOffer'
    <3>1. PICK v : v = ui[u]
      OBVIOUS
    <3>2. PICK w : w = IF v.runtime = "litert"
                       THEN [v EXCEPT !.runtime = "llamacpp",
                                      !.backend = FirstOf(LlamaOptions(v.status), "cpu")]
                       ELSE [v EXCEPT !.runtime = "litert", !.backend = "cpu"]
      OBVIOUS
    <3>3. ShownUI(w)
      BY <2>0, <3>1, <3>2 DEF ShownUI
    <3>4. ui' = [ui EXCEPT ![u] = Normalized(w)]
      BY <2>5, <3>1, <3>2 DEF ToggleRuntime
    <3>5. PICK x : x = Normalized(w)
      OBVIOUS
    <3> QED BY <3>3, <3>4, <3>5, NormalizedOffers, OneUI
  <2>6. ASSUME NEW u \in UIs, NEW b, ChooseBackend(u, b) PROVE UIsOffer'
    <3>1. PICK v, w : v = ui[u] /\ w = [v EXCEPT !.backend = b]
      OBVIOUS
    <3>2. ShownUI(w)
      BY <2>0, <3>1 DEF ShownUI
    <3>3. ui' = [ui EXCEPT ![u] = Normalized(w)]
      BY <2>6, <3>1 DEF ChooseBackend
    <3>4. PICK x : x = Normalized(w)
      OBVIOUS
    <3> QED BY <3>2, <3>3, <3>4, NormalizedOffers, OneUI
  <2> QED
    BY <2>1, <2>2, <2>3, <2>4, <2>5, <2>6
    DEF BackendNext, Toggle, Probe, Truncate, Fill, backendVars
<1> QED BY <1>1, <1>2, <1>3, PTL DEF BackendSpec

-----------------------------------------------------------------------------
(* The Launch Wizard *)

\* Whatever the wizard and its options are, for any number of runners and of
\* other clients: the loop that looks for a free port ends, the ports and the
\* numbers that it gives are new to the runners that the model knows, and a
\* runner that is made from all runners is unlike each of them.

\* A finite set of numbers, if it is not empty, has a largest one.
LEMMA LargestNumber ==
  ASSUME NEW S, IsFiniteSet(S), S \subseteq Nat, S # {}
  PROVE  Max(S) \in S /\ \A n \in S : n <= Max(S)
<1> DEFINE Bounded(T) == \E m \in T : \A n \in T : n <= m
           P == {k \in Nat : \A T \in SUBSET Nat :
                   T # {} /\ IsFiniteSet(T) /\ Cardinality(T) = k => Bounded(T)}
<1>1. 0 \in P
  BY FS_EmptySet
<1>2. ASSUME NEW k \in Nat, k \in P PROVE k + 1 \in P
  <2> SUFFICES ASSUME NEW T \in SUBSET Nat, T # {}, IsFiniteSet(T), Cardinality(T) = k + 1
               PROVE  Bounded(T)
    OBVIOUS
  <2>1. PICK x \in T : TRUE
    OBVIOUS
  <2>2. IsFiniteSet(T \ {x}) /\ Cardinality(T \ {x}) = k
    <3>1. IsFiniteSet(T \ {x}) /\ Cardinality(T \ {x}) = Cardinality(T) - 1
      BY <2>1, FS_RemoveElement
    <3> QED BY <3>1
  <2>3. CASE T \ {x} = {}
    <3>1. \A n \in T : n <= x
      BY <2>1, <2>3
    <3> QED BY <2>1, <3>1
  <2>4. CASE T \ {x} # {}
    <3>1. Bounded(T \ {x})
      BY <1>2, <2>2, <2>4
    <3>2. PICK m \in T \ {x} : \A n \in T \ {x} : n <= m
      BY <3>1
    <3>3. m \in Nat /\ x \in Nat
      BY <2>1
    <3>4. CASE x <= m
      BY <3>2, <3>4
    <3>5. CASE m <= x
      <4>1. \A n \in T : n <= x
        BY <3>2, <3>3, <3>5
      <4> QED BY <2>1, <4>1
    <3> QED BY <3>3, <3>4, <3>5
  <2> QED BY <2>3, <2>4
<1>3. Nat \subseteq P
  <2> HIDE DEF P
  <2> QED BY <1>1, <1>2, Induction
<1>4. Cardinality(S) \in Nat
  BY FS_CardinalityType
<1>5. \E m \in S : \A n \in S : n <= m
  BY <1>3, <1>4
<1>6. \E m \in S : \A n \in S : m >= n
  BY <1>5
<1>7. Max(S) \in S /\ \A n \in S : Max(S) >= n
  BY <1>6 DEF Max
<1> QED BY <1>7

\* The ports, and the numbers, of finitely many runners are finitely many.
LEMMA FinitelyUsed ==
  ASSUME NEW K, IsFiniteSet(K)
  PROVE  /\ IsFiniteSet(UsedPorts(K)) /\ Cardinality(UsedPorts(K)) <= Cardinality(K)
         /\ IsFiniteSet({r.number : r \in K})
<1> DEFINE port == [r \in K |-> r.port]
           number == [r \in K |-> r.number]
<1>1. port \in Surjection(K, UsedPorts(K))
  BY DEF Surjection, UsedPorts
<1>2. number \in Surjection(K, {r.number : r \in K})
  BY DEF Surjection
<1> HIDE DEF port, number
<1>3. IsFiniteSet(UsedPorts(K)) /\ Cardinality(UsedPorts(K)) <= Cardinality(K)
  BY <1>1, FS_Surjection
<1>4. IsFiniteSet({r.number : r \in K})
  BY <1>2, FS_Surjection
<1> QED BY <1>3, <1>4

\* The loop of nextAvailableWizardPort ends at a port that no known runner has.
LEMMA FreePort ==
  ASSUME NEW K, IsFiniteSet(K), NEW port \in Nat
  PROVE  /\ NextAvailable(port, K) \in Nat
         /\ NextAvailable(port, K) \notin UsedPorts(K)
<1> DEFINE last == port + Cardinality(K)
           free == (port .. last) \ UsedPorts(K)
<1>0. Cardinality(K) \in Nat
  BY FS_CardinalityType
<1>1. free # {}
  <2> SUFFICES ASSUME port .. last \subseteq UsedPorts(K) PROVE FALSE
    OBVIOUS
  <2>1. Cardinality(port .. last) = Cardinality(K) + 1
    <3>1. Cardinality(port .. last) = IF port > last THEN 0 ELSE last - port + 1
      BY <1>0, FS_Interval
    <3> QED BY <1>0, <3>1
  <2>2. /\ IsFiniteSet(UsedPorts(K)) /\ Cardinality(UsedPorts(K)) <= Cardinality(K)
        /\ Cardinality(UsedPorts(K)) \in Nat
    BY FinitelyUsed, FS_CardinalityType
  <2>3. Cardinality(port .. last) <= Cardinality(UsedPorts(K))
    BY <2>2, FS_Subset
  <2> HIDE DEF last
  <2> QED BY <1>0, <2>1, <2>2, <2>3
<1>2. PICK n \in free : \A m \in free : n <= m
  <2>1. free \subseteq Nat
    BY <1>0
  <2> HIDE DEF free
  <2> QED BY <1>1, <2>1, LeastNumber
<1>3. \A m \in port .. n - 1 : m \in UsedPorts(K)
  BY <1>0, <1>2
<1>4. \E k \in port .. last : /\ k \notin UsedPorts(K)
                              /\ \A m \in port .. k - 1 : m \in UsedPorts(K)
  BY <1>2, <1>3
<1>5. NextAvailable(port, K) \in (port .. last) \ UsedPorts(K)
  BY <1>4 DEF NextAvailable
<1> QED BY <1>0, <1>5

\* The port of a new runner is one that no known runner has, whatever the
\* overrides are.
LEMMA FreshPort ==
  ASSUME NEW w, NEW K, IsFiniteSet(K)
  PROVE  SpecPort(w, K) \in Nat \ UsedPorts(K)
<1>1. DefaultPort(w.role) \in Nat
  BY DEF DefaultPort
<1>2. PreferredPort(w, K) \in Nat
  <2>1. CASE w.overrides["port"] \in Range(PortNames)
    <3>1. \E n \in DOMAIN PortNames : PortNames[n] = w.overrides["port"]
      BY <2>1 DEF Range
    <3>2. PortOf(w.overrides["port"]) \in DOMAIN PortNames
      BY <3>1 DEF PortOf
    <3>3. DOMAIN PortNames \subseteq Nat
      BY DEF PortNames
    <3> QED BY <2>1, <3>2, <3>3 DEF PreferredPort
  <2>2. CASE w.overrides["port"] \notin Range(PortNames)
    BY <1>1, <2>2, FreePort DEF PreferredPort
  <2> QED BY <2>1, <2>2
<1> QED BY <1>2, FreePort DEF SpecPort

\* The number of a new runner is larger than those of its role.
LEMMA FreshNumber ==
  ASSUME NEW role, NEW K, IsFiniteSet(K), \A r \in K : r.number \in Nat
  PROVE  /\ NextNumber(role, K) \in Nat
         /\ \A r \in K : r.role = role => r.number # NextNumber(role, K)
<1> DEFINE inRole == {k \in K : k.role = role}
           numbers == {0} \cup {r.number : r \in inRole}
<1>1. IsFiniteSet(inRole)
  BY FS_Subset
<1>2. IsFiniteSet({r.number : r \in inRole})
  <2> HIDE DEF inRole
  <2> QED BY <1>1, FinitelyUsed
<1>3. IsFiniteSet({r.number : r \in inRole} \cup {0})
  <2> HIDE DEF inRole
  <2> QED BY <1>2, FS_AddElement
<1>4. IsFiniteSet(numbers) /\ numbers \subseteq Nat /\ numbers # {}
  <2>1. numbers = {r.number : r \in inRole} \cup {0}
    OBVIOUS
  <2>2. numbers \subseteq Nat /\ numbers # {}
    OBVIOUS
  <2> HIDE DEF numbers, inRole
  <2> QED BY <1>3, <2>1, <2>2
<1>5. \A r \in K : r.role = role => r.number \in numbers
  OBVIOUS
<1>6. NextNumber(role, K) = 1 + Max(numbers)
  BY DEF NextNumber
<1> HIDE DEF numbers
<1>7. Max(numbers) \in Nat /\ \A n \in numbers : n <= Max(numbers)
  BY <1>4, LargestNumber
<1> QED BY <1>5, <1>6, <1>7

-----------------------------------------------------------------------------
\* A runner has a port and a number.
RunnerOK(r) == /\ DOMAIN r = {"runtime", "role", "number", "port", "current"}
               /\ r.number \in Nat /\ r.port \in Nat

Differ(r, s) == r.port # s.port /\ (r.role = s.role => r.number # s.number)

KnownOK == /\ IsFiniteSet(runners) /\ IsFiniteSet(snapshot)
           /\ \A r \in runners \cup snapshot \cup pending : RunnerOK(r)

\* The runner that is being created, if it was made from all there are, differs
\* from each of them until it is one of them.
PendingOK == /\ \A p, q \in pending : p = q
             /\ \A p \in pending \ runners :
                  p.current => \A r \in runners : Differ(p, r)

WInv == KnownOK /\ PendingOK /\ RunnersDistinct

LEMMA WizardInitInv == WizardInit => WInv
<1> SUFFICES ASSUME WizardInit PROVE WInv
  OBVIOUS
<1>1. KnownOK
  BY FS_EmptySet DEF WizardInit, KnownOK
<1> QED BY <1>1 DEF WizardInit, WInv, PendingOK, RunnersDistinct

\* A step that leaves the runners alone.
LEMMA RunnersKept == WInv /\ UNCHANGED <<snapshot, runners, pending>> => WInv'
BY DEF WInv, KnownOK, PendingOK, RunnersDistinct

LEMMA StartRunnerKeeps == WInv /\ StartRunner => WInv'
<1> SUFFICES ASSUME WInv, StartRunner PROVE WInv'
  OBVIOUS
<1>1. PICK p : /\ p = [runtime |-> wizard.runtime, role |-> wizard.role,
                       number |-> NextNumber(wizard.role, snapshot),
                       port |-> SpecPort(wizard, snapshot), current |-> snapshot = runners]
               /\ pending' = {p}
  BY DEF StartRunner
<1>2. /\ p.role = wizard.role /\ p.number = NextNumber(wizard.role, snapshot)
      /\ p.port = SpecPort(wizard, snapshot) /\ p.current = (snapshot = runners)
      /\ DOMAIN p = {"runtime", "role", "number", "port", "current"}
  BY <1>1
<1>3. UNCHANGED <<snapshot, runners>>
  BY DEF StartRunner
<1>4. IsFiniteSet(snapshot) /\ \A r \in snapshot : r.number \in Nat /\ r.port \in Nat
  BY DEF WInv, KnownOK, RunnerOK
<1>5. /\ p.number \in Nat /\ p.port \in Nat
      /\ \A r \in snapshot : Differ(p, r)
  <2>1. p.port \in Nat \ UsedPorts(snapshot)
    BY <1>2, <1>4, FreshPort
  <2>2. /\ p.number \in Nat
        /\ \A r \in snapshot : r.role = p.role => r.number # p.number
    BY <1>2, <1>4, FreshNumber
  <2> QED BY <2>1, <2>2 DEF Differ, UsedPorts
<1>6. RunnerOK(p)
  BY <1>2, <1>5 DEF RunnerOK
<1>7. KnownOK'
  BY <1>1, <1>3, <1>6 DEF WInv, KnownOK
<1>8. PendingOK'
  BY <1>1, <1>2, <1>3, <1>5 DEF PendingOK
<1>9. RunnersDistinct'
  BY <1>3 DEF WInv, RunnersDistinct
<1> QED BY <1>7, <1>8, <1>9 DEF WInv

LEMMA CreateRunnerKeeps == WInv /\ CreateRunner => WInv'
<1> SUFFICES ASSUME WInv, CreateRunner PROVE WInv'
  OBVIOUS
<1>1. PICK p : pending = {p}
  <2>1. PICK p \in pending : TRUE
    BY DEF CreateRunner
  <2>2. pending = {p}
    BY <2>1 DEF WInv, PendingOK
  <2> QED BY <2>2
<1>2. runners' = runners \cup {p} /\ UNCHANGED <<snapshot, pending>>
  BY <1>1 DEF CreateRunner
<1>3. p \notin runners
  BY <1>1 DEF CreateRunner, SameId
<1>4. p.current => \A r \in runners : Differ(p, r) /\ Differ(r, p)
  BY <1>1, <1>3 DEF WInv, PendingOK, Differ
<1>5. KnownOK'
  <2>1. IsFiniteSet(runners')
    BY <1>2, FS_AddElement DEF WInv, KnownOK
  <2> QED BY <1>1, <1>2, <2>1 DEF WInv, KnownOK
<1>6. PendingOK'
  BY <1>1, <1>2 DEF WInv, PendingOK
<1>7. RunnersDistinct'
  BY <1>2, <1>4 DEF WInv, RunnersDistinct, Differ
<1> QED BY <1>5, <1>6, <1>7 DEF WInv

LEMMA AnswerKeeps == WInv /\ (Answer \/ RefreshRunners) => WInv'
BY DEF WInv, Answer, RefreshRunners, KnownOK, PendingOK, RunnersDistinct

LEMMA AddRunnerKeeps ==
  ASSUME NEW role \in Roles, NEW port \in 1 .. MaxRunners + 1
  PROVE  WInv /\ AddRunner(role, port) => WInv'
<1> SUFFICES ASSUME WInv, AddRunner(role, port) PROVE WInv'
  OBVIOUS
<1>1. PICK a : /\ a = [runtime |-> "litert", role |-> role, port |-> port,
                       number |-> NextNumber(role, runners), current |-> TRUE]
               /\ runners' = runners \cup {a}
  BY DEF AddRunner
<1>2. /\ a.role = role /\ a.number = NextNumber(role, runners) /\ a.port = port
      /\ DOMAIN a = {"runtime", "role", "number", "port", "current"}
  BY <1>1
<1>3. /\ snapshot' = snapshot
      /\ pending' = {[p EXCEPT !.current = FALSE] : p \in pending \ runners}
                       \cup (pending \cap runners)
  BY DEF AddRunner
<1>4. IsFiniteSet(runners) /\ \A r \in runners : r.number \in Nat
  BY DEF WInv, KnownOK, RunnerOK
<1>5. /\ a.number \in Nat /\ a.port \in Nat
      /\ \A r \in runners : Differ(a, r) /\ Differ(r, a)
  <2>1. a.port \in Nat \ UsedPorts(runners)
    BY <1>2, MaxRunnersAssumption DEF AddRunner
  <2>2. /\ a.number \in Nat
        /\ \A r \in runners : r.role = a.role => r.number # a.number
    BY <1>2, <1>4, FreshNumber
  <2> QED BY <2>1, <2>2 DEF Differ, UsedPorts
<1>6. \A p \in pending : /\ RunnerOK([p EXCEPT !.current = FALSE])
                         /\ [p EXCEPT !.current = FALSE].current = FALSE
  BY DEF WInv, KnownOK, RunnerOK
<1>7. KnownOK'
  <2>1. RunnerOK(a)
    BY <1>2, <1>5 DEF RunnerOK
  <2>2. IsFiniteSet(runners')
    BY <1>1, <1>4, FS_AddElement
  <2>3. \A p \in pending' : RunnerOK(p)
    BY <1>3, <1>6 DEF WInv, KnownOK
  <2> QED BY <1>1, <1>3, <2>1, <2>2, <2>3 DEF WInv, KnownOK
<1>8. PendingOK'
  <2>1. \A p, q \in pending' : p = q
    BY <1>3 DEF WInv, PendingOK
  <2>2. \A p \in pending' \ runners' : p.current = FALSE
    BY <1>1, <1>3, <1>6
  <2> QED BY <2>1, <2>2 DEF PendingOK
<1>9. RunnersDistinct'
  <2>1. \A r, s \in {k \in runners : k.current} : r # s => Differ(r, s)
    BY DEF WInv, RunnersDistinct, Differ
  <2>2. \A r, s \in {k \in runners' : k.current} : r # s => Differ(r, s)
    <3>1. /\ runners' = runners \cup {a}
          /\ \A r \in runners : Differ(a, r) /\ Differ(r, a)
      BY <1>1, <1>5
    <3> QED BY <2>1, <3>1
  <2> QED BY <2>2 DEF RunnersDistinct, Differ
<1> QED BY <1>7, <1>8, <1>9 DEF WInv

LEMMA WizardNextKeeps == WInv /\ [WizardNext]_wizardVars => WInv'
<1> SUFFICES ASSUME WInv, [WizardNext]_wizardVars PROVE WInv'
  OBVIOUS
<1>1. CASE \/ toggleWizardRuntime \/ EditOption \/ UNCHANGED wizardVars
           \/ \E b \in WizardBackends : SetBackend(b)
           \/ \E role \in Roles : setWizardRole(role)
           \/ \E args \in EditedLines(wizard, snapshot) : SaveCommand(args)
  <2>1. UNCHANGED <<snapshot, runners, pending>>
    BY <1>1 DEF toggleWizardRuntime, EditOption, ResetOption, SaveOption, SetBackend,
                setWizardRole, SaveCommand, SetWizard, wizardVars
  <2> QED BY <2>1, RunnersKept
<1>2. CASE StartRunner
  BY <1>2, StartRunnerKeeps
<1>3. CASE CreateRunner
  BY <1>3, CreateRunnerKeeps
<1>4. CASE Answer \/ RefreshRunners
  BY <1>4, AnswerKeeps
<1>5. CASE \E role \in Roles, port \in 1 .. MaxRunners + 1 : AddRunner(role, port)
  BY <1>5, AddRunnerKeeps
<1> QED BY <1>1, <1>2, <1>3, <1>4, <1>5 DEF WizardNext

\* Two runners that the wizard made while it knew all of them, or that another
\* client added at a free port, have neither a port nor, in one role, a number
\* in common.
THEOREM DistinctRunners == WizardSpec => []RunnersDistinct
<1>1. WizardSpec => []WInv
  BY WizardInitInv, WizardNextKeeps, PTL DEF WizardSpec
<1>2. WInv => RunnersDistinct
  BY DEF WInv
<1> QED BY <1>1, <1>2, PTL
=============================================================================
