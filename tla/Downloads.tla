----------------------------- MODULE Downloads ------------------------------
(***************************************************************************)
(* The model catalog: internal/catalog/catalog.go.                         *)
(*                                                                         *)
(* HTTP and WebSocket handlers and the TUI list the catalog and download   *)
(* models, each in a goroutine of its own.  The states of the entries are  *)
(* guarded by Catalog.mu; the download itself is not.  It writes to a file *)
(* next to the target, whose name ends in .part, and renames it when it is *)
(* complete.                                                               *)
(*                                                                         *)
(* A file is the set of its chunks that hold the model's data; the others  *)
(* are missing or zero.  An open file is known by the name it has now: the *)
(* rename of another download turns "part" into "target", and "target"     *)
(* into "unlinked".  A worker whose body ends without an error has         *)
(* received all chunks.                                                    *)
(***************************************************************************)
EXTENDS Naturals

CONSTANTS Models,     \* ids of the catalog
          Workers,    \* goroutines that download
          Chunks,     \* number of chunks of a model
          MaxCrashes, \* bound on the number of restarts
          None        \* no file, no model

ASSUME ChunksAssumption  == Chunks \in Nat \ {0}
ASSUME CrashesAssumption == MaxCrashes \in Nat
ASSUME NoneAssumption    == None \notin Models /\ \A f \in SUBSET (1 .. Chunks) : f # None

VARIABLES
  state,   \* Entry.State of each model
  part,    \* the .part file of each model, None when there is none
  target,  \* the file at TargetPath of each model
  step,    \* where each worker is
  model,   \* the model it downloads
  fd,      \* the file it has open
  written, \* the chunks it has written
  shared,  \* models of which two downloads used the .part file together (history)
  crashes

vars == <<state, part, target, step, model, fd, written, shared, crashes>>

States == {"missing", "present", "downloading", "error"}
Steps  == {"idle", "request", "copy", "rename", "failed", "succeeded"}
Names  == {"none", "part", "target", "unlinked"}
All    == 1 .. Chunks
File   == SUBSET All

\* NewDefault adds the entries as missing and refreshes them.
Opened == [m \in Models |-> IF target[m] # None THEN "present" ELSE "missing"]

Init ==
  /\ part = [m \in Models |-> None]
  /\ target \in [Models -> {None, All}]
  /\ state = Opened
  /\ step = [w \in Workers |-> "idle"]
  /\ model = [w \in Workers |-> None]
  /\ fd = [w \in Workers |-> "none"]
  /\ written = [w \in Workers |-> 0]
  /\ shared = {} /\ crashes = 0

-----------------------------------------------------------------------------
(* Entries *)

Refreshed(m) ==
  IF target[m] # None THEN "present"
  ELSE IF state[m] \notin {"downloading", "error"} THEN "missing"
  ELSE state[m]

Entries ==
  /\ state' = [m \in Models |-> Refreshed(m)]
  /\ UNCHANGED <<part, target, step, model, fd, written, shared, crashes>>

-----------------------------------------------------------------------------
(* Download *)

Download(w, m) ==
  /\ step[w] = "idle"
  /\ state' = [state EXCEPT ![m] = "downloading"]
  /\ step' = [step EXCEPT ![w] = "request"]
  /\ model' = [model EXCEPT ![w] = m]
  /\ UNCHANGED <<part, target, fd, written, shared, crashes>>

\* The directory, the request, its status or the open of the file is an error.
RequestFails(w) ==
  /\ step[w] = "request"
  /\ step' = [step EXCEPT ![w] = "failed"]
  /\ UNCHANGED <<state, part, target, model, fd, written, shared, crashes>>

\* Another download of the model is between the open and the rename.
Sharing(w) == \E v \in Workers \ {w} :
                /\ model[v] = model[w]
                /\ fd[v] = "part" \/ step[v] = "rename"

\* Mutant: the target itself is written.
OpenTarget(w) ==
  /\ step[w] = "request"
  /\ target' = [target EXCEPT ![model[w]] = {}]
  /\ fd' = [fd EXCEPT ![w] = "target"]
  /\ written' = [written EXCEPT ![w] = 0]
  /\ step' = [step EXCEPT ![w] = "copy"]
  /\ UNCHANGED <<state, part, model, shared, crashes>>

\* O_CREATE and O_TRUNC: a file that is there is emptied, whoever writes to it.
OpenFile(w) ==
  /\ step[w] = "request"
  /\ part' = [part EXCEPT ![model[w]] = {}]
  /\ fd' = [fd EXCEPT ![w] = "part"]
  /\ written' = [written EXCEPT ![w] = 0]
  /\ shared' = IF Sharing(w) THEN shared \cup {model[w]} ELSE shared
  /\ step' = [step EXCEPT ![w] = "copy"]
  /\ UNCHANGED <<state, target, model, crashes>>

\* io.Copy writes the next chunk at the offset of this worker.
Copy(w) ==
  LET m == model[w]
      k == written[w] + 1
  IN  /\ step[w] = "copy" /\ written[w] < Chunks
      /\ written' = [written EXCEPT ![w] = k]
      /\ part' = IF fd[w] = "part" THEN [part EXCEPT ![m] = @ \cup {k}] ELSE part
      /\ target' = IF fd[w] = "target" THEN [target EXCEPT ![m] = @ \cup {k}] ELSE target
      /\ UNCHANGED <<state, step, model, fd, shared, crashes>>

\* The copy ends, with or without an error, and the file is closed.
CopyEnds(w) ==
  /\ step[w] = "copy"
  /\ \/ written[w] = Chunks /\ step' = [step EXCEPT ![w] = "rename"]
     \/ step' = [step EXCEPT ![w] = "failed"]
  /\ fd' = [fd EXCEPT ![w] = "none"]
  /\ UNCHANGED <<state, part, target, model, written, shared, crashes>>

Renamed(name) == CASE name = "part"   -> "target"
                   [] name = "target" -> "unlinked"
                   [] OTHER           -> name

\* os.Rename replaces a target that is there.
Rename(w) ==
  LET m == model[w]
  IN  /\ step[w] = "rename" /\ part[m] # None
      /\ target' = [target EXCEPT ![m] = part[m]]
      /\ part' = [part EXCEPT ![m] = None]
      /\ fd' = [v \in Workers |-> IF model[v] = m THEN Renamed(fd[v]) ELSE fd[v]]
      /\ step' = [step EXCEPT ![w] = "succeeded"]
      /\ UNCHANGED <<state, model, written, shared, crashes>>

\* The file was renamed by another download, or any other error.
RenameFails(w) ==
  /\ step[w] = "rename"
  /\ step' = [step EXCEPT ![w] = "failed"]
  /\ UNCHANGED <<state, part, target, model, fd, written, shared, crashes>>

\* Mutant: the error is returned but not recorded.
ResultUnrecorded(w) == IF step[w] = "succeeded" THEN "present" ELSE state[model[w]]

Result(w) == IF step[w] = "succeeded" THEN "present" ELSE "error"

\* The last critical section: the result is written to the entry.
Return(w) ==
  /\ step[w] \in {"failed", "succeeded"}
  /\ state' = [state EXCEPT ![model[w]] = Result(w)]
  /\ step' = [step EXCEPT ![w] = "idle"]
  /\ model' = [model EXCEPT ![w] = None]
  /\ written' = [written EXCEPT ![w] = 0]
  /\ UNCHANGED <<part, target, fd, shared, crashes>>

\* The process ends and starts again with a new catalog; files stay as they are.
Restart ==
  /\ crashes < MaxCrashes
  /\ crashes' = crashes + 1
  /\ state' = Opened
  /\ step' = [w \in Workers |-> "idle"]
  /\ model' = [w \in Workers |-> None]
  /\ fd' = [w \in Workers |-> "none"]
  /\ written' = [w \in Workers |-> 0]
  /\ UNCHANGED <<part, target, shared>>

-----------------------------------------------------------------------------
Downloading(w) == \/ RequestFails(w) \/ OpenFile(w) \/ Copy(w) \/ CopyEnds(w)
                  \/ Rename(w) \/ RenameFails(w) \/ Return(w)

Next ==
  \/ Entries \/ Restart
  \/ \E w \in Workers : Downloading(w) \/ \E m \in Models : Download(w, m)

Spec == Init /\ [][Next]_vars

-----------------------------------------------------------------------------
(* Properties *)

\* Every variable has the values the Go types allow.
TypeOK ==
  /\ state \in [Models -> States]
  /\ part \in [Models -> File \cup {None}] /\ target \in [Models -> File \cup {None}]
  /\ step \in [Workers -> Steps] /\ model \in [Workers -> Models \cup {None}]
  /\ fd \in [Workers -> Names] /\ written \in [Workers -> 0 .. Chunks]
  /\ shared \subseteq Models /\ crashes \in Nat

\* Unless two downloads of a model were between the open of its .part file and
\* the rename together, whatever is at its target path is the complete model:
\* across failed transfers, restarts in the middle of a copy, left-over .part
\* files and repeated downloads.
AloneIsComplete == \A m \in Models \ shared : target[m] \in {None, All}

\* An entry says "downloading" only while a download of it runs, however the
\* results of several downloads and listings follow each other.
DownloadingIsActive ==
  \A m \in Models :
    state[m] = "downloading" => \E w \in Workers : model[w] = m /\ step[w] # "idle"

=============================================================================
