------------------------------ MODULE Backends ------------------------------
(***************************************************************************)
(* The file of backends that work on this machine                          *)
(* (internal/runtimeconfig/config.go), the terminal UIs that read and      *)
(* toggle it (Setup and Launch Wizard of internal/tui/model.go) and the    *)
(* configure script that writes its probes into it.                        *)
(*                                                                         *)
(* A write reads the whole file, truncates it and fills it: a reader may   *)
(* find it empty, and a crash may leave it so.                             *)
(***************************************************************************)
EXTENDS Naturals, Sequences, Functions, Selection

CONSTANTS UIs,        \* terminal UIs that share the file
          Litert,     \* the litert backends, a sequence; the first is "cpu"
          Llama,      \* the llama.cpp backends, in the order of the options
          Installed,  \* those of Llama for which a build is installed
          Serial,     \* whether writers wait for each other
          MaxWrites   \* bound on the writes

ASSUME BackendAssumption == Litert \in Seq(STRING) /\ Llama \in Seq(STRING)

AllBackends == Range(Litert) \cup Range(Llama)

VARIABLES
  file,   \* what is there, and the entry of each backend if it can be read
  ui,     \* what each UI shows
  job,    \* the write that each process is in
  wanted, \* the last entry that a finished write gave each backend
  torn,   \* whether a write was ever cut off
  writes  \* number of writes

backendVars == <<file, ui, job, wanted, torn, writes>>

Configure == "configure"
Processes == UIs \cup {Configure}

NoEntries == [b \in AllBackends |-> "unset"]
Unreadable(kind) == [kind |-> kind, entries |-> NoEntries]
NoJob == [pc |-> "idle"]

\* Status.Visible. A file that is missing or unreadable hides nothing.
Load(content) == content.entries
Visible(status, b) == status[b] # "broken"

Shown(status, options) == Kept(options, {b \in AllBackends : Visible(status, b)})

\* availableLlamaTypeOptions: of the builds that are installed, which refresh
\* filters by the status.
LlamaOptions(status) == Shown(status, Kept(Llama, Installed))
LitertOptions(status) == Shown(status, Litert)
Options(u) == IF u.runtime = "litert" THEN LitertOptions(u.status) ELSE LlamaOptions(u.status)

SetupRows(status) == Litert \o LlamaOptions(status)

FirstOf(options, otherwise) == IF options = <<>> THEN otherwise ELSE Head(options)

\* normalizeWizardSelection. Mutant: a llama.cpp backend is kept.
XNormalized(u) ==
  IF u.runtime = "llamacpp" \/ u.backend \in Range(Options(u)) THEN u
  ELSE [u EXCEPT !.backend = FirstOf(Options(u), "cpu")]

Normalized(u) ==
  IF u.backend \in Range(Options(u)) THEN u
  ELSE [u EXCEPT !.backend = FirstOf(Options(u), "cpu")]

Clamped(index, rows) == IF index > Len(rows) THEN Len(rows) ELSE index

\* refresh, as far as the backends go.
RefreshedUI(u, content) ==
  LET status == Load(content) IN
  Normalized([u EXCEPT !.status = status,
                       !.selection = Clamped(@, SetupRows(status))])

\* NewModel restores what the store holds of the wizard.
Fresh(runtime, backend, content) ==
  RefreshedUI([status |-> NoEntries, selection |-> 1, runtime |-> runtime,
             backend |-> backend], content)

\* SetBackendWorking. Mutant: the other backends are dropped.
XUpdated(content, b, entry) ==
  [kind |-> "full", entries |-> [NoEntries EXCEPT ![b] = entry]]

Updated(content, b, entry) ==
  [kind |-> "full", entries |-> [content.entries EXCEPT ![b] = entry]]

-----------------------------------------------------------------------------
BackendInit ==
  /\ file = Unreadable("absent")
  /\ ui = [u \in UIs |-> Fresh("litert", "cpu", file)]
  /\ job = [p \in Processes |-> NoJob]
  /\ wanted = Load(file)
  /\ torn = FALSE
  /\ writes = 0

MayWrite(p) == /\ job[p] = NoJob /\ writes < MaxWrites
               /\ Serial => \A q \in Processes : job[q] = NoJob

\* toggleSelectedSetupBackend reads the file; one it cannot decode is an error.
Toggle(u) ==
  LET b == SetupRows(ui[u].status)[ui[u].selection]
      entry == IF Visible(ui[u].status, b) THEN "broken" ELSE "working"
  IN /\ MayWrite(u)
     /\ file.kind # "empty"
     /\ job' = [job EXCEPT ![u] = [pc |-> "write", backend |-> b,
                                   content |-> Updated(file, b, entry)]]
     /\ writes' = writes + 1
     /\ UNCHANGED <<file, ui, wanted, torn>>

\* A probe of the configure script; an empty file is a new one to it.
Probe(b, works) ==
  /\ MayWrite(Configure)
  /\ job' = [job EXCEPT ![Configure] =
       [pc |-> "write", backend |-> b,
        content |-> Updated(file, b, IF works THEN "working" ELSE "broken")]]
  /\ writes' = writes + 1
  /\ UNCHANGED <<file, ui, wanted, torn>>

Truncate(p) == /\ job[p].pc = "write"
               /\ file' = Unreadable("empty")
               /\ job' = [job EXCEPT ![p].pc = "fill"]
               /\ UNCHANGED <<ui, wanted, torn, writes>>

Fill(p) == /\ job[p].pc = "fill"
           /\ file' = job[p].content
           /\ wanted' = [wanted EXCEPT ![job[p].backend] = job[p].content.entries[job[p].backend]]
           /\ job' = [job EXCEPT ![p] = IF p = Configure THEN NoJob ELSE [pc |-> "refresh"]]
           /\ UNCHANGED <<ui, torn, writes>>

\* The end of a toggle, and every other refresh.
Refresh(u) == /\ job[u].pc \in {"idle", "refresh"}
              /\ ui' = [ui EXCEPT ![u] = RefreshedUI(@, file)]
              /\ job' = [job EXCEPT ![u] = NoJob]
              /\ UNCHANGED <<file, wanted, torn, writes>>

\* A process ends; a UI starts again with what the store holds of the wizard.
Crash(p) ==
  /\ torn' = (torn \/ job[p].pc = "fill")
  /\ job' = [job EXCEPT ![p] = NoJob]
  /\ IF p = Configure THEN UNCHANGED ui
     ELSE \E r \in {"litert", "llamacpp"} :
            \E b \in Range(IF r = "litert" THEN Litert ELSE Llama) :
              ui' = [ui EXCEPT ![p] = Fresh(r, b, file)]
  /\ UNCHANGED <<file, wanted, writes>>

MoveSelection(u, row) ==
  /\ job[u] = NoJob
  /\ row \in 1 .. Len(SetupRows(ui[u].status))
  /\ row \in {ui[u].selection - 1, ui[u].selection + 1}
  /\ ui' = [ui EXCEPT ![u].selection = row]
  /\ UNCHANGED <<file, job, wanted, torn, writes>>

\* toggleWizardRuntime.
ToggleRuntime(u) ==
  LET v == ui[u]
      w == IF v.runtime = "litert"
           THEN [v EXCEPT !.runtime = "llamacpp",
                          !.backend = FirstOf(LlamaOptions(v.status), "cpu")]
           ELSE [v EXCEPT !.runtime = "litert", !.backend = "cpu"]
  IN /\ job[u] = NoJob
     /\ ui' = [ui EXCEPT ![u] = Normalized(w)]
     /\ UNCHANGED <<file, job, wanted, torn, writes>>

\* cycleWizardVariant and setWizardVariantFromMouse.
ChooseBackend(u, b) ==
  /\ job[u] = NoJob
  /\ b \in Range(Options(ui[u]))
  /\ ui' = [ui EXCEPT ![u] = Normalized([ui[u] EXCEPT !.backend = b])]
  /\ UNCHANGED <<file, job, wanted, torn, writes>>

BackendNext ==
  \/ \E u \in UIs : \/ Toggle(u) \/ Refresh(u) \/ ToggleRuntime(u)
                    \/ \E row \in 1 .. Len(SetupRows(ui[u].status)) : MoveSelection(u, row)
                    \/ \E b \in AllBackends : ChooseBackend(u, b)
  \/ \E b \in AllBackends, works \in BOOLEAN : Probe(b, works)
  \/ \E p \in Processes : Truncate(p) \/ Fill(p) \/ Crash(p)

BackendSpec == BackendInit /\ [][BackendNext]_backendVars

-----------------------------------------------------------------------------
(* Properties *)

\* The wizard never keeps a backend that it does not offer, after toggles,
\* probes, restarts and changes of the runtime, unless it offers none.
ChoiceOffered ==
  \A u \in UIs : Options(ui[u]) # <<>> => ui[u].backend \in Range(Options(ui[u]))

\* Writes that wait for each other and are not cut off keep the entries of all
\* the backends they are not about.
EntriesKept ==
  Serial /\ ~ torn /\ (\A p \in Processes : job[p].pc \in {"idle", "refresh"})
    => Load(file) = wanted
=============================================================================
