------------------------------- MODULE Wizard -------------------------------
(***************************************************************************)
(* The Launch Wizard (internal/tui/model.go): the choice of a runtime, a   *)
(* backend, a role and options, the command line that they make, its       *)
(* editor, and the runner that is created from them.                       *)
(*                                                                         *)
(* A command line is a sequence of tokens.  Of the options of the code's   *)
(* catalog there is one of each kind: a text, a number and a switch of the *)
(* litert runtime; a text, one for GPU backends only and one for the       *)
(* embedding role only of llama.cpp; and one that is in no catalog.        *)
(***************************************************************************)
EXTENDS Naturals, Sequences, FiniteSets, SequencesExt

CONSTANTS Typed,     \* what the user may type into the editor of each option,
                     \* not empty where the option takes a value
          Lines,     \* tokens that the user may add to a command line
          MaxRunners \* bound on the runners

ASSUME MaxRunnersAssumption == MaxRunners \in Nat

Roles    == {"main", "embedding"}
WizardBackends == {"cpu", "gpu"}

VARIABLES
  wizard,   \* the fields of Model that the wizard edits
  snapshot, \* the runners that the model knows
  runners,  \* the runners of the supervisor
  pending   \* the runner that a command is creating

wizardVars == <<wizard, snapshot, runners, pending>>

\* The options of wizardOptionCatalog, in its order.
Option(id, runtime, gpu, roles, flag, kind) ==
  [id |-> id, runtime |-> runtime, gpu |-> gpu, roles |-> roles, flag |-> flag, kind |-> kind]
Catalog ==
  << Option("host", "litert", FALSE, Roles, "--host", "string"),
     Option("port", "litert", FALSE, Roles, "--port", "int"),
     Option("verbose", "litert", FALSE, Roles, "--verbose", "bool"),
     Option("ctx-size", "llamacpp", FALSE, Roles, "-c", "int"),
     Option("gpu-layers", "llamacpp", TRUE, Roles, "-ngl", "string"),
     Option("embedding", "llamacpp", FALSE, {"embedding"}, "--embedding", "bool") >>
Custom == Option("x", "", FALSE, Roles, "-x", "string") \* wizardCustomOption

OptionIds   == {Catalog[i].id : i \in DOMAIN Catalog} \cup {Custom.id}
Fixed == {"-m", "--alias", "--host", "--port"} \* wizardFixedCommandFlagHasValue
Flags == {Catalog[i].flag : i \in DOMAIN Catalog} \cup Fixed \cup {Custom.flag, "--n-gpu-layers"}
NoValue == "no override"

Applicable(w) ==
  SelectSeq(Catalog, LAMBDA o : /\ o.runtime = w.runtime
                                /\ o.gpu => w.backend = "gpu"
                                /\ w.role \in o.roles)
AllOptions(w) == [i \in DOMAIN w.extras |-> Custom] \o Applicable(w)

Overridden(w, id) == w.overrides[id] # NoValue

-----------------------------------------------------------------------------
(* The command line *)

PortNames == <<"9482", "9483", "9484", "9485", "9486", "9487">>
DefaultPort(role) == IF role = "main" THEN 1 ELSE 2 \* defaultPortForRole
PortOf(name) == CHOOSE n \in DOMAIN PortNames : PortNames[n] = name

UsedPorts(known) == {r.port : r \in known}

\* nextAvailableWizardPort: the loop ends at the first port that is not used.
NextAvailable(port, known) ==
  CHOOSE n \in port .. port + Cardinality(known) :
    /\ n \notin UsedPorts(known)
    /\ \A m \in port .. n - 1 : m \in UsedPorts(known)

\* nextWizardPort, and the port that applyWizardOptionSpecOverrides takes if the
\* override is one.
PreferredPort(w, known) ==
  IF w.overrides["port"] \in Range(PortNames) THEN PortOf(w.overrides["port"])
  ELSE NextAvailable(DefaultPort(w.role), known)

\* Mutant: the port of an override is not moved.
XSpecPort(w, known) == PreferredPort(w, known)

\* deconflictWizardPort.
SpecPort(w, known) == NextAvailable(PreferredPort(w, known), known)

SpecHost(w) == IF w.overrides["host"] \in {NoValue, ""} THEN "local" ELSE w.overrides["host"]

\* removeFlag, with the value of an option that takes one.
RemoveFlag(args, o) ==
  LET dropped == {i \in DOMAIN args : args[i] = o.flag}
      gone == dropped \cup IF o.kind = "bool" THEN {} ELSE {i + 1 : i \in dropped}
  IN FoldLeftDomain(LAMBDA acc, i : IF i \in gone THEN acc ELSE Append(acc, args[i]), <<>>, args)

AppendOverride(w, known, args, o) ==
  LET value == IF o.id = "port" THEN PortNames[SpecPort(w, known)] ELSE w.overrides[o.id]
  IN CASE ~ Overridden(w, o.id) -> args
       [] Overridden(w, o.id) /\ o.kind = "bool" /\ value = "" ->
            Append(RemoveFlag(args, o), o.flag)
       [] OTHER -> RemoveFlag(args, o) \o <<o.flag, value>>

\* appendWizardCommandExtras.
Extras(w) ==
  IF w.extras = <<>> \/ ~ Overridden(w, Custom.id) THEN <<>>
  ELSE IF w.overrides[Custom.id] = "" THEN <<Custom.flag>>
       ELSE <<Custom.flag, w.overrides[Custom.id]>>

\* wizardCommandArgv without the overrides: what a runner of the role needs.
Defaults(w, known) ==
  LET address == <<"--host", SpecHost(w), "--port", PortNames[SpecPort(w, known)]>>
      default(id, args) ==
        IF Overridden(w, id) \/ id \in w.removed THEN <<>> ELSE args
  IN IF w.runtime = "litert" THEN <<"litert-lm", "serve">> \o address
     ELSE <<"llama-server", "-m", "model", "--alias", "id">> \o address
          \o (IF w.backend = "gpu" THEN default("gpu-layers", <<"--n-gpu-layers", "999">>) ELSE <<>>)
          \o (IF w.role = "embedding" THEN default("embedding", <<"--embedding">>) ELSE <<>>)

Command(w, known) ==
  FoldLeft(LAMBDA args, o : AppendOverride(w, known, args, o),
           Defaults(w, known), Applicable(w))
    \o Extras(w)

\* The text of the editor, as strings.Fields splits it.
Fields(args) == SelectSeq(args, LAMBDA t : t # "")

-----------------------------------------------------------------------------
(* applyWizardCommandLine *)

OptionOfFlag(w, flag) ==
  SelectSeq(Applicable(w), LAMBDA o : o.flag = flag)

\* Mutant: a switch takes a value.
XParseToken(w, acc, args, i) ==
  LET known == OptionOfFlag(w, args[i])
      next  == IF i < Len(args) THEN args[i + 1] ELSE ""
  IN CASE acc.skip -> [acc EXCEPT !.skip = FALSE]
       [] ~ acc.skip /\ known # <<>> ->
            [acc EXCEPT !.overrides[known[1].id] = next, !.skip = TRUE]
       [] OTHER -> acc

\* One token of the line: `acc.skip' says that it is the value of the flag before.
ParseToken(w, acc, args, i) ==
  LET arg   == args[i]
      next  == IF i < Len(args) THEN args[i + 1] ELSE ""
      known == OptionOfFlag(w, arg)
      set(id, value, skip) ==
        [acc EXCEPT !.overrides[id] = value, !.skip = skip]
  IN CASE acc.skip -> [acc EXCEPT !.skip = FALSE]
       [] ~ acc.skip /\ arg \notin Flags -> acc
       [] ~ acc.skip /\ arg = "--n-gpu-layers" ->
            IF next \in {"", "999"} THEN [acc EXCEPT !.skip = (next # "")]
            ELSE set("gpu-layers", next, TRUE)
       [] ~ acc.skip /\ arg # "--n-gpu-layers" /\ known # <<>> ->
            IF known[1].kind = "bool" THEN set(known[1].id, "", FALSE)
            ELSE IF next = "" THEN acc ELSE set(known[1].id, next, TRUE)
       [] ~ acc.skip /\ arg \in Fixed /\ known = <<>> -> [acc EXCEPT !.skip = TRUE]
       [] OTHER -> \* a flag that no option has, once
            IF acc.extras # <<>> \/ arg # Custom.flag THEN acc
            ELSE IF next # "" /\ next \notin Flags
                 THEN [set(Custom.id, next, TRUE) EXCEPT !.extras = <<Custom.id>>]
                 ELSE [set(Custom.id, "", FALSE) EXCEPT !.extras = <<Custom.id>>]

\* removedWizardDefaults, which does not look at the runtime.
Removed(w, args) ==
  {id \in {"gpu-layers"} : w.backend = "gpu" /\ ~ Contains(args, "--n-gpu-layers")}
    \cup {id \in {"embedding"} : w.role = "embedding" /\ ~ Contains(args, "--embedding")}

Applied(w, args) ==
  LET acc == FoldLeftDomain(
        LAMBDA a, i : ParseToken(w, a, args, i),
        [skip |-> FALSE, overrides |-> [id \in OptionIds |-> NoValue], extras |-> <<>>], args)
  IN [w EXCEPT !.overrides = acc.overrides, !.extras = acc.extras, !.removed = Removed(w, args)]

-----------------------------------------------------------------------------
WizardInit ==
  /\ wizard = [runtime |-> "litert", backend |-> "cpu", role |-> "main",
               overrides |-> [id \in OptionIds |-> NoValue], extras |-> <<>>,
               removed |-> {}]
  /\ snapshot = {} /\ runners = {} /\ pending = {}

SetWizard(w) == wizard' = w /\ UNCHANGED <<snapshot, runners, pending>>

toggleWizardRuntime ==
  SetWizard([wizard EXCEPT !.runtime = IF @ = "litert" THEN "llamacpp" ELSE "litert",
                        !.backend = "cpu"])

\* cycleWizardVariant and setWizardVariantFromMouse.
SetBackend(b) == b # wizard.backend /\ SetWizard([wizard EXCEPT !.backend = b])

setWizardRole(role) == role # wizard.role /\ SetWizard([wizard EXCEPT !.role = role])

\* saveOptionModalValue: a switch that is off has no override.
SaveOption(o, value) ==
  SetWizard([wizard EXCEPT !.overrides[o.id] =
               CASE o.kind = "bool" /\ value = "on"  -> ""
                 [] o.kind = "bool" /\ value = "off" -> NoValue
                 [] OTHER -> value])

\* The Reset of the editor and of the menu of an option.
ResetOption(o) == /\ Overridden(wizard, o.id)
                  /\ SetWizard([wizard EXCEPT !.overrides[o.id] = NoValue])

\* saveWizardCommandEdit. The user may drop a flag with its value, or add one.
SaveCommand(args) == SetWizard(Applied(wizard, args))

EditedLines(w, known) ==
  LET args == Fields(Command(w, known))
      HasValue(i) == i < Len(args) /\ args[i + 1] \notin Flags
      Without(i) == SubSeq(args, 1, i - 1)
                      \o SubSeq(args, IF HasValue(i) THEN i + 2 ELSE i + 1, Len(args))
  IN {args} \cup {Without(i) : i \in {j \in DOMAIN args : args[j] \in Flags}}
       \cup {args \o line : line \in Lines}

\* nextRunnerID numbers the runners of a role.
NextNumber(role, known) ==
  1 + Max({0} \cup {r.number : r \in {k \in known : k.role = role}})

\* wizardCreateCmd keeps a copy of the model, whose runners may not be all that
\* there are; another Start before the answer of this one is left out.
StartRunner ==
  /\ pending = {} /\ Cardinality(runners) < MaxRunners
  /\ pending' = {[runtime |-> wizard.runtime, role |-> wizard.role,
                  number |-> NextNumber(wizard.role, snapshot),
                  port |-> SpecPort(wizard, snapshot), current |-> snapshot = runners]}
  /\ UNCHANGED <<wizard, snapshot, runners>>

SameId(r, s) == r.runtime = s.runtime /\ r.role = s.role /\ r.number = s.number

\* The supervisor refuses an id that is taken, and does not look at ports.
CreateRunner == /\ pending # {}
                /\ \A r \in runners, p \in pending : ~ SameId(r, p)
                /\ runners' = runners \cup pending
                /\ UNCHANGED <<wizard, snapshot, pending>>

\* The answer, also that of a creation that failed, refreshes the model.
Answer == /\ pending # {}
          /\ snapshot' = runners
          /\ pending' = {}
          /\ UNCHANGED <<wizard, runners>>

\* Another client of the supervisor adds a runner at a free port, of which the
\* model learns at its next refresh. The one that is being created is then no
\* longer made from all that there are.
AddRunner(role, port) ==
  /\ Cardinality(runners \cup pending) < MaxRunners
  /\ port \notin UsedPorts(runners)
  /\ runners' = runners \cup {[runtime |-> "litert", role |-> role, port |-> port,
                               number |-> NextNumber(role, runners), current |-> TRUE]}
  /\ pending' = {[p EXCEPT !.current = FALSE] : p \in pending \ runners}
                  \cup (pending \cap runners)
  /\ UNCHANGED <<wizard, snapshot>>

RefreshRunners == snapshot' = runners /\ UNCHANGED <<wizard, runners, pending>>

EditOption == \E i \in DOMAIN AllOptions(wizard) :
  LET o == AllOptions(wizard)[i] IN
  ResetOption(o) \/ \E value \in Typed[o.id] : SaveOption(o, value)

WizardNext ==
  \/ toggleWizardRuntime \/ EditOption \/ StartRunner \/ CreateRunner \/ Answer
  \/ RefreshRunners
  \/ \E role \in Roles, port \in 1 .. MaxRunners + 1 : AddRunner(role, port)
  \/ \E b \in WizardBackends : SetBackend(b)
  \/ \E role \in Roles : setWizardRole(role)
  \/ \E args \in EditedLines(wizard, snapshot) : SaveCommand(args)

WizardSpec == WizardInit /\ [][WizardNext]_wizardVars

-----------------------------------------------------------------------------
(* Properties *)

\* What a command line says, in any order of its flags.
Meaning(args) ==
  {<<args[i], IF i < Len(args) /\ args[i + 1] \notin Flags THEN args[i + 1] ELSE "">> :
     i \in {j \in DOMAIN args : args[j] \in Flags}}

\* To save the text of the command line unchanged does not change what it says,
\* unless an address that was set for the litert runtime is left behind.  No
\* override is empty (Typed): after its flag the parser would take the next one
\* as the value.
UneditedLine ==
  LET args == Command(wizard, snapshot)
      foreign  == wizard.runtime = "llamacpp"
                    /\ (Overridden(wizard, "host") \/ Overridden(wizard, "port"))
  IN ~ foreign => Meaning(Command(Applied(wizard, Fields(args)), snapshot)) = Meaning(args)

\* No two runners get the same port or the same number in their role, whatever
\* the overrides ask for, if the model knew all runners when it made them and
\* no other client added one meanwhile.
RunnersDistinct ==
  \A r, s \in {k \in runners : k.current} :
    r # s => r.port # s.port /\ (r.role = s.role => r.number # s.number)
=============================================================================
