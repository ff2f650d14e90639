------------------------------- MODULE MCHost -------------------------------
(***************************************************************************)
(* The rest of what a host of runners does, for TLC: the model catalog,    *)
(* the manager of a single server, the observed proxy, the store that      *)
(* starts fresh, the file of working backends and the Launch Wizard.  They *)
(* share no state that they change: a behaviour moves one of them.         *)
(***************************************************************************)
EXTENDS Downloads, LitertManager, Gateway, Backends, Wizard

CONSTANTS Kinds, MaxActions, MaxRestarts, MaxFailures, MaxReadFailures

VARIABLES
  mover, \* the part that a behaviour is about
  storeState, sessions, dispatch, evBuf, evtBuf, ssBuf, flusher, closing, db, history,
  count \* the variables of EventStore

storeVars == <<storeState, sessions, dispatch, evBuf, evtBuf, ssBuf, flusher, closing,
               db, history, count>>

Store == INSTANCE EventStore WITH state <- storeState, MaxCrashes <- MaxRestarts

LitertDef == <<"cpu", "gpu">>
LlamaDef  == <<"cpu.", "cuda">>

TypedDef == [id \in OptionIds |->
  CASE id = "host" -> {"h"}
    [] id = "port" -> {"9483"}
    [] id \in {"verbose", "embedding"} -> {"on", "off"}
    [] id = "ctx-size" -> {"v"}
    [] id = "gpu-layers" -> {"v", "999"}
    [] id = "x" -> {"", "v"}]
LinesDef == {<<"-x">>, <<"-x", "v">>}

Parts == {"downloads", "litert", "gateway", "events", "store", "backends", "editor",
          "creator"}

\* The parts that do not move start in one state.
MCInit ==
  /\ mover \in Parts
  /\ Init /\ LitertInit /\ GatewayInit /\ Store!Init /\ BackendInit /\ WizardInit
  /\ mover # "downloads" => \A m \in Models : target[m] = None
  /\ mover # "litert"    => config = [launch |-> TRUE, port |-> AnyPort]
  /\ route # "none"

\* Several requests are proxied, or one of them while a client follows the events.
Proxied  == \A c \in Streams : stream'[c].pc = "off"
Followed == \E r \in Requests : req'[r].pc = "new"

\* The wizard edits a command line, or it creates runners with a port at most.
Editing  == runners' = {} /\ pending' = {}
Creating ==
  \/ StartRunner \/ CreateRunner \/ Answer \/ RefreshRunners \/ toggleWizardRuntime
  \/ \E role \in Roles : \/ setWizardRole(role)
                          \/ \E port \in 1 .. MaxRunners + 1 : AddRunner(role, port)
  \/ /\ EditOption
     /\ \A id \in OptionIds \ {"port"} : ~ Overridden(wizard', id)

CatalogStep == /\ mover = "downloads" /\ Next
               /\ UNCHANGED <<litertVars, gatewayVars, storeVars, backendVars, wizardVars>>
ManagerStep == /\ mover = "litert" /\ LitertNext
               /\ UNCHANGED <<vars, gatewayVars, storeVars, backendVars, wizardVars>>
GatewayStep == /\ \/ mover = "gateway" /\ GatewayNext /\ Proxied
                  \/ mover = "events"  /\ GatewayNext /\ Followed
               /\ UNCHANGED <<vars, litertVars, storeVars, backendVars, wizardVars>>
StoreStep   == /\ mover = "store" /\ Store!UnreadNext
               /\ UNCHANGED <<vars, litertVars, gatewayVars, backendVars, wizardVars>>
BackendStep == /\ mover = "backends" /\ BackendNext
               /\ UNCHANGED <<vars, litertVars, gatewayVars, storeVars, wizardVars>>
WizardStep  == /\ \/ mover = "editor"  /\ WizardNext /\ Editing
                  \/ mover = "creator" /\ Creating
               /\ UNCHANGED <<vars, litertVars, gatewayVars, storeVars, backendVars>>

MCNext == /\ UNCHANGED mover
          /\ \/ CatalogStep \/ ManagerStep \/ GatewayStep
             \/ StoreStep \/ BackendStep \/ WizardStep

MCSpec == MCInit /\ [][MCNext]_<<mover, vars, litertVars, gatewayVars, storeVars,
                                 backendVars, wizardVars>>

\* WrittenIsKept of EventStore, for the store that starts fresh.
WrittenIsKept == Store!WrittenIsKept
=============================================================================
