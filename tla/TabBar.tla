------------------------------- MODULE TabBar -------------------------------
(***************************************************************************)
(* The tabs of the terminal UI (internal/tui/model.go).  There is a tab    *)
(* for each runner, so the tabs change with the runners of the supervisor; *)
(* the selected tab is kept twice: its name in the store of the command    *)
(* bus, which API clients change too, and its index in Model.active.       *)
(*                                                                         *)
(* refresh runs on every tick and on the answer of every command.  It is   *)
(* not atomic: it takes a snapshot of the runners, reads the store, and    *)
(* selects the first tab when the stored one is not among its tabs.        *)
(***************************************************************************)
EXTENDS Integers, Sequences, FiniteSets, Selection

CONSTANTS Order,      \* the IDs of runners, in the order of the snapshot
          MaxCalls,   \* bound on the commands under way
          MaxSelects, \* bound on the tabs that API clients select
          MaxChanges  \* bound on the runners that API clients create and close

Ids  == {Order[i] : i \in 1 .. Len(Order)}
Base == <<"dashboard", "wizard", "setup">>

ASSUME TabAssumption ==
  /\ Order \in Seq(STRING) /\ MaxCalls \in Nat /\ MaxSelects \in Nat /\ MaxChanges \in Nat
  /\ Ids \cap {"", "dashboard", "wizard", "setup", "chat", "nowhere"} = {}

VARIABLES
  runners,  \* the runners of the supervisor
  snapshot, \* Model.snapshot.Runners
  stored,   \* UI.ActiveTab of the store, "" before a tab is selected
  active,   \* Model.active
  edit,     \* the runner that Model.edit edits, or ""
  calls,    \* commands sent to the supervisor
  answers,  \* their messages on the way to Update
  step,     \* where the UI loop is in a refresh
  message,  \* the message that made it refresh
  foreign,  \* whether an API client has selected a tab since the UI last looked
  selects, changes

tabVars == <<runners, snapshot, stored, active, edit, calls, answers, step, message,
          foreign, selects, changes>>
uiVars == <<snapshot, stored, active, edit, step, message, foreign>>

Ops     == {"close", "create", "update", "route"}
Call    == [op : Ops, id : Ids]
Answer  == [op : Ops \cup {"failed"}, id : Ids]
Tick    == [op |-> "tick", id |-> ""]
Message == Answer \cup {Tick}

\* Model.tabs: the runners in the order of the snapshot, and a chat if there is one.
Tabs(rs) == Base \o Kept(Order, rs)
                 \o (IF rs = {} THEN <<>> ELSE <<"chat">>)
TabSet(rs) == {Tabs(rs)[i] : i \in 1 .. Len(Tabs(rs))}
IndexOf(tab, rs) == CHOOSE i \in 0 .. Len(Tabs(rs)) - 1 : Tabs(rs)[i + 1] = tab

\* activeTabID: the stored tab, or that of the index when there is none.
activeTabID == CASE stored \in TabSet(snapshot) -> stored
                 [] stored \notin TabSet(snapshot) /\ active < Len(Tabs(snapshot)) ->
                      Tabs(snapshot)[active + 1]
                 [] OTHER -> "dashboard"

TabInit ==
  /\ runners \in {{}, Ids} /\ snapshot = runners
  /\ stored = "" /\ active = 0 /\ edit = ""
  /\ calls = {} /\ answers = {} /\ step = "idle" /\ message = Tick
  /\ foreign = FALSE /\ selects = 0 /\ changes = 0

-----------------------------------------------------------------------------
(* The user *)

\* The store learns the tab first; the index follows when the tab exists.
setActiveTab(tab) ==
  /\ stored' = tab
  /\ active' = IF tab \in TabSet(snapshot) THEN IndexOf(tab, snapshot) ELSE active
  /\ foreign' = FALSE

\* cycleTab counts from the index.
CycleTab(delta) ==
  /\ step = "idle"
  /\ setActiveTab(Tabs(snapshot)[((active + delta) % Len(Tabs(snapshot))) + 1])
  /\ UNCHANGED <<runners, snapshot, edit, calls, answers, step, message, selects, changes>>

\* A digit (selectRuneTab) or a click on the tab bar.
PickTab(i) ==
  /\ step = "idle" /\ i <= Len(Tabs(snapshot))
  /\ setActiveTab(Tabs(snapshot)[i])
  /\ UNCHANGED <<runners, snapshot, edit, calls, answers, step, message, selects, changes>>

\* runnerActionCmd, wizardCreateCmd, dashboardRouteCmd: a new ID is one that
\* the snapshot does not have.
Command(op, id) ==
  /\ step = "idle" /\ Cardinality(calls \cup answers) < MaxCalls
  /\ \/ op = "close"  /\ activeTabID = id
     \/ op = "create" /\ activeTabID = "wizard" /\ id \notin snapshot
     \/ op = "route"  /\ activeTabID = "dashboard" /\ id \in snapshot
  /\ calls' = calls \cup {[op |-> op, id |-> id]}
  /\ UNCHANGED <<runners, uiVars, answers, selects, changes>>

Edit(id) ==
  /\ step = "idle" /\ edit = "" /\ activeTabID = id
  /\ edit' = id
  /\ UNCHANGED <<runners, snapshot, stored, active, calls, answers, step, message,
                 foreign, selects, changes>>

\* updateEditKey: Enter sends a patch to the runner that was opened, whatever
\* tab is shown now; Esc forgets it.
EndEdit(saved) ==
  /\ step = "idle" /\ edit # ""
  /\ saved => Cardinality(calls \cup answers) < MaxCalls
  /\ edit' = ""
  /\ calls' = IF saved THEN calls \cup {[op |-> "update", id |-> edit]} ELSE calls
  /\ UNCHANGED <<runners, snapshot, stored, active, answers, step, message, foreign,
                 selects, changes>>

-----------------------------------------------------------------------------
(* Commands and API clients *)

\* A created runner whose start fails exists all the same.  An update or a route
\* that fails answers with the runner it was sent for; so does one that succeeds.
\* The answer of close, and that of a failure, selects no tab.
AnswerOps(c) == CASE c.op = "close" -> {"failed"}
                  [] c.op = "update" -> {"update"}
                  [] c.op = "route" -> {"route", "failed"}
                  [] c.op = "create" -> IF c.id \in runners THEN {"failed"}
                                        ELSE {"create", "failed"}

Execute(c) ==
  /\ c \in calls
  /\ calls' = calls \ {c}
  /\ runners' = CASE c.op = "close"  -> runners \ {c.id}
                  [] c.op = "create" -> runners \cup {c.id}
                  [] OTHER           -> runners
  /\ \E op \in AnswerOps(c) : answers' = answers \cup {[op |-> op, id |-> c.id]}
  /\ UNCHANGED <<uiVars, selects, changes>>

ApiSelect(tab) ==
  /\ selects < MaxSelects
  /\ selects' = selects + 1
  /\ stored' = tab /\ foreign' = TRUE
  /\ UNCHANGED <<runners, snapshot, active, edit, calls, answers, step, message, changes>>

ApiChange(id) ==
  /\ changes < MaxChanges
  /\ changes' = changes + 1
  /\ runners' = IF id \in runners THEN runners \ {id} ELSE runners \cup {id}
  /\ UNCHANGED <<uiVars, calls, answers, selects>>

-----------------------------------------------------------------------------
(* refresh *)

Begin(m) ==
  /\ step = "idle"
  /\ m = Tick \/ m \in answers
  /\ answers' = answers \ {m}
  /\ snapshot' = runners
  /\ message' = m /\ step' = "store"
  /\ UNCHANGED <<runners, stored, active, edit, calls, foreign, selects, changes>>

\* Mutant: the index is left alone when the stored tab exists.
XReadStore ==
  /\ step = "store"
  /\ IF stored = "" \/ stored \in TabSet(snapshot)
     THEN step' = "finish" /\ UNCHANGED active
     ELSE step' = "reset" /\ UNCHANGED active
  /\ foreign' = FALSE
  /\ UNCHANGED <<runners, snapshot, stored, edit, calls, answers, message, selects, changes>>

\* Mutant: a stored tab that does not exist stays.
NoReset ==
  /\ step = "store"
  /\ active' = IF stored \in TabSet(snapshot) THEN IndexOf(stored, snapshot) ELSE 0
  /\ step' = "finish"
  /\ foreign' = FALSE
  /\ UNCHANGED <<runners, snapshot, stored, edit, calls, answers, message, selects, changes>>

ReadStore ==
  /\ step = "store"
  /\ IF stored \in TabSet(snapshot)
     THEN step' = "finish" /\ active' = IndexOf(stored, snapshot)
     ELSE step' = (IF stored = "" THEN "finish" ELSE "reset") /\ UNCHANGED active
  /\ foreign' = FALSE
  /\ UNCHANGED <<runners, snapshot, stored, edit, calls, answers, message, selects, changes>>

\* The stored tab was not among the tabs: the first tab is selected, whatever
\* has been selected since.
Reset ==
  /\ step = "reset"
  /\ stored' = "dashboard" /\ active' = 0 /\ foreign' = FALSE
  /\ step' = "finish"
  /\ UNCHANGED <<runners, snapshot, edit, calls, answers, message, selects, changes>>

\* The rest of Update: an index out of range is reset, and an answer may
\* select a tab.
Finish ==
  /\ step = "finish"
  /\ step' = "idle"
  /\ LET tab == CASE message.op \in {"create", "update"} -> message.id
                  [] message.op = "route" -> "dashboard"
                  [] OTHER -> ""
     IN IF tab = ""
        THEN /\ active' = IF active >= Len(Tabs(snapshot)) THEN 0 ELSE active
             /\ UNCHANGED <<stored, foreign>>
        ELSE setActiveTab(tab)
  /\ UNCHANGED <<runners, snapshot, edit, calls, answers, message, selects, changes>>

-----------------------------------------------------------------------------
User == \/ \E delta \in {-1, 1} : CycleTab(delta)
        \/ \E i \in 1 .. Len(Order) + 4 : PickTab(i)
        \/ \E op \in Ops, id \in Ids : Command(op, id)
        \/ \E id \in Ids : Edit(id)
        \/ \E saved \in BOOLEAN : EndEdit(saved)

Refresh == ReadStore \/ Reset \/ Finish

TabNext == \/ User
        \/ \E c \in calls : Execute(c)
        \/ \E tab \in TabSet(Ids) \cup {"nowhere"} : ApiSelect(tab)
        \/ \E id \in Ids : ApiChange(id)
        \/ \E m \in answers \cup {Tick} : Begin(m)
        \/ Refresh

TabSpec == TabInit /\ [][TabNext]_tabVars

\* Ticks keep coming, and the UI loop runs.
TabFairness == WF_tabVars(Begin(Tick)) /\ WF_tabVars(Refresh)

-----------------------------------------------------------------------------
(* Properties *)

\* The next and the previous tab are counted from the tab that is shown,
\* although runners come and go and move the tabs: the index agrees with the
\* store, unless an API client has selected a tab since the last refresh.
IndexAgrees == step = "idle" /\ ~ foreign => /\ active < Len(Tabs(snapshot))
                                             /\ Tabs(snapshot)[active + 1] = activeTabID

\* The store never keeps the tab of a runner that is gone, nor a tab that
\* never was.
SettlesOnTab == stored \notin TabSet(runners) \cup {""} ~> stored \in TabSet(runners)
=============================================================================
