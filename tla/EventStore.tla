----------------------------- MODULE EventStore -----------------------------
(***************************************************************************)
(* The command bus of the TUI and of the HTTP API with its persistence:    *)
(* internal/tui/store (command_bus.go, reducers.go) on top of              *)
(* internal/tui/store/sqlite (store.go), and the way main.go restores it.  *)
(*                                                                         *)
(* Dispatch runs under bus.mu and hands an action, an event and a snapshot *)
(* to three buffers, each with a mutex of its own.  A flush goroutine      *)
(* drains the buffers one after the other and writes what it took in one   *)
(* transaction.  A crash loses the buffers; a start loads the latest       *)
(* snapshot and replays the events after it.                               *)
(*                                                                         *)
(* Chat.Sessions is a Go map, and the AppState values that are copied      *)
(* around share it.  The variable sessions is that one map; the sessions   *)
(* field of an AppState is what the map held when the reducer returned, of *)
(* which only "nil or not" is real until the value is marshalled.          *)
(*                                                                         *)
(* Action ids are numbers, and the payload of an action is its id: tab,    *)
(* wizard and active hold the id of the action that set them last.  The    *)
(* wizard fields are one, as are the viewport and other unused substates.  *)
(***************************************************************************)
EXTENDS Naturals, FiniteSets, SequencesExt

CONSTANTS Kinds,           \* the kinds of actions dispatched
          MaxActions,      \* bound on the number of actions
          MaxCrashes,      \* bound on the number of crashes and restarts
          MaxFailures,     \* bound on the number of failed flushes
          MaxReadFailures, \* bound on the number of failed reads at a start
          None             \* nil

AllKinds == {"tab", "wizard", "chat", "request", "other"}

ASSUME KindsAssumption == Kinds \subseteq AllKinds
ASSUME BoundsAssumption ==
  {MaxActions, MaxCrashes, MaxFailures, MaxReadFailures} \subseteq Nat

VARIABLES
  state,    \* CommandBus.state
  sessions, \* the map behind Chat.Sessions
  dispatch, \* the Dispatch that holds bus.mu
  evBuf,    \* Store.evBuf, the actions to write
  evtBuf,   \* Store.evtBuf, the events to write
  ssBuf,    \* Store.ssBuf, the snapshot to write
  flusher,  \* the flush goroutine
  closing,  \* Store.Close has been called
  db,       \* the tables actions, events and snapshots
  history,  \* the AppState of every revision accepted and not lost by a crash
  count     \* how often each bounded thing has happened

vars == <<state, sessions, dispatch, evBuf, evtBuf, ssBuf, flusher, closing, db,
          history, count>>

-----------------------------------------------------------------------------
(* Data *)

Ids == 1 .. MaxActions

\* corr: the envelope carries a CorrelationID, as the proxy's observer sets it.
Action == [id: Ids, kind: AllKinds, corr: BOOLEAN]
Event  == [rev: Ids, id: Ids, kind: AllKinds]

SessionIds == {"action", "correlation"} \X Ids

AppState == [rev: 0 .. MaxActions, tab: Ids \cup {0}, wizard: Ids \cup {0},
             active: Ids \cup {0}, sessions: SUBSET SessionIds]

Zero == [rev |-> 0, tab |-> 0, wizard |-> 0, active |-> 0, sessions |-> {}]

sessionID(a) == <<IF a.corr THEN "correlation" ELSE "action", a.id>>

RootReduce(s, a) ==
  LET n == [s EXCEPT !.rev = @ + 1]
  IN  CASE a.kind = "tab"     -> [n EXCEPT !.tab = a.id]
        [] a.kind = "wizard"  -> [n EXCEPT !.wizard = a.id]
        [] a.kind = "chat"    -> [n EXCEPT !.sessions = @ \cup {<<"action", a.id>>},
                                           !.active = a.id]
        [] a.kind = "request" -> [n EXCEPT !.sessions = @ \cup {sessionID(a)}]
        [] OTHER              -> n

\* The event of an action, and the action a replay makes of an event.
StoredEvent(a, rev) == [rev |-> rev, id |-> a.id, kind |-> a.kind]
Replayed(e) == [id |-> e.id, kind |-> e.kind, corr |-> FALSE]

\* What marshalling an AppState writes: its own scalars, the shared map.
Marshal(s) == IF s.sessions = {} THEN s ELSE [s EXCEPT !.sessions = sessions]

Newest(S) == CHOOSE s \in S : \A u \in S : u.rev <= s.rev

LoadLatest == IF db.snapshots = {} THEN Zero ELSE Newest(db.snapshots)

\* Mutant: the event of the snapshot itself is replayed again.
SinceInclusive(after) == {e \in db.events : e.rev >= after}

Since(after) == {e \in db.events : e.rev > after}

Revisions(events) == {e.rev : e \in events}

\* The states of a replay, which takes the rows in the order of their revision.
Replays(s, events) ==
  LET upto[r \in 0 .. MaxActions] ==
        IF r = 0 THEN s
        ELSE IF r \in Revisions(events)
             THEN RootReduce(upto[r - 1], Replayed(CHOOSE e \in events : e.rev = r))
             ELSE upto[r - 1]
  IN  upto

Replay(s, events) == Replays(s, events)[MaxActions]

\* Mutant: the events after the snapshot are applied to the zero state.
ReplayFromZero == Replay(Zero, Since(LoadLatest.rev))

ReplayFromStore == Replay(LoadLatest, Since(LoadLatest.rev))

-----------------------------------------------------------------------------
Idle == [step |-> "idle", action |-> None, new |-> Zero]
Free == [step |-> "idle", final |-> FALSE, ev |-> {}, evt |-> {}, ss |-> None]

Init ==
  /\ state = Zero /\ sessions = {}
  /\ dispatch = Idle
  /\ evBuf = {} /\ evtBuf = {} /\ ssBuf = None
  /\ flusher = Free /\ closing = FALSE
  /\ db = [actions |-> {}, events |-> {}, snapshots |-> {}]
  /\ history = <<>>
  /\ count = [actions |-> 0, crashes |-> 0, failures |-> 0, readFailures |-> 0]

-----------------------------------------------------------------------------
(* CommandBus.Dispatch, under bus.mu.  The appends to a Store never fail.  *)

\* The reducer writes to the map before anything is appended or committed.
Reduce(kind, corr) ==
  /\ dispatch.step = "idle"
  /\ kind \in Kinds /\ (corr => kind = "request")
  /\ count.actions < MaxActions
  /\ LET a   == [id |-> count.actions + 1, kind |-> kind, corr |-> corr]
         new == RootReduce([state EXCEPT !.sessions = sessions], a)
     IN  /\ dispatch' = [step |-> "action", action |-> a, new |-> new]
         /\ sessions' = new.sessions
         /\ history' = Append(history, new)
  /\ count' = [count EXCEPT !.actions = @ + 1]
  /\ UNCHANGED <<state, evBuf, evtBuf, ssBuf, flusher, closing, db>>

AppendAction ==
  /\ dispatch.step = "action"
  /\ evBuf' = evBuf \cup {dispatch.action}
  /\ dispatch' = [dispatch EXCEPT !.step = "event"]
  /\ UNCHANGED <<state, sessions, evtBuf, ssBuf, flusher, closing, db, history, count>>

AppendEvents ==
  /\ dispatch.step = "event"
  /\ evtBuf' = evtBuf \cup {StoredEvent(dispatch.action, dispatch.new.rev)}
  /\ dispatch' = [dispatch EXCEPT !.step = "save"]
  /\ UNCHANGED <<state, sessions, evBuf, ssBuf, flusher, closing, db, history, count>>

Save ==
  /\ dispatch.step = "save"
  /\ ssBuf' = dispatch.new
  /\ dispatch' = [dispatch EXCEPT !.step = "commit"]
  /\ UNCHANGED <<state, sessions, evBuf, evtBuf, flusher, closing, db, history, count>>

Commit ==
  /\ dispatch.step = "commit"
  /\ state' = dispatch.new
  /\ dispatch' = Idle
  /\ UNCHANGED <<sessions, evBuf, evtBuf, ssBuf, flusher, closing, db, history, count>>

Dispatch ==
  \/ \E kind \in Kinds, corr \in BOOLEAN : Reduce(kind, corr)
  \/ AppendAction \/ AppendEvents \/ Save \/ Commit

-----------------------------------------------------------------------------
(* Store.flushLoop and Store.Flush *)

\* The ticker fires, or the done channel is closed and this is the last drain.
DrainActions(final) ==
  /\ flusher.step = "idle"
  /\ final => closing
  /\ flusher' = [Free EXCEPT !.step = "events", !.final = final, !.ev = evBuf]
  /\ evBuf' = {}
  /\ UNCHANGED <<state, sessions, dispatch, evtBuf, ssBuf, closing, db, history, count>>

DrainEvents ==
  /\ flusher.step = "events"
  /\ flusher' = [flusher EXCEPT !.step = "snapshot", !.evt = evtBuf]
  /\ evtBuf' = {}
  /\ UNCHANGED <<state, sessions, dispatch, evBuf, ssBuf, closing, db, history, count>>

\* After the last drain the goroutine returns and the database is closed.
Done(f) == [Free EXCEPT !.step = IF f.final THEN "closed" ELSE "idle"]

DrainSnapshot ==
  /\ flusher.step = "snapshot"
  /\ flusher' = IF flusher.ev = {} /\ flusher.evt = {} /\ ssBuf = None
                THEN Done(flusher)
                ELSE [flusher EXCEPT !.step = "flush", !.ss = ssBuf]
  /\ ssBuf' = None
  /\ UNCHANGED <<state, sessions, dispatch, evBuf, evtBuf, closing, db, history, count>>

\* Mutant: INSERT OR REPLACE for events.
InsertEventsReplacing(table, events) ==
  {d \in table : \A e \in events : d.rev # e.rev} \cup events

\* INSERT OR IGNORE for actions and events, INSERT OR REPLACE for snapshots.
InsertEvents(table, events) ==
  table \cup {e \in events : \A d \in table : d.rev # e.rev}

InsertSnapshot(table, s) ==
  IF s = None THEN table
  ELSE {d \in table : d.rev # s.rev} \cup {Marshal(s)}

Flush ==
  /\ flusher.step = "flush"
  /\ db' = [actions   |-> db.actions \cup {a.id : a \in flusher.ev},
            events    |-> InsertEvents(db.events, flusher.evt),
            snapshots |-> InsertSnapshot(db.snapshots, flusher.ss)]
  /\ flusher' = Done(flusher)
  /\ UNCHANGED <<state, sessions, dispatch, evBuf, evtBuf, ssBuf, closing, history, count>>

\* Mutant: what the failed flush took is dropped.
FlushFailsForGood ==
  /\ flusher.step = "flush"
  /\ count.failures < MaxFailures
  /\ count' = [count EXCEPT !.failures = @ + 1]
  /\ flusher' = Done(flusher)
  /\ UNCHANGED <<state, sessions, dispatch, evBuf, evtBuf, ssBuf, closing, db, history>>

\* The transaction is rolled back.
FlushFails ==
  /\ flusher.step = "flush"
  /\ count.failures < MaxFailures
  /\ count' = [count EXCEPT !.failures = @ + 1]
  /\ flusher' = [flusher EXCEPT !.step = "requeueActions"]
  /\ UNCHANGED <<state, sessions, dispatch, evBuf, evtBuf, ssBuf, closing, db, history>>

RequeueActions ==
  /\ flusher.step = "requeueActions"
  /\ evBuf' = flusher.ev \cup evBuf
  /\ flusher' = [flusher EXCEPT !.step = "requeueEvents", !.ev = {}]
  /\ UNCHANGED <<state, sessions, dispatch, evtBuf, ssBuf, closing, db, history, count>>

\* Mutant: events buffered since the drain are overwritten.
RequeueEventsAlone ==
  /\ flusher.step = "requeueEvents"
  /\ evtBuf' = flusher.evt
  /\ flusher' = [flusher EXCEPT !.step = "requeueSnapshot", !.evt = {}]
  /\ UNCHANGED <<state, sessions, dispatch, evBuf, ssBuf, closing, db, history, count>>

RequeueEvents ==
  /\ flusher.step = "requeueEvents"
  /\ evtBuf' = flusher.evt \cup evtBuf
  /\ flusher' = [flusher EXCEPT !.step = "requeueSnapshot", !.evt = {}]
  /\ UNCHANGED <<state, sessions, dispatch, evBuf, ssBuf, closing, db, history, count>>

\* A snapshot saved meanwhile is newer and stays.
RequeueSnapshot ==
  /\ flusher.step = "requeueSnapshot"
  /\ ssBuf' = IF ssBuf = None THEN flusher.ss ELSE ssBuf
  /\ flusher' = Done(flusher)
  /\ UNCHANGED <<state, sessions, dispatch, evBuf, evtBuf, closing, db, history, count>>

FlushLoop ==
  \/ \E final \in BOOLEAN : DrainActions(final)
  \/ DrainEvents \/ DrainSnapshot \/ Flush \/ FlushFails
  \/ RequeueActions \/ RequeueEvents \/ RequeueSnapshot

Close ==
  /\ ~closing
  /\ closing' = TRUE
  /\ UNCHANGED <<state, sessions, dispatch, evBuf, evtBuf, ssBuf, flusher, db, history,
                 count>>

-----------------------------------------------------------------------------
(* The process ends, with or without Close, and a new one starts.          *)

Start(s) ==
  /\ count.crashes < MaxCrashes
  /\ state' = s /\ sessions' = s.sessions
  /\ dispatch' = Idle
  /\ evBuf' = {} /\ evtBuf' = {} /\ ssBuf' = None
  /\ flusher' = Free /\ closing' = FALSE
  /\ history' = [r \in 1 .. s.rev |->
                  IF r < s.rev /\ r \in DOMAIN history THEN history[r] ELSE s]
  /\ UNCHANGED db

Restart ==
  /\ Start(ReplayFromStore)
  /\ count' = [count EXCEPT !.crashes = @ + 1]

\* Loading the snapshot fails and everything is replayed, or reading the
\* events fails and main starts fresh.
RestartUnread ==
  /\ count.readFailures < MaxReadFailures
  /\ \E s \in {Replay(Zero, Since(0)), Zero} : Start(s)
  /\ count' = [count EXCEPT !.crashes = @ + 1, !.readFailures = @ + 1]

-----------------------------------------------------------------------------
Next == Dispatch \/ FlushLoop \/ Close \/ Restart

\* With starts that cannot read the database.
UnreadNext == Next \/ RestartUnread

Spec == Init /\ [][Next]_vars
UnreadSpec == Init /\ [][UnreadNext]_vars

\* The ticker keeps firing and a Dispatch that holds bus.mu goes on; flushes
\* fail only MaxFailures times.
FairSpec ==
  /\ Spec
  /\ WF_vars(AppendAction \/ AppendEvents \/ Save \/ Commit)
  /\ WF_vars(FlushLoop)

-----------------------------------------------------------------------------
(* Properties *)

Dispatching == {"idle", "action", "event", "save", "commit"}
Flushing    == {"idle", "events", "snapshot", "flush", "requeueActions",
                "requeueEvents", "requeueSnapshot", "closed"}

\* Every variable has the values the Go types allow.
TypeOK ==
  /\ state \in AppState /\ sessions \subseteq SessionIds
  /\ dispatch.step \in Dispatching /\ dispatch.new \in AppState
  /\ dispatch.action = None \/ dispatch.action \in Action
  /\ evBuf \subseteq Action /\ evtBuf \subseteq Event
  /\ ssBuf = None \/ ssBuf \in AppState
  /\ flusher.step \in Flushing /\ {flusher.final, closing} \subseteq BOOLEAN
  /\ flusher.ev \subseteq Action /\ flusher.evt \subseteq Event
  /\ flusher.ss = None \/ flusher.ss \in AppState
  /\ db.events \subseteq Event /\ db.snapshots \subseteq AppState

\* No revision the bus has committed is forgotten: its event is written,
\* waits in the buffer or is in the hands of the flush under way, even when
\* flushes fail and are put back while others dispatch; or a snapshot of it or
\* of a later revision is written.
CommittedIsKept ==
  \A r \in 1 .. state.rev :
    \/ r \in Revisions(db.events \cup evtBuf \cup flusher.evt)
    \/ \E s \in db.snapshots : s.rev >= r

\* Whenever the process dies, a restart finds a revision that was accepted,
\* with the tab, the wizard and the active session it had, and with all the
\* sessions that the TUI had created by then.
RecoveryAgrees ==
  LET s == ReplayFromStore
      h == IF s.rev = 0 THEN Zero ELSE history[s.rev]
  IN  /\ s.rev <= Len(history)
      /\ s.tab = h.tab /\ s.wizard = h.wizard /\ s.active = h.active
      /\ \A x \in h.sessions : x[1] = "action" => x \in s.sessions

\* What is committed is durable sometime, unless it is lost by a crash or the
\* store is closed.
EventuallyDurable ==
  \A r \in Ids :
    state.rev = r ~> ReplayFromStore.rev >= r \/ state.rev < r \/ closing

\* A start that cannot read the database starts fresh and counts revisions from
\* one again; what was written before stays: no action or event is overwritten,
\* and the latest snapshot is never an older one.
WrittenIsKept ==
  [][ /\ db.actions \subseteq db'.actions
      /\ db.events \subseteq db'.events
      /\ LoadLatest.rev <= LoadLatest'.rev ]_vars

\* The store implements the durable log.
Log == INSTANCE DurableLog WITH accepted <- Len(history), durable <- ReplayFromStore.rev

\* Revisions are accepted one at a time, only accepted ones become durable, in
\* order, and a restart continues from exactly the durable ones.
ImplementsLog == Log!Spec
=============================================================================
