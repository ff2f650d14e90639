--------------------------- MODULE EventStoreProofs ---------------------------
(***************************************************************************)
(* Theorems about EventStore for any kinds of actions and any number of    *)
(* actions, crashes, failed flushes and failed reads.                      *)
(***************************************************************************)
EXTENDS EventStore, SelectionProofs

-----------------------------------------------------------------------------
(* The inductive invariant *)

\* Every revision is that of an action, in whatever lineage.
Counted(s)    == s \in AppState /\ s.rev <= count.actions
CountedEvt(e) == e \in Event /\ e.rev <= count.actions

Types ==
  /\ count \in [actions : 0 .. MaxActions, crashes : Nat, failures : Nat,
                readFailures : Nat]
  /\ Counted(state) /\ sessions \subseteq SessionIds
  /\ dispatch \in [step : Dispatching, action : Action \cup {None}, new : AppState]
  /\ dispatch.step # "idle" => dispatch.action \in Action /\ dispatch.new.rev \in 1 .. count.actions
  /\ evBuf \subseteq Action /\ (\A e \in evtBuf : CountedEvt(e))
  /\ ssBuf = None \/ Counted(ssBuf)
  /\ flusher = [step |-> flusher.step, final |-> flusher.final, ev |-> flusher.ev,
                evt |-> flusher.evt, ss |-> flusher.ss]
  /\ flusher.step \in Flushing /\ flusher.final \in BOOLEAN /\ flusher.ev \subseteq Action
  /\ \A e \in flusher.evt : CountedEvt(e)
  /\ flusher.ss = None \/ Counted(flusher.ss)
  /\ closing \in BOOLEAN
  /\ db = [actions |-> db.actions, events |-> db.events, snapshots |-> db.snapshots]
  /\ \A e \in db.events : CountedEvt(e)
  /\ \A s \in db.snapshots : Counted(s)

\* The state of revision r, and what of it a replay restores exactly.
H(r) == IF r = 0 THEN Zero ELSE history[r]
Agree(s, t) == s.tab = t.tab /\ s.wizard = t.wizard /\ s.active = t.active
Own(S) == {x \in S : x[1] = "action"}

\* The event that the Dispatch under way is about to append.
Pending == IF dispatch.step \in {"action", "event"}
           THEN {StoredEvent(dispatch.action, dispatch.new.rev)} ELSE {}
Buffered == flusher.evt \cup evtBuf \cup Pending
Known == db.events \cup Buffered

\* The sessions that the replay of events up to a revision adds.
AddedBy(e) == IF e.kind \in {"chat", "request"} THEN {<<"action", e.id>>} ELSE {}
Added(events, low, high) ==
  UNION {AddedBy(e) : e \in {f \in events : low < f.rev /\ f.rev <= high}}

HistoryOK ==
  /\ history \in Seq(AppState) /\ Len(history) <= count.actions
  /\ \A r \in 1 .. Len(history) : history[r].rev = r
  /\ sessions = H(Len(history)).sessions
  /\ dispatch.step = "idle" => state = H(Len(history))
  /\ dispatch.step # "idle" => /\ Len(history) > 0 /\ dispatch.new = H(Len(history))
                               /\ state = H(Len(history) - 1)

\* No event is known twice, and the later an event the later it is written.
EventsOK ==
  /\ \A e, f \in Known : e.rev = f.rev => e = f
  /\ \A e \in db.events, f \in Buffered : e.rev < f.rev
  /\ \A e \in flusher.evt, f \in evtBuf \cup Pending : e.rev < f.rev
  /\ \A e \in evtBuf, f \in Pending : e.rev < f.rev
  /\ flusher.step \in {"idle", "events", "requeueSnapshot", "closed"} => flusher.evt = {}

\* An event is the step from one revision to the next.
ChainOK ==
  \A e \in Known : /\ e.rev \in 1 .. Len(history)
                   /\ Agree(H(e.rev), RootReduce(H(e.rev - 1), Replayed(e)))

\* The revisions after the latest snapshot are known by their events.
CompleteOK == \A r \in LoadLatest.rev + 1 .. Len(history) : r \in Revisions(Known)

\* A snapshot and the events after it give the sessions of each later revision.
Covers(s) == \A r \in s.rev .. Len(history) :
               Own(H(r).sessions) \subseteq s.sessions \cup Added(Known, s.rev, r)

Unsaved == dispatch.step \in {"action", "event", "save"}
SavedBefore(s) == s.rev \in 1 .. Len(history) /\ (Unsaved => s.rev < Len(history))

WaitingOK(s) ==
  /\ SavedBefore(s) /\ s = history[s.rev]
  /\ s.sessions \subseteq sessions
  /\ Covers(s)
  /\ \A d \in db.snapshots : d.rev < s.rev

SnapshotsOK ==
  /\ ssBuf # None => WaitingOK(ssBuf)
  /\ flusher.ss # None => WaitingOK(flusher.ss)
  /\ ssBuf # None /\ flusher.ss # None => flusher.ss.rev < ssBuf.rev
  /\ flusher.step \in {"idle", "events", "snapshot", "closed"} => flusher.ss = None

LatestOK ==
  /\ \A d \in db.snapshots : SavedBefore(d)
  /\ LoadLatest.rev <= Len(history) /\ Agree(LoadLatest, H(LoadLatest.rev))
  /\ Covers(LoadLatest)

\* There is a latest snapshot.
NewestOK == db.snapshots # {} =>
  \E s \in db.snapshots : \A u \in db.snapshots : u.rev <= s.rev

StoreInv == /\ Types /\ NewestOK /\ HistoryOK /\ EventsOK /\ ChainOK /\ CompleteOK
            /\ SnapshotsOK /\ LatestOK

-----------------------------------------------------------------------------
(* What a replay computes *)

MaxIsNat == MaxActions \in Nat

LEMMA BoundIsNat == MaxIsNat
  BY BoundsAssumption DEF MaxIsNat

ReplayStep(events, u, r) ==
  IF r \in Revisions(events)
  THEN RootReduce(u, Replayed(CHOOSE e \in events : e.rev = r))
  ELSE u

IsReplay(g, s, events, n) ==
  g = [r \in 0 .. n |-> IF r = 0 THEN s ELSE ReplayStep(events, g[r - 1], r)]

\* The recursive function of Replays exists.
LEMMA ReplayExists ==
  ASSUME NEW s, NEW events, NEW n \in Nat
  PROVE  \E g : IsReplay(g, s, events, n)
<1> DEFINE P == {k \in Nat : \E g : IsReplay(g, s, events, k)}
<1>1. 0 \in P
  <2>1. IsReplay([r \in 0 .. 0 |-> s], s, events, 0)
    BY DEF IsReplay
  <2> QED BY <2>1
<1>2. ASSUME NEW k \in Nat, k \in P PROVE k + 1 \in P
  <2>1. PICK g : IsReplay(g, s, events, k)
    BY <1>2
  <2> DEFINE h == [r \in 0 .. k + 1 |->
                     IF r = k + 1 THEN ReplayStep(events, g[k], k + 1) ELSE g[r]]
  <2>2. \A r \in 0 .. k : g[r] = IF r = 0 THEN s ELSE ReplayStep(events, g[r - 1], r)
    BY <2>1 DEF IsReplay
  <2>3. ASSUME NEW r \in 0 .. k + 1
        PROVE  h[r] = IF r = 0 THEN s ELSE ReplayStep(events, h[r - 1], r)
    <3>1. CASE r = k + 1
      BY <3>1
    <3>2. CASE r # k + 1
      <4>1. r \in 0 .. k /\ h[r] = g[r] /\ (r # 0 => h[r - 1] = g[r - 1])
        BY <3>2
      <4> QED BY <4>1, <2>2
    <3> QED BY <3>1, <3>2
  <2>4. IsReplay(h, s, events, k + 1)
    BY <2>3 DEF IsReplay
  <2> QED BY <2>4
<1>3. Nat \subseteq P
  <2> HIDE DEF P
  <2> QED BY <1>1, <1>2, Induction
<1> QED BY <1>3

LEMMA ReplaysUnfold ==
  ASSUME NEW s, NEW events
  PROVE  /\ Replays(s, events)[0] = s
         /\ \A r \in 1 .. MaxActions :
              Replays(s, events)[r] = ReplayStep(events, Replays(s, events)[r - 1], r)
<1>1. \E g : IsReplay(g, s, events, MaxActions)
  BY ReplayExists, BoundIsNat DEF MaxIsNat
<1> DEFINE f == CHOOSE g : IsReplay(g, s, events, MaxActions)
<1>2. IsReplay(f, s, events, MaxActions)
  BY <1>1
<1>3. Replays(s, events) = f
  BY DEF Replays, IsReplay, ReplayStep
<1> HIDE DEF f
<1> QED BY <1>2, <1>3, BoundIsNat DEF IsReplay, MaxIsNat

-----------------------------------------------------------------------------
(* What a reducer does, and the types *)

SessionsOf(a) == CASE a.kind = "chat"    -> {<<"action", a.id>>}
                   [] a.kind = "request" -> {sessionID(a)}
                   [] OTHER              -> {}

LEMMA ReduceForm ==
  ASSUME NEW u \in AppState, NEW a \in Action
  PROVE  RootReduce(u, a) =
           [rev      |-> u.rev + 1,
            tab      |-> IF a.kind = "tab" THEN a.id ELSE u.tab,
            wizard   |-> IF a.kind = "wizard" THEN a.id ELSE u.wizard,
            active   |-> IF a.kind = "chat" THEN a.id ELSE u.active,
            sessions |-> u.sessions \cup SessionsOf(a)]
<1>1. u = [rev |-> u.rev, tab |-> u.tab, wizard |-> u.wizard, active |-> u.active,
           sessions |-> u.sessions]
  BY DEF AppState
<1>2. a.kind \in AllKinds
  BY DEF Action
<1>3. CASE a.kind = "tab"
  BY <1>1, <1>3 DEF RootReduce, SessionsOf
<1>4. CASE a.kind = "wizard"
  BY <1>1, <1>4 DEF RootReduce, SessionsOf
<1>5. CASE a.kind = "chat"
  BY <1>1, <1>5 DEF RootReduce, SessionsOf
<1>6. CASE a.kind = "request"
  BY <1>1, <1>6 DEF RootReduce, SessionsOf
<1>7. CASE a.kind = "other"
  BY <1>1, <1>7 DEF RootReduce, SessionsOf
<1> QED BY <1>2, <1>3, <1>4, <1>5, <1>6, <1>7 DEF AllKinds

LEMMA ReduceType ==
  ASSUME NEW u \in AppState, NEW a \in Action, u.rev < MaxActions
  PROVE  RootReduce(u, a) \in AppState /\ RootReduce(u, a).rev = u.rev + 1
<1>1. SessionsOf(a) \subseteq SessionIds
  BY DEF SessionsOf, sessionID, SessionIds, Action
<1>2. a.id \in Ids /\ u.rev + 1 \in 0 .. MaxActions
  BY BoundIsNat DEF Action, AppState, MaxIsNat
<1> HIDE DEF SessionsOf
<1> QED BY ReduceForm, <1>1, <1>2 DEF AppState

LEMMA ReplayedType ==
  ASSUME NEW e \in Event PROVE Replayed(e) \in Action
  BY DEF Event, Action, Replayed

LEMMA RowOf ==
  ASSUME NEW events, NEW r \in Revisions(events)
  PROVE  (CHOOSE e \in events : e.rev = r) \in {e \in events : e.rev = r}
  BY DEF Revisions

LEMMA ReplayType ==
  ASSUME NEW s \in AppState, NEW events, NEW b \in 0 .. MaxActions, s.rev <= b,
         \A e \in events : e \in Event /\ s.rev < e.rev /\ e.rev <= b
  PROVE  Replay(s, events) \in AppState /\ Replay(s, events).rev \in s.rev .. b
<1> DEFINE u == Replays(s, events)
           Top(k) == IF k <= s.rev THEN s.rev ELSE IF k <= b THEN k ELSE b
           Good(k) == u[k] \in AppState /\ u[k].rev \in s.rev .. Top(k)
           P == {k \in Nat : k <= MaxActions => Good(k)}
<1>0. MaxActions \in Nat /\ s.rev \in Nat /\ b \in Nat /\ b <= MaxActions
  BY BoundIsNat DEF MaxIsNat, AppState
<1>1. 0 \in P
  BY ReplaysUnfold, <1>0
<1>2. ASSUME NEW k \in Nat, k \in P PROVE k + 1 \in P
  <2> SUFFICES ASSUME k + 1 <= MaxActions PROVE Good(k + 1)
    OBVIOUS
  <2>1. Good(k)
    BY <1>2, <1>0
  <2>2. u[k + 1] = ReplayStep(events, u[k], k + 1)
    BY ReplaysUnfold, <1>0
  <2> DEFINE e == CHOOSE f \in events : f.rev = k + 1
  <2>3. CASE k + 1 \in Revisions(events)
    <3>1. e \in events /\ e.rev = k + 1
      BY <2>3, RowOf
    <3>2. e \in Event /\ s.rev < k + 1 /\ k + 1 <= b
      BY <3>1
    <3>3. u[k + 1] = RootReduce(u[k], Replayed(e))
      BY <2>2, <2>3 DEF ReplayStep
    <3> HIDE DEF e, u
    <3>4. u[k].rev \in Nat /\ u[k].rev <= k
      BY <2>1, <3>2, <1>0
    <3>5. u[k + 1] \in AppState /\ u[k + 1].rev = u[k].rev + 1
      BY <2>1, <3>2, <3>3, <3>4, <1>0, ReduceType, ReplayedType
    <3> QED BY <3>2, <3>4, <3>5, <2>1, <1>0
  <2>4. CASE k + 1 \notin Revisions(events)
    <3>1. u[k + 1] = u[k]
      BY <2>2, <2>4 DEF ReplayStep
    <3> HIDE DEF u
    <3> QED BY <3>1, <2>1, <1>0
  <2> QED BY <2>3, <2>4
<1>3. Nat \subseteq P
  <2> HIDE DEF P
  <2> QED BY <1>1, <1>2, Induction
<1>4. Good(MaxActions)
  BY <1>3, <1>0
<1> HIDE DEF u
<1> QED BY <1>4, <1>0 DEF Replay, u

-----------------------------------------------------------------------------
(* The types, of all behaviours: also of starts that read nothing          *)

LEMMA NewestIsLast ==
  ASSUME NEW S, \E s \in S : \A u \in S : u.rev <= s.rev
  PROVE  Newest(S) \in S /\ \A u \in S : u.rev <= Newest(S).rev
  BY DEF Newest

LEMMA LatestSnapshot ==
  ASSUME Types, NewestOK
  PROVE  /\ Counted(LoadLatest)
         /\ db.snapshots = {} => LoadLatest = Zero
         /\ db.snapshots # {} => LoadLatest \in db.snapshots
         /\ \A s \in db.snapshots : s.rev <= LoadLatest.rev
<1>1. CASE db.snapshots = {}
  <2>1. LoadLatest = Zero
    BY <1>1 DEF LoadLatest
  <2>2. Zero \in AppState /\ Zero.rev = 0
    BY BoundIsNat DEF Zero, AppState, MaxIsNat
  <2>3. count.actions \in Nat
    BY DEF Types
  <2> QED BY <1>1, <2>1, <2>2, <2>3 DEF Counted
<1>2. CASE db.snapshots # {}
  <2>1. /\ LoadLatest \in db.snapshots
        /\ \A u \in db.snapshots : u.rev <= LoadLatest.rev
    BY <1>2, NewestIsLast DEF NewestOK, LoadLatest
  <2>2. Counted(LoadLatest)
    BY <2>1 DEF Types
  <2> QED BY <1>2, <2>1, <2>2
<1> QED BY <1>1, <1>2

LEMMA CountType == ASSUME Types PROVE count.actions \in 0 .. MaxActions
  BY DEF Types

\* What a start recovers, whichever of its reads fail.
LEMMA RecoveredType ==
  ASSUME Types, NewestOK
  PROVE  /\ Counted(ReplayFromStore) /\ ReplayFromStore.rev >= LoadLatest.rev
         /\ Counted(Replay(Zero, Since(0)))
         /\ Counted(Zero)
<1>1. Counted(LoadLatest) /\ Counted(Zero) /\ Zero.rev = 0
  <2>1. Zero \in AppState /\ Zero.rev = 0
    BY BoundIsNat DEF Zero, AppState, MaxIsNat
  <2> QED BY <2>1, LatestSnapshot, CountType DEF Counted
<1>2. ASSUME NEW s, Counted(s)
      PROVE  Counted(Replay(s, Since(s.rev))) /\ Replay(s, Since(s.rev)).rev >= s.rev
  <2>1. \A e \in Since(s.rev) : e \in Event /\ s.rev < e.rev /\ e.rev <= count.actions
    BY <1>2 DEF Since, Types, CountedEvt, Counted, AppState, Event
  <2>2. /\ Replay(s, Since(s.rev)) \in AppState
        /\ Replay(s, Since(s.rev)).rev \in s.rev .. count.actions
    BY <1>2, <2>1, CountType, ReplayType DEF Counted
  <2>3. s.rev \in Nat /\ count.actions \in Nat
    BY <1>2, CountType DEF Counted, AppState
  <2> QED BY <2>2, <2>3 DEF Counted
<1> QED BY <1>1, <1>2 DEF ReplayFromStore

LEMMA InitTypes == Init => Types /\ NewestOK
<1> SUFFICES ASSUME Init PROVE Types /\ NewestOK
  OBVIOUS
<1>1. MaxActions \in Nat
  BY BoundIsNat DEF MaxIsNat
<1>2. Counted(Zero) /\ Zero.sessions = {}
  BY <1>1 DEF Init, Counted, Zero, AppState
<1>3. count \in [actions : 0 .. MaxActions, crashes : Nat, failures : Nat, readFailures : Nat]
  BY <1>1 DEF Init
<1> QED BY <1>1, <1>2, <1>3 DEF Init, Types, NewestOK, Idle, Free, Counted, Dispatching, Flushing

LEMMA StartTypes ==
  ASSUME Types, NewestOK, NEW s, Counted(s), Start(s),
         count' \in [actions : 0 .. MaxActions, crashes : Nat, failures : Nat,
                     readFailures : Nat],
         count'.actions = count.actions
  PROVE  Types' /\ NewestOK'
<1>1. count'.actions = count.actions
  OBVIOUS
<1>2. Counted(s)' /\ (Counted(state) /\ sessions \subseteq SessionIds)'
  BY <1>1 DEF Start, Counted, AppState
<1>3. dispatch' \in [step : Dispatching, action : Action \cup {None}, new : AppState]
  BY RecoveredType DEF Start, Idle, Dispatching, Counted
<1>4. (\A e \in db.events : CountedEvt(e))' /\ (\A d \in db.snapshots : Counted(d))'
  BY <1>1 DEF Start, Types, Counted, CountedEvt
<1> QED BY <1>1, <1>2, <1>3, <1>4 DEF Start, Types, NewestOK, Idle, Free, Flushing

LEMMA ReduceTypes ==
  ASSUME Types, NewestOK, NEW kind, NEW corr \in BOOLEAN, Reduce(kind, corr)
  PROVE  Types' /\ NewestOK'
<1> DEFINE a == [id |-> count.actions + 1, kind |-> kind, corr |-> corr]
           u == [state EXCEPT !.sessions = sessions]
           new == RootReduce(u, a)
<1>1. /\ MaxActions \in Nat /\ count.actions \in Nat /\ count.actions < MaxActions
      /\ count' = [count EXCEPT !.actions = @ + 1]
  BY BoundIsNat DEF MaxIsNat, Types, Reduce
<1>2. count' \in [actions : 0 .. MaxActions, crashes : Nat, failures : Nat,
                  readFailures : Nat] /\ count'.actions = count.actions + 1
  BY <1>1 DEF Types
<1>3. a \in Action
  BY <1>1, KindsAssumption DEF Action, Reduce, Ids
<1>4. u \in AppState /\ u.rev = state.rev /\ u.rev \in Nat /\ u.rev <= count.actions
  BY DEF Types, AppState, Counted
<1>5. /\ dispatch' = [step |-> "action", action |-> a, new |-> new]
      /\ sessions' = new.sessions
      /\ UNCHANGED <<state, evBuf, evtBuf, ssBuf, flusher, closing, db>>
  BY DEF Reduce
<1> HIDE DEF a, u
<1>6. new \in AppState /\ new.rev = state.rev + 1
  BY <1>1, <1>3, <1>4, ReduceType
<1> HIDE DEF new
<1>7. new.rev \in 1 .. count'.actions /\ new.sessions \subseteq SessionIds
  BY <1>1, <1>2, <1>4, <1>6 DEF AppState
<1>8. ASSUME NEW s, Counted(s) PROVE Counted(s)'
  BY <1>1, <1>2, <1>8 DEF Counted, AppState
<1>9. ASSUME NEW e, CountedEvt(e) PROVE CountedEvt(e)'
  BY <1>1, <1>2, <1>9 DEF CountedEvt, Event, Ids
<1>10. dispatch' \in [step : Dispatching, action : Action \cup {None}, new : AppState]
  BY <1>3, <1>5, <1>6 DEF Dispatching
<1>11. Counted(state)' /\ (ssBuf = None \/ Counted(ssBuf))'
       /\ (flusher.ss = None \/ Counted(flusher.ss))'
  BY <1>5, <1>8 DEF Types
<1>12. /\ (\A e \in evtBuf : CountedEvt(e))' /\ (\A e \in flusher.evt : CountedEvt(e))'
       /\ (\A e \in db.events : CountedEvt(e))' /\ (\A d \in db.snapshots : Counted(d))'
  BY <1>5, <1>8, <1>9 DEF Types
<1> QED BY <1>2, <1>3, <1>5, <1>7, <1>10, <1>11, <1>12 DEF Types, NewestOK

LEMMA RestartTypes ==
  ASSUME Types, NewestOK, Restart \/ RestartUnread
  PROVE  Types' /\ NewestOK'
<1> DEFINE one == [count EXCEPT !.crashes = @ + 1]
           two == [count EXCEPT !.crashes = @ + 1, !.readFailures = @ + 1]
<1>1. PICK s : /\ s \in {ReplayFromStore, Replay(Zero, Since(0)), Zero} /\ Start(s)
               /\ count' = one \/ count' = two
  BY DEF Restart, RestartUnread
<1>2. /\ count.actions \in 0 .. MaxActions /\ count.crashes \in Nat
      /\ count.failures \in Nat /\ count.readFailures \in Nat
      /\ count = [actions |-> count.actions, crashes |-> count.crashes,
                  failures |-> count.failures, readFailures |-> count.readFailures]
  BY DEF Types
<1>3. one = [actions |-> count.actions, crashes |-> count.crashes + 1,
             failures |-> count.failures, readFailures |-> count.readFailures]
  BY <1>2
<1>4. two = [actions |-> count.actions, crashes |-> count.crashes + 1,
             failures |-> count.failures, readFailures |-> count.readFailures + 1]
  <2>1. two = [one EXCEPT !.readFailures = count.readFailures + 1]
    OBVIOUS
  <2> HIDE DEF one
  <2> QED BY <2>1, <1>3
<1>5. /\ count' \in [actions : 0 .. MaxActions, crashes : Nat, failures : Nat,
                     readFailures : Nat]
      /\ count'.actions = count.actions
  BY <1>1, <1>2, <1>3, <1>4
<1>6. Counted(s)
  BY <1>1, RecoveredType
<1> QED BY <1>1, <1>5, <1>6, StartTypes

\* A step that counts no action keeps what is counted.
LEMMA StillCounted ==
  ASSUME count'.actions = count.actions
  PROVE  /\ \A s : Counted(s)' <=> Counted(s)
         /\ \A e : CountedEvt(e)' <=> CountedEvt(e)
  BY DEF Counted, CountedEvt

LEMMA DispatchTypes ==
  ASSUME Types, NewestOK, AppendAction \/ AppendEvents \/ Save \/ Commit
  PROVE  Types' /\ NewestOK'
<1>0. count' = count /\ db' = db /\ flusher' = flusher /\ closing' = closing
      /\ sessions' = sessions
  BY DEF AppendAction, AppendEvents, Save, Commit
<1>1. /\ \A s : Counted(s)' <=> Counted(s)
      /\ \A e : CountedEvt(e)' <=> CountedEvt(e)
  BY <1>0, StillCounted
<1>2. dispatch.step # "idle"
  BY DEF AppendAction, AppendEvents, Save, Commit
<1>3. dispatch.action \in Action /\ dispatch.new \in AppState
      /\ dispatch.new.rev \in 1 .. count.actions /\ Counted(dispatch.new)
      /\ dispatch.new.rev \in Ids
  BY <1>2, CountType, BoundIsNat DEF Types, Counted, MaxIsNat, Ids
<1>4. CASE AppendAction
  BY <1>0, <1>1, <1>3, <1>4 DEF AppendAction, Types, NewestOK, Dispatching
<1>5. CASE AppendEvents
  <2>1. CountedEvt(StoredEvent(dispatch.action, dispatch.new.rev))
    BY <1>3, CountType DEF StoredEvent, CountedEvt, Event, Action
  <2> QED BY <2>1, <1>0, <1>1, <1>3, <1>5 DEF AppendEvents, Types, NewestOK, Dispatching
<1>6. CASE Save
  BY <1>0, <1>1, <1>3, <1>6 DEF Save, Types, NewestOK, Dispatching
<1>7. CASE Commit
  <2>1. Zero \in AppState
    BY RecoveredType DEF Counted
  <2> QED BY <2>1, <1>0, <1>1, <1>3, <1>7 DEF Commit, Types, NewestOK, Dispatching, Idle
<1> QED BY <1>4, <1>5, <1>6, <1>7

\* The state that is written for a snapshot.
LEMMA MarshalType ==
  ASSUME NEW s, Counted(s), sessions \subseteq SessionIds
  PROVE  /\ Counted(Marshal(s)) /\ Marshal(s).rev = s.rev /\ Agree(Marshal(s), s)
         /\ Marshal(s).sessions = IF s.sessions = {} THEN {} ELSE sessions
  BY DEF Counted, Marshal, AppState, Agree

LEMMA FlushTypes ==
  ASSUME Types, NewestOK, Flush
  PROVE  Types' /\ NewestOK'
<1>0. count' = count /\ dispatch' = dispatch /\ sessions' = sessions /\ state' = state
      /\ UNCHANGED <<evBuf, evtBuf, ssBuf, closing>>
  BY DEF Flush
<1>1. /\ \A s : Counted(s)' <=> Counted(s)
      /\ \A e : CountedEvt(e)' <=> CountedEvt(e)
  BY <1>0, StillCounted
<1>2. /\ db'.events = InsertEvents(db.events, flusher.evt)
      /\ db'.snapshots = InsertSnapshot(db.snapshots, flusher.ss)
      /\ db' = [actions |-> db'.actions, events |-> db'.events, snapshots |-> db'.snapshots]
  BY DEF Flush
<1>3. \A e \in db'.events : CountedEvt(e)
  BY <1>2 DEF InsertEvents, Types
<1>4. (\A s \in db'.snapshots : Counted(s)) /\ NewestOK'
  <2>1. CASE flusher.ss = None
    BY <1>2, <2>1 DEF InsertSnapshot, Types, NewestOK
  <2>2. CASE flusher.ss # None
    <3> DEFINE m == Marshal(flusher.ss)
    <3>1. Counted(m) /\ m.rev = flusher.ss.rev /\ m.rev \in Nat
      BY <2>2, MarshalType DEF Types, Counted, AppState
    <3>2. db'.snapshots = {d \in db.snapshots : d.rev # flusher.ss.rev} \cup {m}
      BY <1>2, <2>2 DEF InsertSnapshot
    <3> HIDE DEF m
    <3>3. \A s \in db.snapshots : s.rev \in Nat
      BY DEF Types, Counted, AppState
    <3>4. NewestOK'
      <4>1. CASE db.snapshots = {}
        BY <4>1, <3>1, <3>2 DEF NewestOK
      <4>2. CASE db.snapshots # {}
        <5>1. PICK s \in db.snapshots : \A u \in db.snapshots : u.rev <= s.rev
          BY <4>2 DEF NewestOK
        <5>2. CASE s.rev <= m.rev
          BY <5>1, <5>2, <3>1, <3>2, <3>3 DEF NewestOK
        <5>3. CASE s.rev > m.rev
          <6>1. s \in db'.snapshots /\ \A u \in db'.snapshots : u.rev <= s.rev
            BY <5>1, <5>3, <3>1, <3>2, <3>3
          <6> QED BY <6>1 DEF NewestOK
        <5> QED BY <5>1, <5>2, <5>3, <3>1, <3>3
      <4> QED BY <4>1, <4>2
    <3> QED BY <3>1, <3>2, <3>4 DEF Types
  <2> QED BY <2>1, <2>2
<1>5. PICK st \in Flushing :
        flusher' = [step |-> st, final |-> FALSE, ev |-> {}, evt |-> {}, ss |-> None]
  BY DEF Flush, Done, Free, Flushing
<1>6. /\ Counted(state)' /\ (ssBuf = None \/ Counted(ssBuf))'
      /\ (\A e \in evtBuf : CountedEvt(e))' /\ (\A e \in db.events : CountedEvt(e))'
      /\ (\A s \in db.snapshots : Counted(s))'
  BY <1>0, <1>1, <1>3, <1>4 DEF Types
<1>7. /\ flusher'.step \in Flushing /\ flusher'.final \in BOOLEAN /\ flusher'.ev \subseteq Action
      /\ flusher'.evt = {} /\ flusher'.ss = None
      /\ flusher' = [step |-> flusher'.step, final |-> flusher'.final, ev |-> flusher'.ev,
                     evt |-> flusher'.evt, ss |-> flusher'.ss]
  BY <1>5
<1>8. db' = [actions |-> db'.actions, events |-> db'.events, snapshots |-> db'.snapshots]
  BY <1>2
<1>9. /\ dispatch' = dispatch /\ count' = count /\ sessions' = sessions /\ evBuf' = evBuf
      /\ closing' = closing
  BY <1>0
<1>10. Types'
  BY <1>6, <1>7, <1>8, <1>9 DEF Types
<1> QED BY <1>4, <1>10

LEMMA FlushLoopTypes ==
  ASSUME Types, NewestOK, FlushLoop \/ Close
  PROVE  Types' /\ NewestOK'
<1>0. CASE Flush
  BY <1>0, FlushTypes
<1> SUFFICES ASSUME ~ Flush PROVE Types' /\ NewestOK'
  BY <1>0
<1>1. /\ db' = db /\ dispatch' = dispatch /\ sessions' = sessions /\ state' = state
      /\ count'.actions = count.actions
      /\ count' \in [actions : 0 .. MaxActions, crashes : Nat, failures : Nat,
                     readFailures : Nat]
  <2>1. count' = count \/ count' = [count EXCEPT !.failures = @ + 1]
    BY DEF FlushLoop, DrainActions, DrainEvents, DrainSnapshot, FlushFails,
           RequeueActions, RequeueEvents, RequeueSnapshot, Close
  <2>2. /\ count'.actions = count.actions
        /\ count' \in [actions : 0 .. MaxActions, crashes : Nat, failures : Nat,
                       readFailures : Nat]
    BY <2>1 DEF Types
  <2> QED BY <2>2 DEF FlushLoop, DrainActions, DrainEvents, DrainSnapshot, FlushFails,
           RequeueActions, RequeueEvents, RequeueSnapshot, Close
<1>2. /\ \A s : Counted(s)' <=> Counted(s)
      /\ \A e : CountedEvt(e)' <=> CountedEvt(e)
  BY <1>1, StillCounted
<1>3. /\ evBuf' \subseteq Action /\ (\A e \in evtBuf' : CountedEvt(e))
      /\ ssBuf' = None \/ Counted(ssBuf')
      /\ closing' \in BOOLEAN
  BY DEF FlushLoop, DrainActions, DrainEvents, DrainSnapshot, FlushFails,
         RequeueActions, RequeueEvents, RequeueSnapshot, Close, Types
<1>4. /\ flusher' = [step |-> flusher'.step, final |-> flusher'.final, ev |-> flusher'.ev,
                     evt |-> flusher'.evt, ss |-> flusher'.ss]
      /\ flusher'.step \in Flushing /\ flusher'.final \in BOOLEAN
      /\ flusher'.ev \subseteq Action
      /\ \A e \in flusher'.evt : CountedEvt(e)
      /\ flusher'.ss = None \/ Counted(flusher'.ss)
  <2>1. CASE \E final \in BOOLEAN : DrainActions(final)
    BY <2>1 DEF DrainActions, Types, Free, Flushing
  <2>2. CASE DrainEvents
    BY <2>2 DEF DrainEvents, Types, Flushing
  <2>3. CASE DrainSnapshot
    BY <2>3 DEF DrainSnapshot, Types, Flushing, Done, Free
  <2>4. CASE FlushFails
    BY <2>4 DEF FlushFails, Types, Flushing
  <2>5. CASE RequeueActions
    BY <2>5 DEF RequeueActions, Types, Flushing
  <2>6. CASE RequeueEvents
    BY <2>6 DEF RequeueEvents, Types, Flushing
  <2>7. CASE RequeueSnapshot
    BY <2>7 DEF RequeueSnapshot, Types, Flushing, Done, Free
  <2>8. CASE Close
    BY <2>8 DEF Close, Types
  <2> QED BY <2>1, <2>2, <2>3, <2>4, <2>5, <2>6, <2>7, <2>8 DEF FlushLoop
<1> QED BY <1>1, <1>2, <1>3, <1>4 DEF Types, NewestOK

LEMMA NextTypes == Types /\ NewestOK /\ [UnreadNext]_vars => Types' /\ NewestOK'
<1> SUFFICES ASSUME Types, NewestOK, [UnreadNext]_vars PROVE Types' /\ NewestOK'
  OBVIOUS
<1>1. CASE \E kind \in Kinds, corr \in BOOLEAN : Reduce(kind, corr)
  BY <1>1, ReduceTypes
<1>2. CASE AppendAction \/ AppendEvents \/ Save \/ Commit
  BY <1>2, DispatchTypes
<1>3. CASE FlushLoop \/ Close
  BY <1>3, FlushLoopTypes
<1>4. CASE Restart \/ RestartUnread
  BY <1>4, RestartTypes
<1>5. CASE UNCHANGED vars
  BY <1>5 DEF vars, Types, NewestOK, Counted, CountedEvt
<1> QED BY <1>1, <1>2, <1>3, <1>4, <1>5 DEF UnreadNext, Next, Dispatch

LEMMA TypesInvariance == UnreadSpec => [](Types /\ NewestOK)
  BY InitTypes, NextTypes, PTL DEF UnreadSpec

\* TypeOK: every variable has the values the Go types allow, also after starts
\* that could not read the database.
THEOREM TypeCorrect == UnreadSpec => []TypeOK
<1>1. Types => TypeOK
  BY DEF Types, TypeOK, Counted, CountedEvt
<1> QED BY <1>1, TypesInvariance, PTL

\* WrittenIsKept: no flush overwrites an action, an event or the latest
\* snapshot, also in the runs that count revisions from one again.
THEOREM WritesKeep == UnreadSpec => WrittenIsKept
<1> DEFINE Grows == /\ db.actions \subseteq db'.actions /\ db.events \subseteq db'.events
                    /\ LoadLatest.rev <= LoadLatest'.rev
<1>1. ASSUME Types, NewestOK, [UnreadNext]_vars PROVE Grows
  <2>1. CASE Flush
    <3>1. /\ db'.actions = db.actions \cup {a.id : a \in flusher.ev}
          /\ db'.events = InsertEvents(db.events, flusher.evt)
          /\ db'.snapshots = InsertSnapshot(db.snapshots, flusher.ss)
      BY <2>1 DEF Flush
    <3>2. /\ LoadLatest.rev \in Nat /\ (db.snapshots = {} => LoadLatest.rev = 0)
          /\ db.snapshots # {} => LoadLatest \in db.snapshots
      BY <1>1, LatestSnapshot DEF Counted, AppState, Zero
    <3>3. NewestOK' /\ Types'
      BY <1>1, NextTypes
    <3>4. CASE db'.snapshots = {}
      <4>1. db.snapshots = {}
        BY <3>1, <3>4 DEF InsertSnapshot
      <4> QED BY <3>1, <3>2, <3>4, <4>1 DEF LoadLatest, InsertEvents, Zero
    <3>5. CASE db'.snapshots # {}
      <4>1. /\ LoadLatest' \in db'.snapshots
            /\ \A u \in db'.snapshots : u.rev <= LoadLatest'.rev
        BY <3>3, <3>5, NewestIsLast DEF NewestOK, LoadLatest
      <4>2. LoadLatest'.rev \in Nat
        BY <4>1, <3>3 DEF Types, Counted, AppState
      <4>3. db.snapshots # {} => \E u \in db'.snapshots : u.rev = LoadLatest.rev
        <5>1. flusher.ss # None => Marshal(flusher.ss).rev = flusher.ss.rev
          BY <1>1, MarshalType DEF Types
        <5> QED BY <3>1, <3>2, <5>1 DEF InsertSnapshot
      <4> QED BY <3>1, <3>2, <4>1, <4>2, <4>3 DEF InsertEvents
    <3> QED BY <3>4, <3>5
  <2>2. CASE ~ Flush
    <3>1. db' = db
      BY <1>1, <2>2 DEF UnreadNext, Next, Dispatch, Reduce, AppendAction, AppendEvents,
        Save, Commit, FlushLoop, DrainActions, DrainEvents, DrainSnapshot, FlushFails,
        RequeueActions, RequeueEvents, RequeueSnapshot, Close, Restart, RestartUnread,
        Start, vars
    <3>2. LoadLatest.rev \in Nat
      BY <1>1, LatestSnapshot DEF Counted, AppState
    <3> QED BY <3>1, <3>2 DEF LoadLatest
  <2> QED BY <2>1, <2>2
<1>2. Types /\ NewestOK /\ [UnreadNext]_vars => [Grows]_vars
  BY <1>1
<1> QED BY <1>2, TypesInvariance, PTL DEF UnreadSpec, WrittenIsKept

-----------------------------------------------------------------------------
(* What a restart recovers, when the reads succeed                         *)

LEMMA HistoryType ==
  ASSUME Types, HistoryOK
  PROVE  /\ Len(history) \in Nat /\ Len(history) <= MaxActions
         /\ \A r \in 0 .. Len(history) : H(r) \in AppState /\ H(r).rev = r
<1>1. Zero \in AppState /\ Zero.rev = 0
  BY BoundIsNat DEF Zero, AppState, MaxIsNat
<1>2. Len(history) \in Nat /\ Len(history) <= MaxActions
  BY BoundIsNat, CountType DEF HistoryOK, MaxIsNat
<1> QED BY <1>1, <1>2 DEF H, HistoryOK

LEMMA ReplaySessions ==
  ASSUME NEW e \in Event PROVE SessionsOf(Replayed(e)) = AddedBy(e)
<1>1. e.kind \in AllKinds /\ e.id \in Ids
  BY DEF Event
<1>2. Replayed(e).kind = e.kind /\ Replayed(e).id = e.id /\ ~ Replayed(e).corr
  BY DEF Replayed
<1> QED BY <1>1, <1>2 DEF SessionsOf, sessionID, AddedBy, AllKinds

LEMMA KnownType ==
  ASSUME Types PROVE \A e \in Known : e \in Event
<1>1. \A e \in Pending : e \in Event
  BY CountType, BoundIsNat DEF Pending, StoredEvent, Types, Event, Action, Ids, MaxIsNat
<1> QED BY <1>1 DEF Known, Buffered, Types, CountedEvt

\* A reducer sets the same scalars whatever else the states hold.
LEMMA ReduceAgrees ==
  ASSUME NEW s \in AppState, NEW t \in AppState, NEW a \in Action, Agree(s, t)
  PROVE  Agree(RootReduce(s, a), RootReduce(t, a))
<1> DEFINE F(u) == [rev      |-> u.rev + 1,
                    tab      |-> IF a.kind = "tab" THEN a.id ELSE u.tab,
                    wizard   |-> IF a.kind = "wizard" THEN a.id ELSE u.wizard,
                    active   |-> IF a.kind = "chat" THEN a.id ELSE u.active,
                    sessions |-> u.sessions \cup SessionsOf(a)]
<1>1. RootReduce(s, a) = F(s) /\ RootReduce(t, a) = F(t)
  BY ReduceForm
<1>2. Agree(F(s), F(t))
  BY DEF Agree
<1> HIDE DEF F
<1> QED BY <1>1, <1>2

LEMMA Recovery ==
  ASSUME StoreInv
  PROVE  /\ ReplayFromStore \in AppState
         /\ ReplayFromStore.rev \in LoadLatest.rev .. Len(history)
         /\ \A e \in db.events : e.rev <= ReplayFromStore.rev
         /\ \A r \in LoadLatest.rev + 1 .. ReplayFromStore.rev : r \in Revisions(db.events)
         /\ Agree(ReplayFromStore, H(ReplayFromStore.rev))
         /\ ReplayFromStore.sessions
              = LoadLatest.sessions \cup Added(db.events, LoadLatest.rev, ReplayFromStore.rev)
         /\ ReplayFromStore.rev = LoadLatest.rev => ReplayFromStore = LoadLatest
<1> DEFINE d == LoadLatest
           E == Since(d.rev)
           u == Replays(d, E)
           n == Len(history)
           Reaches(k) == /\ u[k] \in AppState
                         /\ d.rev <= u[k].rev /\ u[k].rev <= n
                         /\ u[k].rev <= k \/ u[k].rev = d.rev
                         /\ \A e \in E : e.rev <= k => e.rev <= u[k].rev
                         /\ \A r \in d.rev + 1 .. u[k].rev : r \in Revisions(E)
                         /\ Agree(u[k], H(u[k].rev))
           Collects(k) == /\ u[k].sessions = d.sessions \cup Added(E, d.rev, u[k].rev)
                          /\ u[k].rev = d.rev => u[k] = d
           P == {k \in Nat : k <= MaxActions => Reaches(k) /\ Collects(k)}
<1>0. /\ MaxActions \in Nat /\ n \in Nat /\ n <= MaxActions
      /\ d \in AppState /\ d.rev \in Nat /\ d.rev <= n /\ Agree(d, H(d.rev))
      /\ \A e \in E : e \in db.events /\ e \in Known /\ e \in Event /\ d.rev < e.rev
      /\ \A e \in Event : e.rev \in Nat
  <2>1. d \in AppState
    BY LatestSnapshot DEF StoreInv, Counted
  <2>2. \A e \in E : e \in db.events /\ d.rev < e.rev
    BY DEF Since
  <2> QED BY <2>1, <2>2, BoundIsNat, HistoryType, KnownType
          DEF StoreInv, MaxIsNat, AppState, LatestOK, Known, Event, Ids
<1>1. 0 \in P
  <2>1. u[0] = d
    BY ReplaysUnfold
  <2>2. Added(E, d.rev, d.rev) = {}
    BY <1>0 DEF Added
  <2> HIDE DEF u, d, E, n
  <2> QED BY <2>1, <2>2, <1>0
<1>2. ASSUME NEW k \in Nat, k \in P PROVE k + 1 \in P
  <2> SUFFICES ASSUME k + 1 <= MaxActions PROVE Reaches(k + 1) /\ Collects(k + 1)
    OBVIOUS
  <2>1. Reaches(k) /\ Collects(k)
    BY <1>2, <1>0
  <2>2. u[k + 1] = ReplayStep(E, u[k], k + 1)
    BY ReplaysUnfold, <1>0
  <2>3. CASE k + 1 \in Revisions(E)
    <3> DEFINE e == CHOOSE f \in E : f.rev = k + 1
    <3>1. e \in E /\ e.rev = k + 1
      BY <2>3, RowOf
    <3>2. u[k + 1] = RootReduce(u[k], Replayed(e))
      BY <2>2, <2>3 DEF ReplayStep
    <3> HIDE DEF e, u
    <3>3. e \in Known /\ e \in Event /\ e \in db.events /\ d.rev < k + 1
      BY <3>1, <1>0
    <3>4. k + 1 <= n /\ Agree(H(k + 1), RootReduce(H(k), Replayed(e)))
      BY <3>1, <3>3 DEF StoreInv, ChainOK
    \* The revision before is that of the replay so far.
    <3>5. u[k].rev = k
      <4>0. d.rev <= k /\ d.rev \in Nat
        BY <3>3, <1>0
      <4> HIDE DEF d, E, n
      <4>1. CASE d.rev = k
        BY <4>0, <4>1, <2>1 DEF AppState
      <4>2. CASE d.rev < k
        <5>1. PICK f \in Known : f.rev = k
          <6>1. k \in d.rev + 1 .. n
            BY <4>2, <3>4, <1>0
          <6>2. k \in Revisions(Known)
            BY <6>1 DEF StoreInv, CompleteOK, d, n
          <6> QED BY <6>2 DEF Revisions
        <5>2. f \in db.events
          <6>1. CASE f \in Buffered
            BY <6>1, <5>1, <3>1, <3>3 DEF StoreInv, EventsOK
          <6> QED BY <6>1, <5>1 DEF Known
        <5>3. f \in E
          BY <5>1, <5>2, <4>2 DEF E, Since
        <5> QED BY <5>1, <5>3, <4>2, <2>1, <1>0 DEF AppState
      <4> QED BY <4>0, <4>1, <4>2
    <3>6. u[k + 1] \in AppState /\ u[k + 1].rev = k + 1
      BY <3>2, <3>3, <3>5, <2>1, <1>0, ReduceType, ReplayedType
    <3>7. Agree(u[k + 1], H(k + 1))
      <4>1. Replayed(e) \in Action /\ H(k) \in AppState
        BY <3>3, <3>4, ReplayedType, HistoryType DEF StoreInv
      <4>2. Agree(u[k], H(k))
        BY <2>1, <3>5
      <4>3. Agree(u[k + 1], RootReduce(H(k), Replayed(e)))
        BY <3>2, <4>1, <4>2, <2>1, ReduceAgrees
      <4> QED BY <4>3, <3>4 DEF Agree
    <3>8. u[k + 1].sessions = u[k].sessions \cup AddedBy(e)
      <4>1. Replayed(e) \in Action /\ SessionsOf(Replayed(e)) = AddedBy(e)
        BY <3>3, ReplayedType, ReplaySessions
      <4> QED BY <3>2, <4>1, <2>1, ReduceForm
    <3>9. Added(E, d.rev, k + 1) = Added(E, d.rev, k) \cup AddedBy(e)
      <4> DEFINE F(m) == {f \in E : d.rev < f.rev /\ f.rev <= m}
      <4>1. \A f \in E : f.rev = k + 1 => f = e
        BY <3>1, <3>3, <1>0 DEF StoreInv, EventsOK
      <4>2. F(k + 1) = F(k) \cup {e}
        BY <4>1, <3>1, <1>0
      <4> HIDE DEF F
      <4>3. Added(E, d.rev, k + 1) = UNION {AddedBy(f) : f \in F(k + 1)}
            /\ Added(E, d.rev, k) = UNION {AddedBy(f) : f \in F(k)}
        BY DEF Added, F
      <4> QED BY <4>2, <4>3
    <3>10. \A r \in d.rev + 1 .. k + 1 : r \in Revisions(E)
      BY <2>1, <2>3, <3>5, <1>0
    <3>11. \A f \in E : f.rev <= k + 1 => f.rev <= u[k + 1].rev
      BY <3>6
    <3> HIDE DEF d, E, n
    <3>12. Reaches(k + 1)
      BY <3>3, <3>4, <3>6, <3>7, <3>10, <3>11, <1>0
    <3>13. Collects(k + 1)
      BY <2>1, <3>3, <3>5, <3>6, <3>8, <3>9, <1>0
    <3> QED BY <3>12, <3>13
  <2>4. CASE k + 1 \notin Revisions(E)
    <3>1. u[k + 1] = u[k]
      BY <2>2, <2>4 DEF ReplayStep
    <3>2. \A e \in E : e.rev <= k + 1 => e.rev <= k
      BY <2>4, <1>0 DEF Revisions
    <3> HIDE DEF u, d, E, n
    <3>3. u[k].rev \in Nat
      BY <2>1 DEF AppState
    <3> QED BY <3>1, <3>2, <3>3, <2>1, <1>0
  <2> QED BY <2>3, <2>4
<1>3. Nat \subseteq P
  <2> HIDE DEF P
  <2> QED BY <1>1, <1>2, Induction
<1>4. Reaches(MaxActions) /\ Collects(MaxActions)
  BY <1>3, <1>0
<1>5. ReplayFromStore = u[MaxActions]
  BY DEF ReplayFromStore, Replay
<1> HIDE DEF u
<1>6. \A e \in db.events : e.rev <= u[MaxActions].rev
  <2> SUFFICES ASSUME NEW e \in db.events PROVE e.rev <= u[MaxActions].rev
    OBVIOUS
  <2>1. e \in Event /\ e.rev \in Nat /\ e.rev <= MaxActions /\ u[MaxActions].rev \in Nat
    BY <1>0, <1>4, KnownType DEF Known, StoreInv, Event, Ids, AppState
  <2>2. CASE d.rev < e.rev
    BY <2>1, <2>2, <1>4 DEF Since
  <2>3. CASE e.rev <= d.rev
    BY <2>1, <2>3, <1>0, <1>4
  <2> QED BY <2>1, <2>2, <2>3, <1>0
<1>7. \A r \in d.rev + 1 .. u[MaxActions].rev : r \in Revisions(db.events)
  BY <1>4, <1>0 DEF Revisions
<1>8. Added(E, d.rev, u[MaxActions].rev) = Added(db.events, d.rev, u[MaxActions].rev)
  <2> DEFINE m == u[MaxActions].rev
  <2>1. {f \in E : d.rev < f.rev /\ f.rev <= m} = {f \in db.events : d.rev < f.rev /\ f.rev <= m}
    BY DEF Since
  <2> QED BY <2>1 DEF Added
<1>9. u[MaxActions].rev \in d.rev .. n
  BY <1>0, <1>4 DEF AppState
<1> QED BY <1>4, <1>5, <1>6, <1>7, <1>8, <1>9

-----------------------------------------------------------------------------
(* The invariant is inductive when every read succeeds                     *)

\* The parts that only see the history, the known events and the tables.
LEMMA SameLog ==
  ASSUME history' = history, Known' = Known, db' = db
  PROVE  /\ \A r : H(r)' = H(r)
         /\ LoadLatest' = LoadLatest
         /\ ChainOK' <=> ChainOK
         /\ CompleteOK' <=> CompleteOK
         /\ \A s : Covers(s)' <=> Covers(s)
<1>1. \A r : H(r)' = H(r)
  BY DEF H
<1>2. LoadLatest' = LoadLatest
  BY DEF LoadLatest
<1>3. ChainOK' <=> ChainOK
  BY <1>1 DEF ChainOK
<1>4. CompleteOK' <=> CompleteOK
  BY <1>2 DEF CompleteOK
<1>5. \A s : Covers(s)' <=> Covers(s)
  BY <1>1 DEF Covers
<1> QED BY <1>1, <1>2, <1>3, <1>4, <1>5

LEMMA InitStore == Init => StoreInv
<1> SUFFICES ASSUME Init PROVE StoreInv
  OBVIOUS
<1>1. Types /\ NewestOK
  BY InitTypes
<1>2. /\ Len(history) = 0 /\ history \in Seq(AppState) /\ H(0) = Zero
      /\ count.actions = 0 /\ LoadLatest = Zero /\ Zero.rev = 0 /\ Zero.sessions = {}
  BY DEF Init, H, LoadLatest, Zero
<1>3. Known = {} /\ dispatch.step = "idle" /\ Buffered = {} /\ Pending = {}
  BY DEF Init, Known, Buffered, Pending, Idle, Free
<1>4. HistoryOK
  BY <1>2, <1>3 DEF HistoryOK, Init
<1>5. EventsOK
  BY <1>3 DEF EventsOK, Known, Init, Free
<1>6. ChainOK /\ CompleteOK
  BY <1>2, <1>3 DEF ChainOK, CompleteOK
<1>7. SnapshotsOK
  BY DEF SnapshotsOK, Init, Free
<1>8. LatestOK
  <2>1. Own({}) = {}
    BY DEF Own
  <2>2. \A r \in Zero.rev .. Len(history) : r = 0
    BY <1>2
  <2>3. Covers(Zero)
    <3>1. \A r \in Zero.rev .. Len(history) : Own(H(r).sessions) = {}
      BY <1>2, <2>1, <2>2
    <3> QED BY <3>1 DEF Covers
  <2> QED BY <1>2, <2>3 DEF LatestOK, Init, Agree
<1> QED BY <1>1, <1>4, <1>5, <1>6, <1>7, <1>8 DEF StoreInv

LEMMA AppendActionStore ==
  ASSUME StoreInv, AppendAction PROVE StoreInv'
<1>1. /\ dispatch.step = "action" /\ dispatch'.step = "event"
      /\ dispatch'.action = dispatch.action /\ dispatch'.new = dispatch.new
      /\ UNCHANGED <<state, sessions, evtBuf, ssBuf, flusher, db, history, count>>
  BY DEF AppendAction, StoreInv, Types
<1>2. Types' /\ NewestOK'
  BY DispatchTypes DEF StoreInv
<1>3. Pending' = Pending /\ Buffered' = Buffered /\ Known' = Known /\ Unsaved' = Unsaved
  BY <1>1 DEF Pending, Buffered, Known, Unsaved
<1>4. /\ \A r : H(r)' = H(r)
      /\ LoadLatest' = LoadLatest /\ (ChainOK' <=> ChainOK) /\ (CompleteOK' <=> CompleteOK)
      /\ \A s : Covers(s)' <=> Covers(s)
  BY <1>1, <1>3, SameLog
<1>5. HistoryOK'
  BY <1>1, <1>4 DEF StoreInv, HistoryOK
<1>6. EventsOK'
  BY <1>1, <1>3 DEF StoreInv, EventsOK
<1>7. SnapshotsOK' /\ LatestOK'
  BY <1>1, <1>3, <1>4 DEF StoreInv, SnapshotsOK, LatestOK, WaitingOK, SavedBefore
<1> QED BY <1>2, <1>4, <1>5, <1>6, <1>7 DEF StoreInv

LEMMA AppendEventsStore ==
  ASSUME StoreInv, AppendEvents PROVE StoreInv'
<1>1. /\ dispatch.step = "event" /\ dispatch'.step = "save"
      /\ dispatch'.action = dispatch.action /\ dispatch'.new = dispatch.new
      /\ evtBuf' = evtBuf \cup {StoredEvent(dispatch.action, dispatch.new.rev)}
      /\ UNCHANGED <<state, sessions, ssBuf, flusher, db, history, count>>
  BY DEF AppendEvents, StoreInv, Types
<1>2. Types' /\ NewestOK'
  BY DispatchTypes DEF StoreInv
<1>3. /\ Pending' = {} /\ evtBuf' = evtBuf \cup Pending
      /\ Buffered' = Buffered /\ Known' = Known /\ Unsaved' = Unsaved
  BY <1>1 DEF Pending, Buffered, Known, Unsaved
<1>4. /\ \A r : H(r)' = H(r)
      /\ LoadLatest' = LoadLatest /\ (ChainOK' <=> ChainOK) /\ (CompleteOK' <=> CompleteOK)
      /\ \A s : Covers(s)' <=> Covers(s)
  BY <1>1, <1>3, SameLog
<1>5. HistoryOK'
  BY <1>1, <1>4 DEF StoreInv, HistoryOK
<1>6. EventsOK'
  BY <1>1, <1>3 DEF StoreInv, EventsOK
<1>7. SnapshotsOK' /\ LatestOK'
  BY <1>1, <1>3, <1>4 DEF StoreInv, SnapshotsOK, LatestOK, WaitingOK, SavedBefore
<1> QED BY <1>2, <1>4, <1>5, <1>6, <1>7 DEF StoreInv

LEMMA SaveStore ==
  ASSUME StoreInv, Save PROVE StoreInv'
<1> DEFINE n == Len(history)
<1>1. /\ dispatch.step = "save" /\ dispatch'.step = "commit"
      /\ dispatch'.action = dispatch.action /\ dispatch'.new = dispatch.new
      /\ ssBuf' = dispatch.new
      /\ UNCHANGED <<state, sessions, evtBuf, flusher, db, history, count>>
  BY DEF Save, StoreInv, Types
<1>2. Types' /\ NewestOK'
  BY DispatchTypes DEF StoreInv
<1>3. /\ Pending' = {} /\ Pending = {} /\ Buffered' = Buffered /\ Known' = Known
      /\ Unsaved /\ ~ Unsaved'
  BY <1>1 DEF Pending, Buffered, Known, Unsaved
<1>4. /\ \A r : H(r)' = H(r)
      /\ LoadLatest' = LoadLatest /\ (ChainOK' <=> ChainOK) /\ (CompleteOK' <=> CompleteOK)
      /\ \A s : Covers(s)' <=> Covers(s)
  BY <1>1, <1>3, SameLog
<1>5. HistoryOK'
  BY <1>1, <1>4 DEF StoreInv, HistoryOK
<1>6. EventsOK'
  BY <1>1, <1>3 DEF StoreInv, EventsOK
<1>7. LatestOK'
  BY <1>1, <1>3, <1>4 DEF StoreInv, LatestOK, SavedBefore
<1>8. n \in Nat /\ n > 0 /\ dispatch.new = history[n] /\ dispatch.new.rev = n
      /\ H(n) = history[n] /\ sessions = history[n].sessions
  BY <1>1, HistoryType DEF StoreInv, HistoryOK, H
<1>9. WaitingOK(dispatch.new)'
  <2>1. Covers(dispatch.new)
    BY <1>8 DEF Covers, Own
  <2>2. \A d \in db.snapshots : d.rev < n
    BY <1>3 DEF StoreInv, LatestOK, SavedBefore
  <2> QED BY <1>1, <1>3, <1>4, <1>8, <2>1, <2>2 DEF WaitingOK, SavedBefore
<1>10. flusher.ss # None => WaitingOK(flusher.ss)' /\ flusher.ss.rev < n
  BY <1>1, <1>3, <1>4 DEF StoreInv, SnapshotsOK, WaitingOK, SavedBefore
<1>11. SnapshotsOK'
  BY <1>1, <1>8, <1>9, <1>10 DEF StoreInv, SnapshotsOK
<1> QED BY <1>2, <1>4, <1>5, <1>6, <1>7, <1>11 DEF StoreInv

LEMMA CommitStore ==
  ASSUME StoreInv, Commit PROVE StoreInv'
<1>1. /\ dispatch.step = "commit" /\ dispatch'.step = "idle"
      /\ state' = dispatch.new
      /\ UNCHANGED <<sessions, evtBuf, ssBuf, flusher, db, history, count>>
  BY DEF Commit, StoreInv, Types, Idle
<1>2. Types' /\ NewestOK'
  BY DispatchTypes DEF StoreInv
<1>3. Pending' = Pending /\ Buffered' = Buffered /\ Known' = Known /\ Unsaved' = Unsaved
  BY <1>1 DEF Pending, Buffered, Known, Unsaved
<1>4. /\ \A r : H(r)' = H(r)
      /\ LoadLatest' = LoadLatest /\ (ChainOK' <=> ChainOK) /\ (CompleteOK' <=> CompleteOK)
      /\ \A s : Covers(s)' <=> Covers(s)
  BY <1>1, <1>3, SameLog
<1>5. HistoryOK'
  BY <1>1, <1>4 DEF StoreInv, HistoryOK
<1>6. EventsOK'
  BY <1>1, <1>3 DEF StoreInv, EventsOK
<1>7. SnapshotsOK' /\ LatestOK'
  BY <1>1, <1>3, <1>4 DEF StoreInv, SnapshotsOK, LatestOK, WaitingOK, SavedBefore
<1> QED BY <1>2, <1>4, <1>5, <1>6, <1>7 DEF StoreInv

\* The flush loop without Flush, which alone changes the tables.
LEMMA DrainStore ==
  ASSUME StoreInv, FlushLoop \/ Close, ~ Flush PROVE StoreInv'
<1>1. Types' /\ NewestOK'
  BY FlushLoopTypes DEF StoreInv
<1>2. UNCHANGED <<state, sessions, dispatch, history, db>>
  BY DEF FlushLoop, DrainActions, DrainEvents, DrainSnapshot, FlushFails,
         RequeueActions, RequeueEvents, RequeueSnapshot, Close
<1>3. Pending' = Pending /\ Unsaved' = Unsaved
  BY <1>2 DEF Pending, Unsaved
\* The events move from one buffer to the other, in their order.
<1>4. /\ (flusher.evt \cup evtBuf)' = flusher.evt \cup evtBuf
      /\ flusher'.step \in {"idle", "events", "requeueSnapshot", "closed"} => flusher'.evt = {}
      /\ flusher'.evt = {} \/ (flusher'.evt = evtBuf /\ evtBuf' = {})
           \/ (flusher'.evt = flusher.evt /\ evtBuf' = evtBuf)
  <2> USE DEF StoreInv, EventsOK
  <2>1. CASE \E final \in BOOLEAN : DrainActions(final)
    BY <2>1 DEF DrainActions, Free
  <2>2. CASE DrainEvents
    BY <2>2 DEF DrainEvents, Types
  <2>3. CASE DrainSnapshot
    BY <2>3 DEF DrainSnapshot, Types, Done, Free
  <2>4. CASE FlushFails
    BY <2>4 DEF FlushFails, Types
  <2>5. CASE RequeueActions
    BY <2>5 DEF RequeueActions, Types
  <2>6. CASE RequeueEvents
    BY <2>6 DEF RequeueEvents, Types
  <2>7. CASE RequeueSnapshot
    BY <2>7 DEF RequeueSnapshot, Types, Done, Free
  <2>8. CASE Close
    BY <2>8 DEF Close, Types
  <2> QED BY <2>1, <2>2, <2>3, <2>4, <2>5, <2>6, <2>7, <2>8 DEF FlushLoop
\* So does the snapshot, unless a later one has been saved meanwhile.
<1>5. /\ flusher'.step \in {"idle", "events", "snapshot", "closed"} => flusher'.ss = None
      /\ \/ flusher'.ss = flusher.ss /\ ssBuf' = ssBuf
         \/ flusher'.ss = ssBuf /\ ssBuf' = None
         \/ flusher'.ss = None /\ ssBuf' \in {flusher.ss, ssBuf}
  <2> USE DEF StoreInv, SnapshotsOK
  <2>1. CASE \E final \in BOOLEAN : DrainActions(final)
    BY <2>1 DEF DrainActions, Free
  <2>2. CASE DrainEvents
    BY <2>2 DEF DrainEvents, Types
  <2>3. CASE DrainSnapshot
    BY <2>3 DEF DrainSnapshot, Types, Done, Free
  <2>4. CASE FlushFails
    BY <2>4 DEF FlushFails, Types
  <2>5. CASE RequeueActions
    BY <2>5 DEF RequeueActions, Types
  <2>6. CASE RequeueEvents
    BY <2>6 DEF RequeueEvents, Types
  <2>7. CASE RequeueSnapshot
    BY <2>7 DEF RequeueSnapshot, Types, Done, Free
  <2>8. CASE Close
    BY <2>8 DEF Close, Types
  <2> QED BY <2>1, <2>2, <2>3, <2>4, <2>5, <2>6, <2>7, <2>8 DEF FlushLoop
<1>6. Buffered' = Buffered /\ Known' = Known
  <2>1. Buffered' = Buffered
    BY <1>3, <1>4 DEF Buffered
  <2> QED BY <2>1, <1>2 DEF Known
<1>7. /\ \A r : H(r)' = H(r)
      /\ LoadLatest' = LoadLatest /\ (ChainOK' <=> ChainOK) /\ (CompleteOK' <=> CompleteOK)
      /\ \A s : Covers(s)' <=> Covers(s)
  BY <1>2, <1>6, SameLog
<1>8. HistoryOK'
  <2>1. count'.actions = count.actions
    BY DEF FlushLoop, DrainActions, DrainEvents, DrainSnapshot, FlushFails,
           RequeueActions, RequeueEvents, RequeueSnapshot, Close, StoreInv, Types
  <2> QED BY <1>2, <1>7, <2>1 DEF StoreInv, HistoryOK
<1>9. EventsOK'
  <2>1. \A e \in flusher'.evt, f \in evtBuf' \cup Pending' : e.rev < f.rev
    BY <1>3, <1>4 DEF StoreInv, EventsOK
  <2>2. \A e \in evtBuf', f \in Pending' : e.rev < f.rev
    BY <1>3, <1>4 DEF StoreInv, EventsOK
  <2> QED BY <1>2, <1>4, <1>6, <2>1, <2>2 DEF StoreInv, EventsOK
<1>10. \A s : WaitingOK(s)' <=> WaitingOK(s)
  BY <1>2, <1>3, <1>7 DEF WaitingOK, SavedBefore
<1>11. SnapshotsOK'
  BY <1>5, <1>10 DEF StoreInv, SnapshotsOK
<1>12. LatestOK'
  BY <1>2, <1>3, <1>7 DEF StoreInv, LatestOK, SavedBefore
<1> QED BY <1>1, <1>7, <1>8, <1>9, <1>11, <1>12 DEF StoreInv

LEMMA FlushStore ==
  ASSUME StoreInv, Flush PROVE StoreInv'
<1> DEFINE ss == flusher.ss
           m  == Marshal(ss)
<1>1. /\ flusher.step = "flush" /\ flusher'.evt = {} /\ flusher'.ss = None
      /\ db'.events = InsertEvents(db.events, flusher.evt)
      /\ db'.snapshots = InsertSnapshot(db.snapshots, ss)
      /\ UNCHANGED <<state, sessions, dispatch, evtBuf, ssBuf, history, count>>
  BY DEF Flush, Done, Free
<1>2. Types' /\ NewestOK'
  BY FlushTypes DEF StoreInv
<1>3. Pending' = Pending /\ Unsaved' = Unsaved /\ \A r : H(r)' = H(r)
  BY <1>1 DEF Pending, Unsaved, H
\* No event of the flush is in the table yet.
<1>4. db'.events = db.events \cup flusher.evt
  <2>1. \A e \in flusher.evt, d \in db.events : d.rev # e.rev
    <3>1. \A e \in flusher.evt, d \in db.events : d.rev < e.rev
      BY DEF StoreInv, EventsOK, Buffered
    <3>2. \A d \in db.events : d.rev \in Nat
      BY DEF StoreInv, Types, CountedEvt, Event, Ids
    <3> QED BY <3>1, <3>2
  <2> QED BY <1>1, <2>1 DEF InsertEvents
<1>5. Known' = Known /\ Buffered' = evtBuf \cup Pending
  <2>1. Buffered' = evtBuf \cup Pending
    BY <1>1, <1>3 DEF Buffered
  <2> QED BY <1>4, <2>1 DEF Known, Buffered
<1>6. HistoryOK'
  BY <1>1, <1>3 DEF StoreInv, HistoryOK
<1>7. EventsOK'
  <2>1. \A e \in db'.events, f \in Buffered' : e.rev < f.rev
    BY <1>4, <1>5 DEF StoreInv, EventsOK, Buffered
  <2> QED BY <1>1, <1>3, <1>5, <2>1 DEF StoreInv, EventsOK
<1>8. ChainOK' /\ \A s : Covers(s)' <=> Covers(s)
  BY <1>1, <1>3, <1>5 DEF StoreInv, ChainOK, Covers
<1>9. CASE ss = None
  <2>1. db'.snapshots = db.snapshots /\ LoadLatest' = LoadLatest
    BY <1>1, <1>9 DEF InsertSnapshot, LoadLatest
  <2>2. CompleteOK'
    BY <1>1, <1>5, <2>1 DEF StoreInv, CompleteOK
  <2>3. SnapshotsOK'
    BY <1>1, <1>3, <1>8, <2>1 DEF StoreInv, SnapshotsOK, WaitingOK, SavedBefore
  <2>4. LatestOK'
    BY <1>1, <1>3, <1>8, <2>1 DEF StoreInv, LatestOK, SavedBefore
  <2> QED BY <1>2, <1>6, <1>7, <1>8, <2>2, <2>3, <2>4 DEF StoreInv
<1>10. CASE ss # None
  <2>1. Counted(ss) /\ WaitingOK(ss) /\ sessions \subseteq SessionIds
    BY <1>10 DEF StoreInv, Types, SnapshotsOK
  <2>2. /\ Counted(m) /\ m.rev = ss.rev /\ Agree(m, ss)
        /\ m.sessions = IF ss.sessions = {} THEN {} ELSE sessions
    BY <2>1, MarshalType
  <2>3. /\ \A d \in db.snapshots : d.rev < ss.rev /\ d.rev \in Nat
        /\ ss.rev \in Nat
    BY <2>1 DEF WaitingOK, StoreInv, Types, Counted, AppState
  <2>4. db'.snapshots = db.snapshots \cup {m}
    BY <1>1, <1>10, <2>3 DEF InsertSnapshot
  <2> HIDE DEF m
  <2>5. LoadLatest' = m
    <3>1. LoadLatest' \in db'.snapshots /\ \A u \in db'.snapshots : u.rev <= LoadLatest'.rev
      BY <1>2, <2>4, NewestIsLast DEF NewestOK, LoadLatest
    <3> QED BY <3>1, <2>2, <2>3, <2>4
  <2>6. SavedBefore(m) /\ Covers(m)
    <3>1. ss.sessions \subseteq m.sessions
      BY <2>1, <2>2 DEF WaitingOK
    <3> QED BY <2>1, <2>2, <3>1 DEF WaitingOK, SavedBefore, Covers
  <2>7. LoadLatest.rev \in Nat /\ LoadLatest.rev < m.rev
    <3>1. LoadLatest = Zero \/ LoadLatest \in db.snapshots
      BY LatestSnapshot DEF StoreInv
    <3>2. 0 < ss.rev
      BY <2>1 DEF WaitingOK, SavedBefore
    <3> QED BY <3>1, <3>2, <2>2, <2>3 DEF Zero
  <2>8. CompleteOK'
    <3>1. \A r \in m.rev + 1 .. Len(history) : r \in LoadLatest.rev + 1 .. Len(history)
      BY <2>2, <2>3, <2>7, HistoryType DEF StoreInv
    <3> QED BY <1>1, <1>5, <2>5, <3>1 DEF StoreInv, CompleteOK
  <2>9. SnapshotsOK'
    <3>1. ssBuf # None => ss.rev < ssBuf.rev /\ WaitingOK(ssBuf)
      BY <1>10 DEF StoreInv, SnapshotsOK
    <3>2. ssBuf # None => WaitingOK(ssBuf)'
      BY <1>1, <1>3, <1>8, <2>2, <2>4, <3>1 DEF WaitingOK, SavedBefore
    <3> QED BY <1>1, <3>2 DEF SnapshotsOK
  <2>10. LatestOK'
    <3>1. \A d \in db'.snapshots : SavedBefore(d)'
      BY <1>1, <1>3, <2>4, <2>6 DEF StoreInv, LatestOK, SavedBefore
    <3>2. m.rev <= Len(history) /\ Agree(m, H(m.rev))
      BY <2>1, <2>2 DEF WaitingOK, SavedBefore, H
    <3> QED BY <1>1, <1>3, <1>8, <2>5, <2>6, <3>1, <3>2 DEF LatestOK
  <2> QED BY <1>2, <1>6, <1>7, <1>8, <2>8, <2>9, <2>10 DEF StoreInv
<1> QED BY <1>9, <1>10

\* A Dispatch adds one revision with its event.
LEMMA ReduceStore ==
  ASSUME StoreInv, NEW kind, NEW corr \in BOOLEAN, Reduce(kind, corr)
  PROVE  StoreInv'
<1>0. PICK n, a, new, e :
        /\ n = Len(history)
        /\ a = [id |-> count.actions + 1, kind |-> kind, corr |-> corr]
        /\ new = RootReduce(H(n), a)
        /\ e = StoredEvent(a, n + 1)
  OBVIOUS
<1>1. Types' /\ NewestOK'
  BY ReduceTypes DEF StoreInv
<1>2. /\ n \in Nat /\ H(n) \in AppState /\ H(n).rev = n
      /\ dispatch.step = "idle" /\ count.actions < MaxActions /\ count.actions \in Nat
      /\ n <= count.actions /\ MaxActions \in Nat
  BY <1>0, HistoryType, CountType, BoundIsNat DEF StoreInv, HistoryOK, Reduce, MaxIsNat
<1>3. a \in Action
  BY <1>0, <1>2, KindsAssumption DEF Action, Reduce, Ids
<1>4. H(n) = [state EXCEPT !.sessions = sessions]
  <2>1. state = H(n) /\ sessions = H(n).sessions
    BY <1>0, <1>2 DEF StoreInv, HistoryOK
  <2> QED BY <1>2, <2>1 DEF AppState
<1>5. /\ dispatch' = [step |-> "action", action |-> a, new |-> new]
      /\ sessions' = new.sessions /\ history' = Append(history, new)
      /\ count'.actions = count.actions + 1
      /\ UNCHANGED <<state, evtBuf, ssBuf, flusher, db>>
  BY <1>0, <1>2, <1>4 DEF Reduce, StoreInv, Types
<1>6. /\ new \in AppState /\ new.rev = n + 1
      /\ new.sessions = H(n).sessions \cup SessionsOf(a)
      /\ Agree(new, RootReduce(H(n), Replayed(e)))
  <2>1. new \in AppState /\ new.rev = n + 1
    BY <1>0, <1>2, <1>3, ReduceType
  <2>2. /\ Replayed(e) \in Action
        /\ Replayed(e).kind = a.kind /\ Replayed(e).id = a.id
    <3>1. n + 1 \in Ids
      BY <1>2 DEF Ids
    <3>2. e \in Event /\ e.kind = a.kind /\ e.id = a.id
      BY <1>0, <1>3, <3>1 DEF StoredEvent, Event, Action
    <3> QED BY <3>2, ReplayedType DEF Replayed
  <2>3. new = [rev      |-> H(n).rev + 1,
               tab      |-> IF a.kind = "tab" THEN a.id ELSE H(n).tab,
               wizard   |-> IF a.kind = "wizard" THEN a.id ELSE H(n).wizard,
               active   |-> IF a.kind = "chat" THEN a.id ELSE H(n).active,
               sessions |-> H(n).sessions \cup SessionsOf(a)]
    BY <1>0, <1>2, <1>3, ReduceForm
  <2>4. RootReduce(H(n), Replayed(e))
          = [rev      |-> H(n).rev + 1,
             tab      |-> IF a.kind = "tab" THEN a.id ELSE H(n).tab,
             wizard   |-> IF a.kind = "wizard" THEN a.id ELSE H(n).wizard,
             active   |-> IF a.kind = "chat" THEN a.id ELSE H(n).active,
             sessions |-> H(n).sessions \cup SessionsOf(Replayed(e))]
    BY <1>2, <2>2, ReduceForm
  <2> QED BY <2>1, <2>3, <2>4 DEF Agree
<1>7. Own(SessionsOf(a)) \subseteq AddedBy(e) /\ e.rev = n + 1
  BY <1>0, <1>3 DEF SessionsOf, sessionID, AddedBy, StoredEvent, Own, Action, AllKinds
<1>8. Pending = {} /\ Pending' = {e} /\ ~ Unsaved /\ Unsaved'
  BY <1>0, <1>2, <1>5, <1>6 DEF Pending, Unsaved
<1>9. /\ Len(history') = n + 1 /\ history' \in Seq(AppState)
      /\ history'[n + 1] = new /\ \A r \in 1 .. n : history'[r] = history[r]
      /\ H(n + 1)' = new /\ \A r \in 0 .. n : H(r)' = H(r)
  <2>1. /\ Len(history') = n + 1 /\ history' \in Seq(AppState)
        /\ history'[n + 1] = new /\ \A r \in 1 .. n : history'[r] = history[r]
    <3> QED BY <1>0, <1>5, <1>6 DEF StoreInv, HistoryOK
  <2> QED BY <1>2, <2>1 DEF H
<1>10. Buffered' = Buffered \cup {e} /\ Known' = Known \cup {e}
  BY <1>5, <1>8 DEF Buffered, Known
<1>11. \A f \in Known : f.rev \in 1 .. n
  BY <1>0 DEF StoreInv, ChainOK
<1>12. HistoryOK'
  <2>1. \A r \in 1 .. n + 1 : history'[r].rev = r
    BY <1>0, <1>2, <1>6, <1>9 DEF StoreInv, HistoryOK
  <2>2. sessions' = H(n + 1)'.sessions
    BY <1>5, <1>9
  <2>3. state' = H(n)' /\ dispatch'.new = H(n + 1)' /\ dispatch'.step # "idle"
    BY <1>0, <1>2, <1>5, <1>9 DEF StoreInv, HistoryOK
  <2>4. Len(history') > 0 /\ Len(history') - 1 = n /\ Len(history') <= count'.actions
    BY <1>2, <1>5, <1>9
  <2> QED BY <1>9, <2>1, <2>2, <2>3, <2>4 DEF HistoryOK
<1>13. EventsOK'
  <2>1. \A f \in Known : f.rev < e.rev /\ f.rev # e.rev
    BY <1>2, <1>7, <1>11
  <2>2. \A f, g \in Known' : f.rev = g.rev => f = g
    BY <1>10, <2>1 DEF StoreInv, EventsOK
  <2>3. \A f \in db'.events, g \in Buffered' : f.rev < g.rev
    BY <1>5, <1>10, <2>1 DEF StoreInv, EventsOK, Known
  <2>4. /\ \A f \in flusher'.evt, g \in evtBuf' \cup Pending' : f.rev < g.rev
        /\ \A f \in evtBuf', g \in Pending' : f.rev < g.rev
    BY <1>5, <1>8, <2>1 DEF StoreInv, EventsOK, Known, Buffered
  <2>5. flusher'.step \in {"idle", "events", "requeueSnapshot", "closed"} => flusher'.evt = {}
    BY <1>5 DEF StoreInv, EventsOK
  <2> QED BY <2>2, <2>3, <2>4, <2>5 DEF EventsOK
<1>14. ChainOK'
  <2>1. ASSUME NEW f \in Known'
        PROVE  f.rev \in 1 .. n + 1 /\ Agree(H(f.rev)', RootReduce(H(f.rev - 1)', Replayed(f)))
    <3>1. CASE f \in Known
      <4>1. f.rev \in 1 .. n /\ Agree(H(f.rev), RootReduce(H(f.rev - 1), Replayed(f)))
        BY <1>0, <3>1 DEF StoreInv, ChainOK
      <4>2. H(f.rev)' = H(f.rev) /\ H(f.rev - 1)' = H(f.rev - 1)
        BY <1>2, <1>9, <4>1
      <4> QED BY <1>2, <4>1, <4>2
    <3>2. CASE f = e
      BY <1>2, <1>6, <1>7, <1>9, <3>2
    <3> QED BY <1>10, <3>1, <3>2
  <2> QED BY <1>9, <2>1 DEF ChainOK
<1>15. LoadLatest' = LoadLatest /\ LoadLatest.rev \in Nat /\ LoadLatest.rev <= n
  BY <1>0, <1>5, LatestSnapshot DEF LoadLatest, StoreInv, LatestOK, Counted, AppState
<1>16. CompleteOK'
  <2>1. \A r \in LoadLatest.rev + 1 .. n + 1 : r = n + 1 \/ r \in Revisions(Known)
    BY <1>0, <1>2, <1>15 DEF StoreInv, CompleteOK
  <2>2. Revisions(Known') = Revisions(Known) \cup {n + 1}
    BY <1>7, <1>10 DEF Revisions
  <2> QED BY <1>9, <1>15, <2>1, <2>2 DEF CompleteOK
<1>17. ASSUME NEW s, s.rev \in 0 .. n, Covers(s) PROVE Covers(s)'
  <2>1. ASSUME NEW r \in s.rev .. n + 1
        PROVE  Own(H(r)'.sessions) \subseteq s.sessions \cup Added(Known', s.rev, r)
    <3>1. CASE r # n + 1
      <4>1. r \in s.rev .. n /\ H(r)' = H(r)
        BY <1>2, <1>9, <1>17, <3>1
      <4>2. Own(H(r).sessions) \subseteq s.sessions \cup Added(Known, s.rev, r)
        BY <1>0, <1>17, <4>1 DEF Covers
      <4>3. Added(Known, s.rev, r) \subseteq Added(Known', s.rev, r)
        BY <1>10 DEF Added
      <4> QED BY <4>1, <4>2, <4>3
    <3>2. CASE r = n + 1
      <4>1. Own(H(n).sessions) \subseteq s.sessions \cup Added(Known, s.rev, n)
        BY <1>0, <1>2, <1>17 DEF Covers
      <4>2. AddedBy(e) \subseteq Added(Known', s.rev, n + 1)
        BY <1>2, <1>7, <1>10, <1>17 DEF Added
      <4>3. Added(Known, s.rev, n) \subseteq Added(Known', s.rev, n + 1)
        BY <1>2, <1>10, <1>11 DEF Added
      <4>4. Own(new.sessions) = Own(H(n).sessions) \cup Own(SessionsOf(a))
        BY <1>6 DEF Own
      <4> QED BY <1>7, <1>9, <3>2, <4>1, <4>2, <4>3, <4>4
    <3> QED BY <3>1, <3>2
  <2> QED BY <1>9, <2>1 DEF Covers
<1>18. ASSUME NEW s, SavedBefore(s) PROVE SavedBefore(s)'
  BY <1>0, <1>2, <1>9, <1>18 DEF SavedBefore
<1>19. ASSUME NEW s, WaitingOK(s) PROVE WaitingOK(s)'
  <2>1. s.rev \in 0 .. n /\ s.rev \in 1 .. n
    BY <1>0, <1>2, <1>19 DEF WaitingOK, SavedBefore
  <2>2. sessions \subseteq sessions'
    BY <1>0, <1>5, <1>6 DEF StoreInv, HistoryOK
  <2> QED BY <1>5, <1>9, <1>17, <1>18, <1>19, <2>1, <2>2 DEF WaitingOK
<1>20. SnapshotsOK'
  BY <1>5, <1>19 DEF StoreInv, SnapshotsOK
<1>21. LatestOK'
  <2>1. H(LoadLatest.rev)' = H(LoadLatest.rev) /\ LoadLatest.rev \in 0 .. n
    BY <1>2, <1>9, <1>15
  <2> QED BY <1>2, <1>5, <1>9, <1>15, <1>17, <1>18, <2>1 DEF StoreInv, LatestOK
<1> QED BY <1>1, <1>12, <1>13, <1>14, <1>16, <1>20, <1>21 DEF StoreInv

\* A restart keeps the revisions up to the one it recovers.
LEMMA RestartStore ==
  ASSUME StoreInv, Restart PROVE StoreInv'
<1>0. PICK s, n, d : s = ReplayFromStore /\ n = s.rev /\ d = LoadLatest
  OBVIOUS
<1>1. Types' /\ NewestOK'
  BY RestartTypes DEF StoreInv
<1>2. /\ s \in AppState /\ n \in Nat /\ d.rev \in Nat /\ d.rev <= n /\ n <= Len(history)
      /\ d \in AppState
      /\ \A e \in db.events : e.rev <= n
      /\ \A r \in d.rev + 1 .. n : r \in Revisions(db.events)
      /\ Agree(s, H(n))
      /\ s.sessions = d.sessions \cup Added(db.events, d.rev, n)
      /\ n = d.rev => s = d
  <2>1. Types /\ NewestOK
    BY DEF StoreInv
  <2>2. d \in AppState
    BY <1>0, <2>1, LatestSnapshot DEF Counted
  <2> QED BY <1>0, <2>2, Recovery DEF AppState
<1>3. /\ state' = s /\ sessions' = s.sessions /\ dispatch' = Idle
      /\ evtBuf' = {} /\ ssBuf' = None /\ flusher' = Free /\ db' = db
      /\ history' = [r \in 1 .. n |-> IF r < n /\ r \in DOMAIN history THEN history[r] ELSE s]
      /\ count'.actions = count.actions
  BY <1>0 DEF Restart, Start, StoreInv, Types
<1>4. n = 0 => s = Zero
  <2>1. ASSUME n = 0 PROVE s = Zero
    <3>1. db.snapshots = {}
      <4>1. \A x \in db.snapshots : x.rev \in Nat /\ 1 <= x.rev /\ x.rev <= d.rev
        BY <1>0, LatestSnapshot DEF StoreInv, LatestOK, SavedBefore
      <4> QED BY <1>2, <2>1, <4>1
    <3>2. d = Zero
      BY <1>0, <3>1, LatestSnapshot DEF StoreInv
    <3> QED BY <1>2, <2>1, <3>2
  <2> QED BY <2>1
<1>5. /\ \A r \in 0 .. Len(history) : H(r) \in AppState /\ H(r).rev = r
      /\ Len(history) \in Nat
      /\ DOMAIN history = 1 .. Len(history)
  BY HistoryType DEF StoreInv, HistoryOK
<1>6. /\ history' \in Seq(AppState) /\ Len(history') = n
      /\ H(n)' = s /\ \A r \in 0 .. n - 1 : H(r)' = H(r)
      /\ \A r \in 1 .. n : history'[r] = H(r)'
  <2>1. \A r \in 1 .. n : history'[r] = IF r < n THEN H(r) ELSE s
    BY <1>2, <1>3, <1>5 DEF H
  <2>2. \A r \in 1 .. n : history'[r] \in AppState
    BY <1>2, <1>5, <2>1
  <2>3. history' \in Seq(AppState) /\ Len(history') = n
    <3>1. history' \in [1 .. n -> AppState]
      BY <1>2, <1>3, <2>2
    <3> QED BY <1>2, <3>1
  <2> QED BY <1>2, <1>4, <2>1, <2>3 DEF H
\* The new history agrees with the old one.
<1>7. \A r \in 0 .. n : H(r)' \in AppState /\ H(r)'.rev = r /\ Agree(H(r)', H(r))
  <2>1. ASSUME NEW r \in 0 .. n PROVE H(r)' \in AppState /\ H(r)'.rev = r /\ Agree(H(r)', H(r))
    <3>1. CASE r = n
      BY <1>0, <1>2, <1>6, <3>1
    <3>2. CASE r # n
      BY <1>2, <1>5, <1>6, <2>1, <3>2 DEF Agree
    <3> QED BY <3>1, <3>2
  <2> QED BY <2>1
<1>8. Pending' = {} /\ Buffered' = {} /\ Known' = db.events /\ ~ Unsaved'
  BY <1>3 DEF Pending, Buffered, Known, Unsaved, Idle, Free
<1>9. LoadLatest' = d
  BY <1>0, <1>3 DEF LoadLatest
<1>10. HistoryOK'
  <2>1. n <= count.actions
    BY <1>2, <1>5, CountType DEF StoreInv, HistoryOK
  <2>2. \A r \in 1 .. n : history'[r].rev = r
    BY <1>2, <1>6, <1>7
  <2>3. sessions' = H(n)'.sessions /\ state' = H(n)' /\ dispatch'.step = "idle"
    BY <1>3, <1>6 DEF Idle
  <2> QED BY <1>3, <1>6, <2>1, <2>2, <2>3 DEF HistoryOK
<1>11. EventsOK'
  BY <1>3, <1>8 DEF StoreInv, EventsOK, Known, Free
<1>12. ChainOK'
  <2>1. ASSUME NEW e \in db.events
        PROVE  e.rev \in 1 .. n /\ Agree(H(e.rev)', RootReduce(H(e.rev - 1)', Replayed(e)))
    <3>1. e \in Known /\ e \in Event
      BY KnownType DEF Known, StoreInv
    <3>2. e.rev \in 1 .. n /\ Agree(H(e.rev), RootReduce(H(e.rev - 1), Replayed(e)))
      BY <1>2, <1>5, <3>1 DEF StoreInv, ChainOK
    <3>3. Agree(H(e.rev)', H(e.rev)) /\ Agree(H(e.rev - 1)', H(e.rev - 1))
          /\ H(e.rev - 1)' \in AppState /\ H(e.rev - 1) \in AppState
      BY <1>2, <1>5, <1>7, <3>2
    <3>4. Agree(RootReduce(H(e.rev - 1)', Replayed(e)), RootReduce(H(e.rev - 1), Replayed(e)))
      BY <3>1, <3>3, ReduceAgrees, ReplayedType
    <3> QED BY <3>2, <3>3, <3>4 DEF Agree
  <2> QED BY <1>6, <1>8, <2>1 DEF ChainOK
<1>13. CompleteOK'
  BY <1>0, <1>2, <1>6, <1>8, <1>9 DEF CompleteOK
<1>14. Covers(d)'
  <2>1. ASSUME NEW r \in d.rev .. n
        PROVE  Own(H(r)'.sessions) \subseteq d.sessions \cup Added(db.events, d.rev, r)
    <3>1. CASE r = n
      BY <1>2, <1>6, <3>1 DEF Own
    <3>2. CASE r # n
      <4>1. H(r)' = H(r) /\ r \in d.rev .. Len(history) /\ r < n
        BY <1>2, <1>5, <1>6, <2>1, <3>2
      <4>2. Own(H(r).sessions) \subseteq d.sessions \cup Added(Known, d.rev, r)
        BY <1>0, <4>1 DEF StoreInv, LatestOK, Covers
      \* What is known up to there is written.
      <4>3. {f \in Known : d.rev < f.rev /\ f.rev <= r}
              \subseteq {f \in db.events : d.rev < f.rev /\ f.rev <= r}
        <5> SUFFICES ASSUME NEW f \in Known, d.rev < f.rev, f.rev <= r PROVE f \in db.events
          OBVIOUS
        <5>1. f.rev \in d.rev + 1 .. n
          BY <1>2, <1>5, <4>1 DEF StoreInv, ChainOK
        <5>2. PICK g \in db.events : g.rev = f.rev
          BY <1>2, <5>1 DEF Revisions
        <5> QED BY <5>2 DEF StoreInv, EventsOK, Known
      <4>4. Added(Known, d.rev, r) \subseteq Added(db.events, d.rev, r)
        BY <4>3 DEF Added
      <4> QED BY <4>1, <4>2, <4>4
    <3> QED BY <3>1, <3>2
  <2> QED BY <1>6, <1>8, <1>9, <2>1 DEF Covers
<1>15. SnapshotsOK'
  BY <1>3 DEF SnapshotsOK, Free
<1>16. LatestOK'
  <2>1. \A x \in db.snapshots : x.rev \in 1 .. n
    <3>1. \A x \in db.snapshots : x.rev \in Nat /\ 1 <= x.rev /\ x.rev <= d.rev
      BY <1>0, LatestSnapshot DEF StoreInv, LatestOK, SavedBefore
    <3> QED BY <1>2, <3>1
  <2>2. Agree(d, H(d.rev))
    BY <1>0 DEF StoreInv, LatestOK
  <2>3. Agree(d, H(d.rev)')
    BY <1>2, <1>7, <2>2 DEF Agree
  <2> QED BY <1>0, <1>2, <1>3, <1>6, <1>8, <1>9, <1>14, <2>1, <2>3 DEF LatestOK, SavedBefore
<1> QED BY <1>1, <1>10, <1>11, <1>12, <1>13, <1>15, <1>16 DEF StoreInv

LEMMA NextStore == StoreInv /\ [Next]_vars => StoreInv'
<1> SUFFICES ASSUME StoreInv, [Next]_vars PROVE StoreInv'
  OBVIOUS
<1>1. CASE \E kind \in Kinds, corr \in BOOLEAN : Reduce(kind, corr)
  BY <1>1, ReduceStore
<1>2. CASE AppendAction
  BY <1>2, AppendActionStore
<1>3. CASE AppendEvents
  BY <1>3, AppendEventsStore
<1>4. CASE Save
  BY <1>4, SaveStore
<1>5. CASE Commit
  BY <1>5, CommitStore
<1>6. CASE Flush
  BY <1>6, FlushStore
<1>7. CASE (FlushLoop \/ Close) /\ ~ Flush
  BY <1>7, DrainStore
<1>8. CASE Restart
  BY <1>8, RestartStore
<1>9. CASE UNCHANGED vars
  <2>1. UNCHANGED <<state, sessions, dispatch, evtBuf, ssBuf, flusher, db, history, count>>
    BY <1>9 DEF vars
  <2>2. Types' /\ NewestOK'
    BY NextTypes DEF StoreInv, UnreadNext
  <2>3. Pending' = Pending /\ Buffered' = Buffered /\ Known' = Known /\ Unsaved' = Unsaved
    BY <2>1 DEF Pending, Buffered, Known, Unsaved
  <2>4. /\ \A r : H(r)' = H(r)
        /\ LoadLatest' = LoadLatest /\ (ChainOK' <=> ChainOK) /\ (CompleteOK' <=> CompleteOK)
        /\ \A s : Covers(s)' <=> Covers(s)
    BY <2>1, <2>3, SameLog
  <2>5. HistoryOK' /\ EventsOK'
    BY <2>1, <2>3, <2>4 DEF StoreInv, HistoryOK, EventsOK
  <2>6. SnapshotsOK' /\ LatestOK'
    BY <2>1, <2>3, <2>4 DEF StoreInv, SnapshotsOK, LatestOK, WaitingOK, SavedBefore
  <2> QED BY <2>2, <2>4, <2>5, <2>6 DEF StoreInv
<1> QED BY <1>1, <1>2, <1>3, <1>4, <1>5, <1>6, <1>7, <1>8, <1>9 DEF Next, Dispatch, FlushLoop

LEMMA StoreInvariance == Spec => []StoreInv
  BY InitStore, NextStore, PTL DEF Spec

\* CommittedIsKept: no revision that the bus has committed is forgotten, however
\* flushes fail and are put back.
THEOREM CommittedKept == Spec => []CommittedIsKept
<1>1. ASSUME StoreInv PROVE CommittedIsKept
  <2> SUFFICES ASSUME NEW r \in 1 .. state.rev,
                      r \notin Revisions(db.events \cup evtBuf \cup flusher.evt)
               PROVE  \E s \in db.snapshots : s.rev >= r
    BY <1>1 DEF CommittedIsKept
  <2>1. /\ Len(history) \in Nat /\ LoadLatest.rev \in Nat
        /\ \A k \in 0 .. Len(history) : H(k).rev = k
    BY <1>1, HistoryType, LatestSnapshot DEF StoreInv, Counted, AppState
  <2>2. /\ state.rev \in Nat /\ state.rev <= Len(history)
        /\ Pending # {} => state.rev < Len(history)
    <3>1. CASE dispatch.step = "idle"
      BY <1>1, <2>1, <3>1 DEF StoreInv, HistoryOK, Pending
    <3>2. CASE dispatch.step # "idle"
      BY <1>1, <2>1, <3>2 DEF StoreInv, HistoryOK
    <3> QED BY <3>1, <3>2
  <2>3. \A e \in Pending : e.rev # r
    <3> SUFFICES ASSUME NEW e \in Pending PROVE e.rev # r
      OBVIOUS
    <3>1. e.rev = dispatch.new.rev /\ dispatch.step # "idle"
      BY DEF Pending, StoredEvent
    <3>2. dispatch.new.rev = Len(history)
      BY <1>1, <2>1, <3>1 DEF StoreInv, HistoryOK
    <3> QED BY <2>2, <3>1, <3>2
  <2>4. r \notin Revisions(Known)
    BY <2>3 DEF Revisions, Known, Buffered
  <2>5. r <= LoadLatest.rev /\ r > 0
    BY <1>1, <2>1, <2>2, <2>4 DEF StoreInv, CompleteOK
  <2>6. LoadLatest \in db.snapshots
    BY <1>1, <2>5, LatestSnapshot DEF StoreInv, Zero
  <2> QED BY <2>1, <2>5, <2>6
<1> QED BY <1>1, StoreInvariance, PTL

\* RecoveryAgrees: whenever the process dies, a restart finds an accepted
\* revision with the values it had, and all the sessions the TUI had created.
THEOREM RecoveryAgreesAlways == Spec => []RecoveryAgrees
<1>1. ASSUME StoreInv PROVE RecoveryAgrees
  <2>0. PICK s, n, d : s = ReplayFromStore /\ n = s.rev /\ d = LoadLatest
    OBVIOUS
  <2>1. /\ s \in AppState /\ n \in d.rev .. Len(history)
        /\ \A r \in d.rev + 1 .. n : r \in Revisions(db.events)
        /\ Agree(s, H(n))
        /\ s.sessions = d.sessions \cup Added(db.events, d.rev, n)
    BY <1>1, <2>0, Recovery
  <2>2. d.rev \in Nat /\ n \in Nat /\ Len(history) \in Nat
    BY <1>1, <2>0, <2>1, LatestSnapshot, HistoryType DEF StoreInv, Counted, AppState
  <2>3. {f \in Known : d.rev < f.rev /\ f.rev <= n}
          \subseteq {f \in db.events : d.rev < f.rev /\ f.rev <= n}
    <3> SUFFICES ASSUME NEW f \in Known, d.rev < f.rev, f.rev <= n PROVE f \in db.events
      OBVIOUS
    <3>1. f.rev \in d.rev + 1 .. n
      BY <1>1, <2>2 DEF StoreInv, ChainOK
    <3>2. PICK g \in db.events : g.rev = f.rev
      BY <2>1, <3>1 DEF Revisions
    <3> QED BY <1>1, <3>2 DEF StoreInv, EventsOK, Known
  <2>4. Added(Known, d.rev, n) \subseteq Added(db.events, d.rev, n)
    BY <2>3 DEF Added
  <2>5. Own(H(n).sessions) \subseteq d.sessions \cup Added(Known, d.rev, n)
    BY <1>1, <2>0, <2>1 DEF StoreInv, LatestOK, Covers
  <2>6. \A x \in H(n).sessions : x[1] = "action" => x \in s.sessions
    BY <2>1, <2>4, <2>5 DEF Own
  <2>7. H(n) = IF n = 0 THEN Zero ELSE history[n]
    BY DEF H
  <2> QED BY <2>0, <2>1, <2>2, <2>6, <2>7 DEF RecoveryAgrees, Agree
<1> QED BY <1>1, StoreInvariance, PTL

\* Where a restart stands among what is written.
Recovered ==
  /\ LoadLatest.rev \in Nat
  /\ ReplayFromStore.rev \in LoadLatest.rev .. Len(history)
  /\ \A e \in db.events : e.rev <= ReplayFromStore.rev
  /\ \A d \in db.snapshots : d.rev <= LoadLatest.rev

LEMMA StoreRecovers == StoreInv => Recovered
  BY Recovery, LatestSnapshot DEF StoreInv, Recovered, Counted, AppState

LEMMA StoreRecoversNext == StoreInv' => Recovered'
  BY StoreRecovers, PTL

\* A flush makes durable what a restart recovers, and never less.
LEMMA FlushPersists ==
  ASSUME StoreInv, Flush
  PROVE  ReplayFromStore'.rev \in ReplayFromStore.rev .. Len(history)
<1>0. PICK s, t : s = ReplayFromStore /\ t = ReplayFromStore'
  OBVIOUS
<1>1. StoreInv'
  BY FlushStore
<1>2. /\ db.events \subseteq db'.events /\ history' = history
      /\ db'.snapshots = InsertSnapshot(db.snapshots, flusher.ss)
  BY DEF Flush, InsertEvents
<1>3. /\ s.rev \in LoadLatest.rev .. Len(history)
      /\ \A r \in LoadLatest.rev + 1 .. s.rev : r \in Revisions(db.events)
  BY <1>0, Recovery
<1>4. /\ t.rev \in LoadLatest'.rev .. Len(history')
      /\ \A e \in db'.events : e.rev <= t.rev
  BY <1>0, <1>1, StoreRecoversNext DEF Recovered
<1>5. LoadLatest.rev \in Nat /\ LoadLatest'.rev \in Nat /\ Len(history) \in Nat
  BY <1>1, StoreRecovers, StoreRecoversNext, HistoryType DEF StoreInv, Recovered
<1>6. s.rev <= t.rev
  <2>1. CASE s.rev = LoadLatest.rev
    <3>1. LoadLatest.rev <= LoadLatest'.rev
      <4>1. db.snapshots # {} => \E u \in db'.snapshots : u.rev = LoadLatest.rev
        <5>1. flusher.ss # None => Marshal(flusher.ss).rev = flusher.ss.rev
          BY MarshalType DEF StoreInv, Types
        <5> QED BY <1>2, <5>1, LatestSnapshot DEF InsertSnapshot, StoreInv
      <4>2. \A u \in db'.snapshots : u.rev <= LoadLatest'.rev
        BY <1>1, StoreRecoversNext DEF Recovered
      <4>3. db.snapshots = {} => LoadLatest.rev = 0
        BY LatestSnapshot DEF StoreInv, Zero
      <4> QED BY <1>5, <4>1, <4>2, <4>3
    <3> QED BY <1>2, <1>4, <1>5, <2>1, <3>1
  <2>2. CASE s.rev # LoadLatest.rev
    <3>1. s.rev \in LoadLatest.rev + 1 .. s.rev
      BY <1>3, <1>5, <2>2
    <3>2. PICK e \in db.events : e.rev = s.rev
      BY <1>3, <3>1 DEF Revisions
    <3> QED BY <1>2, <1>4, <3>2
  <2> QED BY <2>1, <2>2
<1> QED BY <1>0, <1>2, <1>3, <1>4, <1>5, <1>6

\* ImplementsLog: the bus, its buffers and the tables implement the durable log.
THEOREM LogImplemented == Spec => ImplementsLog
<1>1. Init => Log!Init
  <2> SUFFICES ASSUME Init PROVE Log!Init
    OBVIOUS
  <2>1. StoreInv /\ Len(history) = 0
    BY InitStore DEF Init
  <2>2. LoadLatest.rev \in Nat
    BY <2>1, LatestSnapshot DEF StoreInv, Counted, AppState
  <2>3. ReplayFromStore.rev = 0
    BY <2>1, <2>2, Recovery
  <2> QED BY <2>1, <2>3 DEF Log!Init
<1>2. ASSUME StoreInv, [Next]_vars PROVE [Log!Next]_(Log!vars)
  <2> DEFINE R == ReplayFromStore
  <2>1. CASE \E kind \in Kinds, corr \in BOOLEAN : Reduce(kind, corr)
    <3>1. db' = db /\ Len(history') = Len(history) + 1
      BY <1>2, <2>1 DEF Reduce, StoreInv, HistoryOK
    <3>2. R' = R
      BY <3>1 DEF ReplayFromStore, LoadLatest, Since
    <3> QED BY <3>1, <3>2 DEF Log!Next, Log!Accept
  <2>2. CASE Flush
    <3>1. R'.rev \in R.rev .. Len(history) /\ Len(history') = Len(history)
      BY <1>2, <2>2, FlushPersists DEF Flush
    <3>2. R.rev \in Nat /\ Len(history) \in Nat
      BY <1>2, Recovery, HistoryType DEF StoreInv, AppState
    <3> QED BY <3>1, <3>2 DEF Log!Next, Log!Persist, Log!vars
  <2>3. CASE Restart
    <3>1. db' = db /\ history' = [r \in 1 .. R.rev |->
                                    IF r < R.rev /\ r \in DOMAIN history THEN history[r] ELSE R]
      BY <2>3 DEF Restart, Start
    <3>2. R' = R
      BY <3>1 DEF ReplayFromStore, LoadLatest, Since
    <3>3. Len(history') = R.rev
      <4>1. R.rev \in Nat
        BY <1>2, Recovery DEF AppState
      <4> HIDE DEF R
      <4> QED BY <3>1, <4>1
    <3> QED BY <3>2, <3>3 DEF Log!Next, Log!Crash
  <2>4. CASE AppendAction \/ AppendEvents \/ Save \/ Commit
             \/ ((FlushLoop \/ Close) /\ ~ Flush) \/ UNCHANGED vars
    <3>1. db' = db /\ history' = history
      BY <2>4 DEF AppendAction, AppendEvents, Save, Commit, FlushLoop, DrainActions,
        DrainEvents, DrainSnapshot, FlushFails, RequeueActions, RequeueEvents,
        RequeueSnapshot, Close, vars
    <3> QED BY <3>1 DEF ReplayFromStore, LoadLatest, Since, Log!vars
  <2> QED BY <1>2, <2>1, <2>2, <2>3, <2>4 DEF Next, Dispatch, FlushLoop
<1>3. StoreInv /\ [Next]_vars => [Log!Next]_(Log!vars)
  BY <1>2
<1> QED BY <1>1, <1>3, StoreInvariance, PTL DEF Spec, ImplementsLog, Log!Spec
=============================================================================
