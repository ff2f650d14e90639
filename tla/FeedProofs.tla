----------------------------- MODULE FeedProofs -----------------------------
(***************************************************************************)
(* Proofs about what the server sends over a WebSocket connection: the     *)
(* statuses, the log lines and the answers to requests, for any number of  *)
(* connections, writers, requests and ids and any size of the channels and *)
(* of the ring.                                                            *)
(***************************************************************************)
EXTENDS StatusFeed, LogFeed, ApiRequests, SelectionProofs

-----------------------------------------------------------------------------
(* Statuses: NoLostUpdate is inductive together with TypeOK *)

StatusInv == TypeOK /\ NoLostUpdate

LEMMA StatusInitInv == Init => StatusInv
<1> USE CapacityAssumption
<1>1. Init => TypeOK
  BY DEF Init, TypeOK, Feeding, Answering
<1>2. Init => NoLostUpdate
  BY DEF Init, NoLostUpdate, Stale
<1> QED
  BY <1>1, <1>2 DEF StatusInv

\* A status received keeps the types of view and seen.
LEMMA ReceivedType ==
  ASSUME TypeOK, NEW c \in Conns, NEW status \in Nat, Received(c, status)
  PROVE  /\ view' \in [Conns -> Nat]
         /\ seen' \in [Conns -> Nat]
         /\ \A d \in Conns : seen[d] <= seen'[d]
         /\ seen'[c] >= status
         /\ \A d \in Conns \ {c} : view'[d] = view[d]
         /\ view'[c] = status
<1> USE DEF TypeOK, Received
<1>1. view' \in [Conns -> Nat] /\ seen' \in [Conns -> Nat]
  OBVIOUS
<1>2. seen'[c] >= status /\ view'[c] = status
  OBVIOUS
<1>3. \A d \in Conns \ {c} : view'[d] = view[d] /\ seen'[d] = seen[d]
  OBVIOUS
<1>4. seen[c] <= seen'[c]
  OBVIOUS
<1>5. \A d \in Conns : seen[d] <= seen'[d]
  <2> TAKE d \in Conns
  <2>1. CASE d = c
    BY <2>1, <1>4
  <2>2. CASE d # c
    BY <2>2, <1>3
  <2> QED
    BY <2>1, <2>2
<1> QED
  BY <1>1, <1>2, <1>3, <1>5

\* One more token fits into a channel that is not full.
LEMMA NotifiedType ==
  ASSUME TypeOK, NEW c \in Conns
  PROVE  Notified(c) \in 1 .. Capacity
BY CapacityAssumption DEF TypeOK, Notified

LEMMA TypeStep == TypeOK /\ [Next]_vars => TypeOK'
<1> SUFFICES ASSUME TypeOK, [Next]_vars PROVE TypeOK'
  OBVIOUS
<1> USE DEF TypeOK, Feeding, Answering
<1>1. ASSUME NEW p \in Publishers, Change(p) PROVE TypeOK'
  BY <1>1 DEF Change
<1>2. ASSUME NEW p \in Publishers, Publish(p) PROVE TypeOK'
  <2>1. tokens' \in [Conns -> 0 .. Capacity]
    BY <1>2, NotifiedType, CapacityAssumption DEF Publish
  <2> QED
    BY <1>2, <2>1 DEF Publish
<1>3. ASSUME NEW c \in Conns, Subscribe(c) PROVE TypeOK'
  BY <1>3 DEF Subscribe
<1>4. ASSUME NEW c \in Conns, Receive(c) PROVE TypeOK'
  BY <1>4, CapacityAssumption DEF Receive
<1>5. ASSUME NEW c \in Conns, ReadStatus(c) PROVE TypeOK'
  BY <1>5 DEF ReadStatus
<1>6. ASSUME NEW c \in Conns, SendStatus(c) PROVE TypeOK'
  <2>1. view' \in [Conns -> Nat] /\ seen' \in [Conns -> Nat]
    BY <1>6, ReceivedType DEF SendStatus
  <2> QED
    BY <1>6, <2>1 DEF SendStatus
<1>7. ASSUME NEW c \in Conns, SendFails(c) \/ FeederReturns(c) PROVE TypeOK'
  BY <1>7 DEF SendFails, FeederReturns
<1>8. ASSUME NEW c \in Conns, StatusGet(c) \/ AnswerRead(c) PROVE TypeOK'
  BY <1>8 DEF StatusGet, AnswerRead
<1>9. ASSUME NEW c \in Conns, AnswerSend(c) PROVE TypeOK'
  <2>1. view' \in [Conns -> Nat] /\ seen' \in [Conns -> Nat]
    BY <1>9, ReceivedType DEF AnswerSend
  <2> QED
    BY <1>9, <2>1 DEF AnswerSend
<1>10. ASSUME NEW c \in Conns, Disconnect(c) PROVE TypeOK'
  BY <1>10 DEF Disconnect
<1>11. CASE UNCHANGED vars
  BY <1>11 DEF vars
<1> QED
  BY <1>1, <1>2, <1>3, <1>4, <1>5, <1>6, <1>7, <1>8, <1>9, <1>10, <1>11
  DEF Next, Feeder

\* A step that changes neither version nor the part of connection d keeps d up
\* to date or on its way.
LEMMA LostStep == StatusInv /\ [Next]_vars => NoLostUpdate'
<1> SUFFICES ASSUME StatusInv, [Next]_vars, NEW d \in Conns, Stale(d)'
             PROVE  Pending(d)'
  BY DEF NoLostUpdate
<1> USE DEF StatusInv, Stale, Pending
<1>0. TypeOK /\ (Stale(d) => Pending(d))
  BY DEF NoLostUpdate
<1>1. ASSUME NEW p \in Publishers, Change(p) PROVE Pending(d)'
  BY <1>1 DEF Change
<1>2. ASSUME NEW p \in Publishers, Publish(p) PROVE Pending(d)'
  <2>1. tokens'[d] = Notified(d)
    BY <1>2 DEF Publish
  <2> QED
    BY <2>1, <1>0, NotifiedType, CapacityAssumption
<1>3. ASSUME NEW c \in Conns, Subscribe(c) PROVE Pending(d)'
  <2>1. c # d
    BY <1>3, <1>0 DEF Subscribe, TypeOK
  <2> QED
    BY <1>3, <1>0, <2>1 DEF Subscribe, TypeOK
<1>4. ASSUME NEW c \in Conns, Receive(c) PROVE Pending(d)'
  BY <1>4, <1>0 DEF Receive, TypeOK
<1>5. ASSUME NEW c \in Conns, ReadStatus(c) PROVE Pending(d)'
  BY <1>5, <1>0 DEF ReadStatus, TypeOK
<1>6. ASSUME NEW c \in Conns, SendStatus(c) PROVE Pending(d)'
  <2>1. /\ seen[d] <= seen'[d] /\ seen'[c] >= held[c]
        /\ held[c] \in Nat /\ seen[d] \in Nat /\ seen'[d] \in Nat /\ version \in Nat
    BY <1>6, <1>0, ReceivedType DEF SendStatus, TypeOK
  <2>2. Stale(d)
    BY <1>6, <2>1 DEF SendStatus
  <2>3. CASE c = d
    <3>1. held[d] # version
      BY <2>1, <2>3, <1>6 DEF SendStatus
    <3> QED
      BY <3>1, <2>2, <2>3, <1>0, <1>6 DEF SendStatus
  <2>4. CASE c # d
    BY <2>2, <2>4, <1>0, <1>6 DEF SendStatus, TypeOK
  <2> QED
    BY <2>3, <2>4
<1>7. ASSUME NEW c \in Conns, SendFails(c) \/ FeederReturns(c) PROVE Pending(d)'
  BY <1>7, <1>0 DEF SendFails, FeederReturns, TypeOK
<1>8. ASSUME NEW c \in Conns, StatusGet(c) \/ AnswerRead(c) PROVE Pending(d)'
  BY <1>8, <1>0 DEF StatusGet, AnswerRead
<1>9. ASSUME NEW c \in Conns, AnswerSend(c) PROVE Pending(d)'
  <2>1. seen[d] <= seen'[d] /\ seen[d] \in Nat /\ seen'[d] \in Nat /\ version \in Nat
    BY <1>9, <1>0, ReceivedType DEF AnswerSend, TypeOK
  <2>2. Stale(d)
    BY <1>9, <2>1 DEF AnswerSend
  <2> QED
    BY <2>2, <1>0, <1>9 DEF AnswerSend
<1>10. ASSUME NEW c \in Conns, Disconnect(c) PROVE Pending(d)'
  BY <1>10, <1>0 DEF Disconnect
<1>11. CASE UNCHANGED vars
  BY <1>11, <1>0 DEF vars
<1> QED
  BY <1>1, <1>2, <1>3, <1>4, <1>5, <1>6, <1>7, <1>8, <1>9, <1>10, <1>11
  DEF Next, Feeder

\* No interleaving of changes, publications, full channels and answers leaves a
\* subscribed client behind with nothing on its way.
THEOREM UpdatesNotLost == Spec => [](TypeOK /\ NoLostUpdate)
<1>1. StatusInv /\ [Next]_vars => StatusInv'
  BY TypeStep, LostStep DEF StatusInv
<1>2. Spec => []StatusInv
  BY StatusInitInv, <1>1, PTL DEF Spec
<1>3. StatusInv => TypeOK /\ NoLostUpdate
  BY DEF StatusInv
<1> QED
  BY <1>2, <1>3, PTL

-----------------------------------------------------------------------------
(* Without status.get *)

\* The read loop sends nothing, and the status the goroutine holds is not older
\* than the one it sent before.
Ordered ==
  \A c \in Conns :
    /\ asker[c] \in {"idle", "closed"}
    /\ held[c] <= version /\ view[c] <= held[c]

OrderedInv == TypeOK /\ Ordered

LEMMA OrderedStep ==
  ASSUME ~Asking
  PROVE  OrderedInv /\ [Next]_vars
           => OrderedInv' /\ (\A c \in Conns : view[c] <= view'[c])
<1> SUFFICES ASSUME OrderedInv, [Next]_vars
             PROVE  Ordered' /\ (\A c \in Conns : view[c] <= view'[c])
  BY TypeStep DEF OrderedInv
<1> USE DEF OrderedInv, Ordered
<1>1. ASSUME NEW p \in Publishers, Change(p) \/ Publish(p)
      PROVE  Ordered' /\ (\A c \in Conns : view[c] <= view'[c])
  BY <1>1 DEF Change, Publish, TypeOK
<1>2. ASSUME NEW c \in Conns, Subscribe(c) \/ Receive(c) \/ SendFails(c) \/ FeederReturns(c)
      PROVE  Ordered' /\ (\A d \in Conns : view[d] <= view'[d])
  BY <1>2 DEF Subscribe, Receive, SendFails, FeederReturns, TypeOK
<1>3. ASSUME NEW c \in Conns, ReadStatus(c)
      PROVE  Ordered' /\ (\A d \in Conns : view[d] <= view'[d])
  <2>1. \A d \in Conns : view'[d] = view[d] /\ version' = version
    BY <1>3 DEF ReadStatus
  <2>2. \A d \in Conns : held'[d] = IF d = c THEN version ELSE held[d]
    BY <1>3 DEF ReadStatus, TypeOK
  <2>3. \A d \in Conns : view[d] \in Nat /\ held[d] \in Nat /\ version \in Nat
    BY DEF TypeOK
  <2> QED
    BY <1>3, <2>1, <2>2, <2>3 DEF ReadStatus
<1>4. ASSUME NEW c \in Conns, SendStatus(c)
      PROVE  Ordered' /\ (\A d \in Conns : view[d] <= view'[d])
  <2>1. /\ \A d \in Conns \ {c} : view'[d] = view[d]
        /\ view'[c] = held[c]
    BY <1>4, ReceivedType DEF SendStatus, TypeOK
  <2>2. held' = held /\ version' = version /\ asker' = asker
    BY <1>4 DEF SendStatus
  <2>3. \A d \in Conns : view[d] \in Nat /\ held[d] \in Nat
    BY DEF TypeOK
  <2>4. \A d \in Conns : view'[d] <= held[d] /\ view[d] <= view'[d]
    BY <2>1, <2>3
  <2> QED
    BY <2>2, <2>4
<1>5. ASSUME NEW c \in Conns, StatusGet(c) \/ AnswerRead(c) \/ AnswerSend(c) PROVE FALSE
  BY <1>5 DEF StatusGet, AnswerRead, AnswerSend
<1>6. ASSUME NEW c \in Conns, Disconnect(c)
      PROVE  Ordered' /\ (\A d \in Conns : view[d] <= view'[d])
  BY <1>6 DEF Disconnect, TypeOK
<1>7. CASE UNCHANGED vars
  BY <1>7 DEF vars, TypeOK
<1> QED
  BY <1>1, <1>2, <1>3, <1>4, <1>5, <1>6, <1>7 DEF Next, Feeder

\* A client that never sends status.get receives statuses in order, although
\* reading a status and sending it are separate steps.
THEOREM StatusesOrdered ==
  ASSUME ~Asking
  PROVE  Spec => StatusIsCurrent
<1>1. Init => OrderedInv
  BY StatusInitInv DEF Init, OrderedInv, Ordered, StatusInv, TypeOK
<1>2. OrderedInv /\ [Next]_vars => OrderedInv'
  BY OrderedStep
<1>3. OrderedInv /\ [Next]_vars => [\A c \in Conns : view[c] <= view'[c]]_vars
  BY OrderedStep
<1> QED
  BY <1>1, <1>2, <1>3, PTL DEF Spec, StatusIsCurrent

-----------------------------------------------------------------------------
(* Log lines *)

Subscription ==
  [pc : {"none", "select", "send", "returned"}, registered : BOOLEAN, stopped : BOOLEAN,
   snapshot : Seq(Nat), sent : Nat, channel : Seq(Nat), held : Seq(Nat), got : Seq(Nat),
   first : Nat, lost : SUBSET Nat]

NoSubscription == [pc |-> "none", registered |-> FALSE, stopped |-> FALSE,
                   snapshot |-> <<>>, sent |-> 0, channel |-> <<>>, held |-> <<>>,
                   got |-> <<>>, first |-> 1, lost |-> {}]

\* A goroutine runs only after the ring is sent, and holds an entry only while
\* it sends it; a subscription that was stopped is no longer registered.
SubscriptionOK(q) ==
  /\ q \in Subscription
  /\ q.sent <= Len(q.snapshot)
  /\ q.pc # "none" => q.sent = Len(q.snapshot)
  /\ q.pc \in {"none", "select"} => q.held = <<>>
  /\ q.stopped \/ q.pc = "returned" => ~ q.registered
  /\ q.first <= last + 1 /\ q.lost \subseteq 1 .. last

LogInv ==
  /\ todo \in [Writers -> Nat] /\ last \in Nat /\ latest \in 0 .. MaxSubs
  /\ reader = "subscribe" => latest < MaxSubs
  /\ reader = "replay" => latest > 0 /\ sub[latest].pc = "none"
  /\ sub \in [Subs -> Subscription]
  /\ \A s \in Subs : SubscriptionOK(sub[s]) /\ (sub[s].registered => Exact(sub[s]))
  /\ \A s \in Subs : s > latest => sub[s] = NoSubscription

\* The entries as one sequence, whichever part of it they are in.
LEMMA EntriesType ==
  ASSUME NEW q \in Subscription
  PROVE  Entries(q) \in Seq(Nat)
<1>1. SubSeq(q.snapshot, q.sent + 1, Len(q.snapshot)) \in Seq(Nat)
  <2>1. /\ q.snapshot \in Seq(Nat) /\ q.sent \in Nat /\ Len(q.snapshot) \in Nat
        /\ \A i \in q.sent + 1 .. Len(q.snapshot) : q.snapshot[i] \in Nat
    BY DEF Subscription
  <2> QED BY <2>1, SubSeqProperties
<1>2. q.got \in Seq(Nat) /\ q.held \in Seq(Nat) /\ q.channel \in Seq(Nat)
  BY DEF Subscription
<1> HIDE DEF Subscription
<1> QED BY <1>1, <1>2, ConcatProperties DEF Entries

LEMMA LogInitInv == LogInit => LogInv
<1> SUFFICES ASSUME LogInit PROVE LogInv
  OBVIOUS
<1>1. NoSubscription \in Subscription /\ Len(NoSubscription.snapshot) = 0
  BY DEF NoSubscription, Subscription
<1>2. SubscriptionOK(NoSubscription) /\ ~ NoSubscription.registered
  BY <1>1 DEF NoSubscription, SubscriptionOK, LogInit
<1>3. sub = [s \in Subs |-> NoSubscription]
  BY DEF LogInit, NoSubscription
<1>4. \A s \in Subs : sub[s] = NoSubscription
  BY <1>3
<1>5. sub \in [Subs -> Subscription]
  BY <1>1, <1>3
<1>6. todo \in [Writers -> Nat] /\ last = 0 /\ latest = 0 /\ reader = "idle"
  BY DEF LogInit
<1> HIDE DEF NoSubscription
<1> QED BY <1>2, <1>4, <1>5, <1>6, LogAssumption DEF LogInv

\* A step that changes one subscription and publishes nothing.
LEMMA OneChanges ==
  ASSUME LogInv, NEW s \in Subs, NEW q, SubscriptionOK(q), q.registered => Exact(q),
         sub' = [sub EXCEPT ![s] = q], last' = last, todo' = todo,
         s <= latest', latest <= latest', latest' \in 0 .. MaxSubs,
         reader' = "subscribe" => latest' < MaxSubs,
         reader' = "replay" => latest' > 0 /\ sub'[latest'].pc = "none"
  PROVE  LogInv'
<1>1. sub' \in [Subs -> Subscription]
  BY DEF LogInv, SubscriptionOK
<1>2. \A t \in Subs : sub'[t] = IF t = s THEN q ELSE sub[t]
  BY DEF LogInv
<1>3. \A p : (SubscriptionOK(p)' <=> SubscriptionOK(p)) /\ (Exact(p)' <=> Exact(p))
  BY DEF SubscriptionOK, Exact
<1>4. \A t \in Subs : SubscriptionOK(sub'[t]) /\ (sub'[t].registered => Exact(sub'[t]))
  BY <1>2 DEF LogInv
<1>5. \A t \in Subs : t > latest' => sub'[t] = NoSubscription
  <2> SUFFICES ASSUME NEW t \in Subs, t > latest' PROVE sub'[t] = NoSubscription
    OBVIOUS
  <2>1. t # s /\ t > latest
    BY DEF LogInv, Subs
  <2> QED BY <1>2, <2>1 DEF LogInv
<1> QED BY <1>1, <1>3, <1>4, <1>5 DEF LogInv

\* A subscription that is stopped promises nothing any more.
LEMMA StoppedKeeps ==
  ASSUME NEW q, SubscriptionOK(q)
  PROVE  SubscriptionOK(Stopped(q)) /\ ~ Stopped(q).registered /\ Stopped(q).pc = q.pc
BY DEF SubscriptionOK, Subscription, Stopped

\* An entry that is published is queued or, when the channel is full, lost.
LEMMA OfferKeeps ==
  ASSUME NEW q, SubscriptionOK(q), q.registered => Exact(q),
         NEW n \in Nat, last = n, last' = n + 1, NEW p, p = Offer(q, n + 1)
  PROVE  /\ SubscriptionOK(p)' /\ (p.registered => Exact(p)')
         /\ p.pc = q.pc /\ (q = NoSubscription => p = q)
<1>0. /\ q \in Subscription
      /\ q.snapshot \in Seq(Nat) /\ q.sent \in Nat /\ q.channel \in Seq(Nat)
      /\ q.held \in Seq(Nat) /\ q.got \in Seq(Nat) /\ q.first \in Nat /\ q.first <= n + 1
      /\ q.lost \subseteq 1 .. n
  BY DEF SubscriptionOK, Subscription
<1>a. PICK one : one = <<n + 1>>
  OBVIOUS
<1>b. one \in Seq(Nat)
  BY <1>a
<1>1. CASE ~ q.registered
  <2>1. p = q
    BY <1>1 DEF Offer
  <2> QED BY <1>0, <1>1, <2>1 DEF SubscriptionOK
<1>2. CASE q.registered
  <2>0. Exact(q) /\ Entries(q) \in Seq(Nat) /\ q # NoSubscription
    BY <1>0, <1>2, EntriesType DEF NoSubscription
  <2>a. PICK f : f = Entries(q) \o one
    OBVIOUS
  <2>1. Numbers(f, q.first, n + 1, q.lost)
    <3>1. Numbers(Entries(q), q.first, n, q.lost)
      BY <2>0 DEF Exact
    <3>2. PICK e, low, lost : e = Entries(q) /\ low = q.first /\ lost = q.lost
      OBVIOUS
    <3>3. /\ low \in Nat /\ low <= n + 1 /\ lost \subseteq 1 .. n /\ e \in Seq(Nat)
          /\ Numbers(e, low, n, lost) /\ f = e \o one
      BY <1>0, <2>0, <2>a, <3>1, <3>2
    <3>4. Numbers(f, low, n + 1, lost)
      BY <1>a, <3>3, NumbersAppend
    <3> QED BY <3>2, <3>4
  <2>2. CASE Len(q.channel) < Buffer
    <3>1. p = [q EXCEPT !.channel = Append(@, n + 1)]
      BY <1>2, <2>2 DEF Offer
    <3>2. Append(q.channel, n + 1) \in Seq(Nat)
          /\ Append(q.channel, n + 1) = q.channel \o one
      <4>1. n + 1 \in Nat /\ q.channel \in Seq(Nat)
        BY <1>0
      <4> QED BY <1>a, <4>1, AppendProperties, AppendIsConcat
    <3>3. /\ p \in Subscription
          /\ p.pc = q.pc /\ p.registered = q.registered /\ p.stopped = q.stopped
          /\ p.snapshot = q.snapshot /\ p.sent = q.sent /\ p.held = q.held /\ p.got = q.got
          /\ p.first = q.first /\ p.lost = q.lost /\ p.channel = q.channel \o one
      BY <1>0, <3>1, <3>2 DEF Subscription
    <3>4. SubscriptionOK(p)'
      BY <1>0, <3>3 DEF SubscriptionOK
    <3>5. Entries(p) = Entries(q) \o one
      <4> DEFINE x == q.got \o SubSeq(q.snapshot, q.sent + 1, Len(q.snapshot)) \o q.held
      <4>1. Entries(p) = x \o (q.channel \o one) /\ Entries(q) = x \o q.channel
        BY <3>3 DEF Entries
      <4>2. x \in Seq(Nat) /\ q.channel \in Seq(Nat) /\ one \in Seq(Nat)
        <5>1. SubSeq(q.snapshot, q.sent + 1, Len(q.snapshot)) \in Seq(Nat)
          <6>1. /\ q.sent + 1 \in Int /\ Len(q.snapshot) \in Int
                /\ \A i \in q.sent + 1 .. Len(q.snapshot) : q.snapshot[i] \in Nat
            BY <1>0
          <6> QED BY <6>1, SubSeqProperties
        <5> QED BY <1>0, <1>b, <5>1, ConcatProperties
      <4> HIDE DEF x
      <4>3. (x \o q.channel) \o one = x \o (q.channel \o one)
        BY <1>b, <4>2, Associative
      <4> QED BY <4>1, <4>3
    <3>6. Exact(p)'
      BY <2>a, <2>1, <3>3, <3>5 DEF Exact
    <3> QED BY <2>0, <3>3, <3>4, <3>6
  <2>3. CASE ~ (Len(q.channel) < Buffer)
    <3>1. p = [q EXCEPT !.lost = @ \cup {n + 1}]
      BY <1>2, <2>3 DEF Offer
    <3>2. /\ p \in Subscription
          /\ p.pc = q.pc /\ p.registered = q.registered /\ p.stopped = q.stopped
          /\ p.snapshot = q.snapshot /\ p.sent = q.sent /\ p.held = q.held /\ p.got = q.got
          /\ p.first = q.first /\ p.lost = q.lost \cup {n + 1} /\ p.channel = q.channel
      BY <1>0, <3>1 DEF Subscription
    <3>3. SubscriptionOK(p)'
      <4>1. p.lost \subseteq 1 .. n + 1
        <5>1. 1 .. n \subseteq 1 .. n + 1 /\ n + 1 \in 1 .. n + 1
          OBVIOUS
        <5> QED BY <1>0, <3>2, <5>1
      <4>2. p.first <= n + 1 + 1
        BY <1>0, <3>2
      <4> QED BY <1>0, <3>2, <4>1, <4>2 DEF SubscriptionOK
    <3>4. Entries(p) = Entries(q)
      BY <3>2 DEF Entries
    <3>5. (q.first .. n) \ q.lost = (q.first .. n + 1) \ (q.lost \cup {n + 1})
      BY <1>0
    <3>6. Exact(p)'
      BY <2>0, <3>2, <3>4, <3>5 DEF Exact, Numbers
    <3> QED BY <2>0, <3>2, <3>3, <3>6
  <2> QED BY <2>2, <2>3
<1> QED BY <1>1, <1>2

LEMMA PublishKeeps ==
  ASSUME LogInv, NEW w \in Writers, PublishLine(w)
  PROVE  LogInv'
<1>1. PICK n \in Nat : last = n
  BY DEF LogInv
<1>2. /\ last' = n + 1 /\ todo' = [todo EXCEPT ![w] = @ - 1] /\ todo[w] > 0
      /\ sub' = [s \in Subs |-> Offer(sub[s], n + 1)]
      /\ latest' = latest /\ reader' = reader
  BY <1>1 DEF PublishLine
<1>3. ASSUME NEW s \in Subs
      PROVE  /\ sub'[s] \in Subscription
             /\ SubscriptionOK(sub[s])' /\ (sub[s].registered => Exact(sub[s]))'
             /\ sub'[s].pc = sub[s].pc /\ (s > latest => sub'[s] = NoSubscription)
  <2>1. PICK q, p : q = sub[s] /\ p = sub'[s]
    OBVIOUS
  <2>2. SubscriptionOK(q) /\ (q.registered => Exact(q)) /\ p = Offer(q, n + 1)
        /\ (s > latest => q = NoSubscription)
    BY <1>2, <2>1 DEF LogInv
  <2>3. /\ SubscriptionOK(p)' /\ (p.registered => Exact(p)')
        /\ p.pc = q.pc /\ (q = NoSubscription => p = q)
    BY <1>1, <1>2, <2>2, OfferKeeps
  <2> QED BY <2>1, <2>2, <2>3 DEF SubscriptionOK
<1>4. todo' \in [Writers -> Nat]
  BY <1>2 DEF LogInv
<1>5. sub' \in [Subs -> Subscription]
  BY <1>2, <1>3
<1>6. reader' = "replay" => latest' > 0 /\ sub'[latest'].pc = "none"
  BY <1>2, <1>3 DEF LogInv, Subs
<1> QED BY <1>1, <1>2, <1>3, <1>4, <1>5, <1>6 DEF LogInv

\* The ring that a subscription takes holds the latest entries.
LEMMA RingExact ==
  ASSUME NEW n \in Nat, last = n
  PROVE  /\ Ring \in Seq(Nat) /\ RingFirst \in Nat /\ RingFirst <= n + 1
         /\ Increasing(Ring) /\ Range(Ring) = RingFirst .. n
<1>1. PICK f \in Nat : f = RingFirst
  BY LogAssumption DEF RingFirst, Monus
<1>2. f \in 1 .. n + 1
  BY <1>1, LogAssumption DEF RingFirst, Monus
<1>3. PICK m, r : m = n - f + 1 /\ r = Ring
  OBVIOUS
<1>4. m \in Nat /\ r = [i \in 1 .. m |-> f + i - 1]
  BY <1>1, <1>2, <1>3 DEF Ring
<1>5. r \in Seq(Nat) /\ DOMAIN r = 1 .. m /\ \A i \in 1 .. m : r[i] = f + i - 1
  BY <1>2, <1>4
<1>6. Increasing(r)
  BY <1>2, <1>4, <1>5 DEF Increasing
<1>7. Range(r) = f .. n
  <2>1. ASSUME NEW y \in Range(r) PROVE y \in f .. n
    <3>1. PICK i \in 1 .. m : y = r[i]
      BY <1>5 DEF Range
    <3> QED BY <1>2, <1>3, <1>5, <3>1
  <2>2. ASSUME NEW y \in f .. n PROVE y \in Range(r)
    <3>1. y - f + 1 \in 1 .. m /\ f + (y - f + 1) - 1 = y
      BY <1>2, <1>3, <1>4
    <3>2. r[y - f + 1] = y
      BY <1>5, <3>1
    <3> QED BY <1>5, <3>1, <3>2 DEF Range
  <2> QED BY <2>1, <2>2
<1> QED BY <1>1, <1>2, <1>3, <1>5, <1>6, <1>7

LEMMA TakeRingKeeps ==
  ASSUME LogInv, TakeRing PROVE LogInv'
<1>0. PICK s, q : /\ s = latest + 1
                  /\ q = [NoSubscription EXCEPT !.registered = TRUE, !.snapshot = Ring,
                                                !.first = RingFirst]
  OBVIOUS
<1>1. s \in Subs /\ s > latest /\ sub[s] = NoSubscription
  BY <1>0, LogAssumption DEF TakeRing, LogInv, Subs
<1>2. /\ latest' = s /\ sub' = [sub EXCEPT ![s] = q] /\ reader' = "replay"
      /\ last' = last /\ todo' = todo
  BY <1>0, <1>1 DEF TakeRing, LogInv
<1>3. PICK n \in Nat : last = n
  BY DEF LogInv
<1>4. PICK ring, first : ring = Ring /\ first = RingFirst
  OBVIOUS
<1>5. /\ ring \in Seq(Nat) /\ first \in Nat /\ first <= n + 1
      /\ Increasing(ring) /\ Range(ring) = first .. n
  BY <1>3, <1>4, RingExact
<1>6. q = [pc |-> "none", registered |-> TRUE, stopped |-> FALSE, snapshot |-> ring,
           sent |-> 0, channel |-> <<>>, held |-> <<>>, got |-> <<>>, first |-> first,
           lost |-> {}]
  BY <1>0, <1>4 DEF NoSubscription
<1>7. q \in Subscription /\ SubscriptionOK(q) /\ q.pc = "none"
  <2>1. <<>> \in Seq(Nat) /\ Len(ring) \in Nat
    BY <1>5
  <2> QED BY <1>3, <1>5, <1>6, <2>1 DEF Subscription, SubscriptionOK
<1>8. Exact(q)
  <2>1. Entries(q) = <<>> \o SubSeq(ring, 1, Len(ring)) \o <<>> \o <<>>
    BY <1>6 DEF Entries
  <2>2. SubSeq(ring, 1, Len(ring)) = ring
    BY <1>5, SubSeqFull
  <2>3. Entries(q) = ring
    BY <1>5, <2>1, <2>2, ConcatEmptySeq
  <2>4. (q.first .. last) \ q.lost = first .. n
    BY <1>3, <1>6
  <2> QED BY <1>5, <2>3, <2>4 DEF Exact, Numbers
<1>9. latest' \in 0 .. MaxSubs /\ latest <= latest' /\ s <= latest' /\ latest' > 0
  BY <1>0, <1>1, <1>2 DEF LogInv, Subs
<1>10. sub'[latest'].pc = "none"
  BY <1>1, <1>2, <1>7 DEF LogInv
<1> QED BY <1>1, <1>2, <1>7, <1>8, <1>9, <1>10, OneChanges

\* The read loop, without taking the ring.
LEMMA LoopKeeps ==
  ASSUME LogInv, StopOld \/ Replay \/ StartFeeding \/ EndConnection
  PROVE  LogInv'
<1>0. PICK s, q : s = latest /\ q = sub[s]
  OBVIOUS
<1>1. /\ s \in 0 .. MaxSubs /\ s \in Nat /\ s = latest /\ last' = last /\ todo' = todo
      /\ latest' = latest
      /\ s > 0 => s \in Subs /\ SubscriptionOK(q) /\ (q.registered => Exact(q))
  <2>1. MaxSubs \in Nat
    BY LogAssumption
  <2> QED BY <1>0, <2>1 DEF StopOld, Replay, StartFeeding, EndConnection, LogInv, Subs
<1>a. s <= latest' /\ latest <= latest' /\ latest' \in 0 .. MaxSubs
  BY <1>1
<1>2. CASE StopOld \/ EndConnection
  <2>1. /\ reader' \in {"subscribe", "closed"} /\ (reader' = "subscribe" => s < MaxSubs)
        /\ sub' = IF s = 0 THEN sub ELSE [sub EXCEPT ![s] = Stopped(q)]
    BY <1>0, <1>1, <1>2 DEF StopOld, EndConnection, LogInv
  <2>2. CASE s = 0
    BY <1>1, <2>1, <2>2 DEF LogInv, SubscriptionOK, Exact
  <2>3. CASE s # 0
    <3>1. PICK p : p = Stopped(q)
      OBVIOUS
    <3>2. SubscriptionOK(p) /\ ~ p.registered /\ s \in Subs
      BY <1>1, <2>3, <3>1, StoppedKeeps
    <3> QED BY <1>1, <1>a, <2>1, <2>3, <3>1, <3>2, OneChanges
  <2> QED BY <2>2, <2>3
<1>3. CASE Replay \/ StartFeeding
  <2>0. reader = "replay" /\ s \in Subs /\ s > 0 /\ q.pc = "none"
        /\ SubscriptionOK(q) /\ (q.registered => Exact(q)) /\ s \in DOMAIN sub
    BY <1>0, <1>1, <1>3 DEF Replay, StartFeeding, LogInv
  <2>1. /\ q \in Subscription /\ q.held = <<>> /\ q.sent \in Nat
        /\ q.snapshot \in Seq(Nat) /\ Len(q.snapshot) \in Nat /\ q.sent <= Len(q.snapshot)
        /\ q.got \in Seq(Nat) /\ q.channel \in Seq(Nat)
    BY <2>0 DEF SubscriptionOK, Subscription
  <2>2. CASE Replay /\ broken
    <3>1. PICK p : p = [q EXCEPT !.registered = FALSE]
      OBVIOUS
    <3>2. sub' = [sub EXCEPT ![s] = p] /\ reader' = "idle"
      BY <1>0, <2>0, <2>2, <3>1 DEF Replay, LogInv
    <3>3. SubscriptionOK(p) /\ ~ p.registered
      BY <2>0, <2>1, <3>1 DEF SubscriptionOK, Subscription
    <3> QED BY <1>1, <1>a, <2>0, <3>2, <3>3, OneChanges
  <2>3. CASE Replay /\ ~ broken
    <3>1. PICK e, p : /\ e = q.snapshot[q.sent + 1]
                      /\ p = [q EXCEPT !.sent = q.sent + 1, !.got = Append(q.got, e)]
      OBVIOUS
    <3>2. q.sent < Len(q.snapshot) /\ reader' = "replay" /\ sub' = [sub EXCEPT ![s] = p]
      <4>0. q.sent < Len(q.snapshot) /\ reader' = reader
        BY <1>0, <2>0, <2>3 DEF Replay
      <4>1. sub' = [sub EXCEPT ![latest] = Replayed(sub[latest])]
        BY <1>0, <2>0, <2>3 DEF Replay
      <4>2. Replayed(q) = p
        BY <3>1 DEF Replayed, SnapshotEntry
      <4> QED BY <1>0, <2>0, <4>0, <4>1, <4>2
    <3>3. e \in Nat /\ q.sent + 1 \in 1 .. Len(q.snapshot)
      BY <2>1, <3>1, <3>2
    <3>4. PICK one : one = <<e>>
      OBVIOUS
    <3>5. one \in Seq(Nat) /\ Append(q.got, e) = q.got \o one /\ Append(q.got, e) \in Seq(Nat)
      <4>1. one \in Seq(Nat)
        BY <3>3, <3>4
      <4>2. q.got \in Seq(Nat)
        BY <2>1
      <4> QED BY <3>3, <3>4, <4>1, <4>2, AppendProperties, AppendIsConcat
    <3>6. /\ p \in Subscription /\ p.sent = q.sent + 1 /\ p.got = q.got \o one
          /\ p.pc = q.pc /\ p.registered = q.registered /\ p.stopped = q.stopped
          /\ p.snapshot = q.snapshot /\ p.held = <<>> /\ p.channel = q.channel
          /\ p.first = q.first /\ p.lost = q.lost
      <4>0. PICK got, n : got = q.got \o one /\ n = q.sent + 1
        OBVIOUS
      <4>1. got = q.got \o one /\ n = q.sent + 1 /\ got \in Seq(Nat) /\ n \in Nat
        BY <2>1, <3>5, <4>0
      <4>2. p = [q EXCEPT !.sent = n, !.got = got]
        BY <3>1, <3>5, <4>1
      <4>3. p \in Subscription /\ p.sent = n /\ p.got = got
        BY <2>1, <4>1, <4>2 DEF Subscription
      <4> QED BY <2>1, <4>1, <4>2, <4>3 DEF Subscription
    <3>7. SubscriptionOK(p)
      BY <2>0, <2>1, <3>2, <3>6 DEF SubscriptionOK
    <3>8. Entries(p) = Entries(q)
      <4>1. PICK rest, now : /\ rest = SubSeq(q.snapshot, q.sent + 2, Len(q.snapshot))
                             /\ now = SubSeq(q.snapshot, q.sent + 1, Len(q.snapshot))
        OBVIOUS
      <4>2. now = one \o rest
        <5>1. Len(q.snapshot) \in q.sent + 1 .. Len(q.snapshot) /\ q.sent + 1 + 1 = q.sent + 2
          BY <2>1, <3>2
        <5>2. SubSeq(q.snapshot, q.sent + 1, Len(q.snapshot))
                = <<q.snapshot[q.sent + 1]>> \o SubSeq(q.snapshot, q.sent + 1 + 1, Len(q.snapshot))
          BY <2>1, <3>3, <5>1, SubSeqRecursiveFirst
        <5> QED BY <3>1, <3>4, <4>1, <5>1, <5>2
      <4>3. rest \in Seq(Nat)
        <5>1. /\ q.sent + 2 \in Int /\ Len(q.snapshot) \in Int
              /\ \A i \in q.sent + 2 .. Len(q.snapshot) : q.snapshot[i] \in Nat
          BY <2>1
        <5> QED BY <4>1, <5>1, SubSeqProperties
      <4>4. (q.got \o one) \o rest = q.got \o (one \o rest)
        BY <2>1, <3>5, <4>3, Associative
      <4>5. q.sent + 1 + 1 = q.sent + 2
        BY <2>1
      <4>6. Entries(p) = ((q.got \o one) \o rest) \o <<>> \o q.channel
        BY <3>6, <4>1, <4>5 DEF Entries
      <4>7. Entries(q) = (q.got \o now) \o <<>> \o q.channel
        BY <2>1, <4>1 DEF Entries
      <4> QED BY <4>2, <4>4, <4>6, <4>7
    <3>9. p.registered => Exact(p)
      BY <2>0, <3>6, <3>8 DEF Exact
    <3>10. sub'[latest'].pc = "none"
      BY <1>1, <2>0, <3>2, <3>6 DEF LogInv
    <3> QED BY <1>1, <1>a, <2>0, <3>2, <3>7, <3>9, <3>10, OneChanges
  <2>4. CASE StartFeeding
    <3>1. PICK p : p = [q EXCEPT !.pc = "select"]
      OBVIOUS
    <3>2. q.sent = Len(q.snapshot) /\ sub' = [sub EXCEPT ![s] = p] /\ reader' = "idle"
      BY <1>0, <2>0, <2>4, <3>1 DEF StartFeeding, LogInv
    <3>3. /\ p \in Subscription /\ p.sent = q.sent /\ p.got = q.got
          /\ p.pc = "select" /\ p.registered = q.registered /\ p.stopped = q.stopped
          /\ p.snapshot = q.snapshot /\ p.held = <<>> /\ p.channel = q.channel
          /\ p.first = q.first /\ p.lost = q.lost
      BY <2>1, <3>1 DEF Subscription
    <3>4. SubscriptionOK(p)
      BY <2>0, <2>1, <3>2, <3>3 DEF SubscriptionOK
    <3>5. Entries(p) = Entries(q)
      BY <2>1, <3>3 DEF Entries
    <3>6. p.registered => Exact(p)
      BY <2>0, <3>3, <3>5 DEF Exact
    <3> QED BY <1>1, <1>a, <2>0, <3>2, <3>4, <3>6, OneChanges
  <2> QED BY <1>3, <2>2, <2>3, <2>4
<1> QED BY <1>2, <1>3

\* The goroutine of a subscription.
LEMMA FeedKeeps ==
  ASSUME LogInv, NEW s \in Subs, Feed(s)
  PROVE  LogInv'
<1>0. PICK q : q = sub[s]
  OBVIOUS
<1>1. /\ SubscriptionOK(q) /\ (q.registered => Exact(q)) /\ sub \in [Subs -> Subscription]
      /\ q \in Subscription /\ q.sent \in Nat
      /\ q.snapshot \in Seq(Nat) /\ Len(q.snapshot) \in Nat
      /\ q.got \in Seq(Nat) /\ q.channel \in Seq(Nat) /\ q.held \in Seq(Nat)
  <2>1. SubscriptionOK(q) /\ (q.registered => Exact(q)) /\ sub \in [Subs -> Subscription]
    BY <1>0 DEF LogInv
  <2>2. q \in Subscription
    BY <2>1 DEF SubscriptionOK
  <2>3. /\ q.sent \in Nat /\ q.snapshot \in Seq(Nat)
        /\ q.got \in Seq(Nat) /\ q.channel \in Seq(Nat) /\ q.held \in Seq(Nat)
    BY <2>2 DEF Subscription
  <2> QED BY <2>1, <2>2, <2>3
<1>2. /\ q.pc # "none" /\ last' = last /\ todo' = todo /\ latest' = latest /\ reader' = reader
      /\ q.sent = Len(q.snapshot)
  BY <1>0, <1>1 DEF Feed, TakeEntry, ReturnFeeding, SendEntry, SubscriptionOK
\* Nothing is left to replay.
<1>3. \A p : p.snapshot = q.snapshot /\ p.sent = q.sent
               => Entries(p) = p.got \o <<>> \o p.held \o p.channel
  <2>1. SubSeq(q.snapshot, q.sent + 1, Len(q.snapshot)) = <<>>
    <3>1. q.sent + 1 \in Int /\ Len(q.snapshot) \in Int /\ Len(q.snapshot) < q.sent + 1
      BY <1>1, <1>2
    <3> QED BY <3>1, SubSeqEmpty
  <2> QED BY <2>1 DEF Entries
<1>4. s <= latest /\ latest \in 0 .. MaxSubs /\ latest' <= MaxSubs
      /\ (reader = "replay" => latest > 0 /\ s # latest /\ sub[latest].pc = "none")
      /\ (reader = "subscribe" => latest < MaxSubs)
  <2>1. NoSubscription.pc = "none"
    BY DEF NoSubscription
  <2> QED BY <1>0, <1>2, <2>1, LogAssumption DEF LogInv, Subs
<1>a. s <= latest' /\ latest <= latest' /\ latest' \in 0 .. MaxSubs
  BY <1>2, <1>4, LogAssumption
<1>5. \A p : sub' = [sub EXCEPT ![s] = p] /\ reader' = "replay" =>
               latest' > 0 /\ sub'[latest'].pc = "none"
  BY <1>1, <1>2, <1>4
<1>6. CASE TakeEntry(s)
  <2>1. PICK p, one : /\ one = <<Head(q.channel)>>
                      /\ p = [q EXCEPT !.pc = "send", !.held = one, !.channel = Tail(@)]
    OBVIOUS
  <2>2. q.pc = "select" /\ q.channel # <<>> /\ sub' = [sub EXCEPT ![s] = p] /\ q.held = <<>>
    <3>1. sub' = [sub EXCEPT ![s] = Taken(sub[s])] /\ q.pc = "select" /\ q.channel # <<>>
      BY <1>0, <1>1, <1>6 DEF TakeEntry
    <3>2. Taken(q) = p
      BY <2>1 DEF Taken
    <3>3. q.held = <<>>
      BY <1>1, <3>1 DEF SubscriptionOK
    <3> QED BY <1>0, <3>1, <3>2, <3>3
  <2>3. one \in Seq(Nat) /\ Tail(q.channel) \in Seq(Nat) /\ q.channel = one \o Tail(q.channel)
    <3>1. Head(q.channel) \in Nat /\ Tail(q.channel) \in Seq(Nat)
      BY <1>1, <2>2, HeadTailProperties
    <3>2. q.channel = one \o Tail(q.channel)
      <4>1. Len(q.channel) \in Nat \ {0} /\ Tail(q.channel) = SubSeq(q.channel, 2, Len(q.channel))
        BY <1>1, <2>2, EmptySeq, TailIsSubSeq
      <4>2. 1 \in 1 .. Len(q.channel) /\ Len(q.channel) \in 1 .. Len(q.channel)
        BY <4>1
      <4>3. SubSeq(q.channel, 1, Len(q.channel))
              = <<q.channel[1]>> \o SubSeq(q.channel, 1 + 1, Len(q.channel))
        BY <1>1, <4>2, SubSeqRecursiveFirst
      <4>4. SubSeq(q.channel, 1, Len(q.channel)) = q.channel
        BY <1>1, SubSeqFull
      <4>5. one = <<q.channel[1]>>
        BY <1>1, <2>1, <2>2
      <4> QED BY <4>1, <4>3, <4>4, <4>5
    <3> QED BY <2>1, <3>1, <3>2
  <2>4. PICK rest : rest = Tail(q.channel)
    OBVIOUS
  <2>5. p = [q EXCEPT !.pc = "send", !.held = one, !.channel = rest]
    BY <2>1, <2>4
  <2>6. /\ p \in Subscription /\ p.held = one /\ p.channel = rest /\ p.pc = "send"
        /\ p.sent = q.sent /\ p.got = q.got /\ p.snapshot = q.snapshot
        /\ p.registered = q.registered /\ p.stopped = q.stopped
        /\ p.first = q.first /\ p.lost = q.lost
    BY <1>1, <2>3, <2>4, <2>5 DEF Subscription
  <2>7. SubscriptionOK(p)
    BY <1>1, <1>2, <2>6 DEF SubscriptionOK
  <2>8. Entries(p) = Entries(q)
    <3>1. Entries(p) = ((q.got \o <<>>) \o one) \o rest
      BY <1>3, <2>6
    <3>2. Entries(q) = (q.got \o <<>>) \o <<>> \o q.channel
      BY <1>3, <2>2
    <3>3. q.got \o <<>> = q.got
      BY <1>1, ConcatEmptySeq
    <3>4. Entries(q) = q.got \o (one \o rest)
      BY <2>3, <2>4, <3>2, <3>3
    <3>5. (q.got \o one) \o rest = q.got \o (one \o rest)
      BY <1>1, <2>3, <2>4, Associative
    <3> QED BY <3>1, <3>3, <3>4, <3>5
  <2>9. p.registered => Exact(p)
    BY <1>1, <2>6, <2>8 DEF Exact
  <2> QED BY <1>2, <1>4, <1>a, <1>5, <2>2, <2>7, <2>9, OneChanges
<1>7. CASE ReturnFeeding(s)
  <2>1. PICK p : p = [q EXCEPT !.pc = "returned"]
    OBVIOUS
  <2>2. sub' = [sub EXCEPT ![s] = p] /\ ~ q.registered
    BY <1>0, <1>1, <1>7, <2>1 DEF ReturnFeeding, SubscriptionOK
  <2>3. SubscriptionOK(p) /\ ~ p.registered
    BY <1>1, <1>2, <2>1, <2>2 DEF SubscriptionOK, Subscription
  <2> QED BY <1>2, <1>4, <1>a, <1>5, <2>2, <2>3, OneChanges
<1>8. CASE SendEntry(s) /\ broken
  <2>1. PICK p : p = [Stopped(q) EXCEPT !.pc = "returned"]
    OBVIOUS
  <2>2. sub' = [sub EXCEPT ![s] = p]
    BY <1>0, <1>1, <1>8, <2>1 DEF SendEntry
  <2>3. SubscriptionOK(p) /\ ~ p.registered
    <3>1. SubscriptionOK(Stopped(q)) /\ ~ Stopped(q).registered
          /\ Stopped(q).sent = Len(Stopped(q).snapshot)
      BY <1>1, <1>2, StoppedKeeps DEF Stopped, Subscription
    <3> QED BY <2>1, <3>1 DEF SubscriptionOK, Subscription
  <2> QED BY <1>2, <1>4, <1>a, <1>5, <2>2, <2>3, OneChanges
<1>9. CASE SendEntry(s) /\ ~ broken
  <2>1. PICK p, got : /\ got = q.got \o q.held
                      /\ p = [q EXCEPT !.pc = "select", !.held = <<>>, !.got = got]
    OBVIOUS
  <2>2. sub' = [sub EXCEPT ![s] = p]
    <3>1. sub' = [sub EXCEPT ![s] = Sent(sub[s])]
      BY <1>0, <1>1, <1>9 DEF SendEntry
    <3>2. Sent(q) = p
      BY <2>1 DEF Sent
    <3> QED BY <1>0, <3>1, <3>2
  <2>3. got \in Seq(Nat) /\ <<>> \in Seq(Nat)
    BY <1>1, <2>1, ConcatProperties
  <2>4. /\ p \in Subscription /\ p.held = <<>> /\ p.channel = q.channel /\ p.pc = "select"
        /\ p.sent = q.sent /\ p.got = got /\ p.snapshot = q.snapshot
        /\ p.registered = q.registered /\ p.stopped = q.stopped
        /\ p.first = q.first /\ p.lost = q.lost
    BY <1>1, <2>1, <2>3 DEF Subscription
  <2>5. SubscriptionOK(p)
    <3>1. ~ q.stopped \/ ~ q.registered
      BY <1>1 DEF SubscriptionOK
    <3> QED BY <1>1, <1>2, <2>4, <3>1 DEF SubscriptionOK
  <2>6. Entries(p) = Entries(q)
    <3>1. Entries(p) = ((got \o <<>>) \o <<>>) \o q.channel
      BY <1>3, <2>4
    <3>2. Entries(q) = ((q.got \o <<>>) \o q.held) \o q.channel
      BY <1>3
    <3> QED BY <1>1, <2>1, <2>3, <3>1, <3>2, ConcatEmptySeq
  <2>7. p.registered => Exact(p)
    BY <1>1, <2>4, <2>6 DEF Exact
  <2> QED BY <1>2, <1>4, <1>a, <1>5, <2>2, <2>5, <2>7, OneChanges
<1> QED BY <1>6, <1>7, <1>8, <1>9 DEF Feed

LEMMA LogNextKeeps == LogInv /\ [LogNext]_logVars => LogInv'
<1> SUFFICES ASSUME LogInv, [LogNext]_logVars PROVE LogInv'
  OBVIOUS
<1>1. ASSUME NEW w \in Writers, PublishLine(w) PROVE LogInv'
  BY <1>1, PublishKeeps
<1>2. CASE TakeRing
  BY <1>2, TakeRingKeeps
<1>3. CASE StopOld \/ Replay \/ StartFeeding \/ EndConnection
  BY <1>3, LoopKeeps
<1>4. ASSUME NEW s \in Subs, Feed(s) PROVE LogInv'
  BY <1>4, FeedKeeps
<1>5. CASE UNCHANGED <<last, sub, latest, reader>> /\ todo' \in [Writers -> Nat]
  BY <1>5 DEF LogInv, SubscriptionOK, Exact
<1>6. ASSUME NEW w \in Writers, NEW n \in 1 .. 2, Write(w, n)
      PROVE  UNCHANGED <<last, sub, latest, reader>> /\ todo' \in [Writers -> Nat]
  BY <1>6 DEF Write, LogInv
<1>7. Break \/ UNCHANGED logVars
        => UNCHANGED <<last, sub, latest, reader>> /\ todo' \in [Writers -> Nat]
  BY DEF Break, logVars, LogInv
<1> QED BY <1>1, <1>2, <1>3, <1>4, <1>5, <1>6, <1>7 DEF LogNext

\* LogsExact: no entry is missed or sent twice between the copy of the ring and
\* the channel, whatever is published meanwhile.
THEOREM LogsComplete == LogSpec => []LogsExact
<1>1. LogInv => LogsExact
  BY DEF LogInv, LogsExact
<1> QED BY <1>1, LogInitInv, LogNextKeeps, PTL DEF LogSpec

-----------------------------------------------------------------------------
(* Requests: while the connection lasts, the table of cancel functions and *)
(* the goroutines agree *)

MessageKinds == {"start", "chunk", "end", "error"}
Steps == {"none", "refused", "work", "send", "read", "finish", "done"}
Request == [pc : Steps, id : Ids, canceled : BOOLEAN, streams : BOOLEAN, chunks : Nat,
            out : Seq(MessageKinds), got : Seq(MessageKinds)]

RequestsTyped == /\ cancels \in [Ids -> 0 .. MaxRequests]
         /\ request \in [Requests -> Request]
         /\ \A r \in Requests : request[r].pc = "send" => request[r].out # <<>>

RequestsInv == RequestsTyped /\ CancelReaches

\* The answers of one message, and Text.
LEMMA Answers ==
  /\ <<>> \in Seq(MessageKinds)
  /\ Text \in Seq(MessageKinds) /\ Text # <<>>
  /\ \A kind \in MessageKinds : <<kind>> \in Seq(MessageKinds) /\ <<kind>> # <<>>
<1>1. <<>> \in Seq(MessageKinds)
  OBVIOUS
<1>2. Text \in Seq(MessageKinds) /\ Text # <<>>
  BY DEF Text, MessageKinds
<1>3. ASSUME NEW kind \in MessageKinds PROVE <<kind>> \in Seq(MessageKinds) /\ <<kind>> # <<>>
  OBVIOUS
<1> QED
  BY <1>1, <1>2, <1>3

LEMMA NewIsTyped ==
  ASSUME NEW id \in Ids
  PROVE  /\ NewRequest \in Request
         /\ NewRequest.pc = "none"
<1>1. (CHOOSE i \in Ids : TRUE) \in Ids
  OBVIOUS
<1> QED
  BY <1>1, Answers DEF NewRequest, Request, Steps

LEMMA RequestsInitInv == Ids # {} /\ ApiInit => RequestsInv
<1> SUFFICES ASSUME Ids # {}, ApiInit PROVE RequestsInv
  OBVIOUS
<1>1. NewRequest \in Request /\ NewRequest.pc = "none"
  BY NewIsTyped
<1>2. RequestsTyped
  BY <1>1, ApiAssumption DEF RequestsTyped, ApiInit
<1>3. CancelReaches
  BY <1>1 DEF CancelReaches, ApiInit, Active, Requests
<1> QED
  BY <1>2, <1>3 DEF RequestsInv

\* What a message leaves is typed.
LEMMA DeliveredType ==
  ASSUME NEW got \in Seq(MessageKinds), NEW kind \in MessageKinds
  PROVE  Delivered(got, kind) \in Seq(MessageKinds)
BY DEF Delivered

\* The request that is started next has not been started.
LEMMA NextIsNew ==
  ASSUME \E r \in Requests : request[r].pc = "none"
  PROVE  NextRequest \in Requests /\ request[NextRequest].pc = "none"
BY DEF NextRequest

LEMMA StartKeeps ==
  ASSUME RequestsInv, NEW id \in Ids, StartRequest(id)
  PROVE  RequestsInv'
<1> DEFINE n == NextRequest
<1>1. n \in Requests /\ request[n].pc = "none"
  BY NextIsNew DEF StartRequest
<1> HIDE DEF n
<1> USE DEF RequestsInv, RequestsTyped, Requests
<1>2. CASE Accepts(id)
  <2> DEFINE q == [NewRequest EXCEPT !.id = id, !.pc = "work", !.got = <<>>]
  <2>q. q \in Request /\ q.pc = "work" /\ q.id = id
    <3> HIDE DEF RequestsTyped
    <3> QED
      BY NewIsTyped, Answers DEF Request, Steps
  <2>1. /\ request' = [request EXCEPT ![n] = q]
        /\ cancels' = [cancels EXCEPT ![id] = n]
        /\ loop' = loop
    BY <1>2 DEF StartRequest, n
  <2> HIDE DEF q
  <2>2. RequestsTyped'
    BY <2>1, <2>q, <1>1
  <2>3. request'[n].pc = "work" /\ request'[n].id = id
    BY <2>1, <2>q, <1>1
  <2>4. \A r \in Requests : r # n => request'[r] = request[r]
    BY <2>1, <1>1
  <2>5. CancelReaches'
    <3> SUFFICES ASSUME loop = "reading", NEW r \in Requests, NEW i \in Ids
                 PROVE  cancels'[i] = r <=> Active(r)' /\ request'[r].id = i
      BY <2>1 DEF CancelReaches
    <3>1. cancels[i] = r <=> Active(r) /\ request[r].id = i
      BY DEF CancelReaches
    <3>2. cancels[id] = r <=> Active(r) /\ request[r].id = id
      BY DEF CancelReaches
    <3>3. cancels[id] = 0
      BY <1>2 DEF Accepts
    <3>4. CASE r = n
      BY <3>4, <3>1, <2>1, <2>3, <1>1 DEF Active
    <3>5. CASE r # n
      BY <3>5, <3>1, <3>2, <3>3, <2>1, <2>4, <1>1 DEF Active
    <3> QED
      BY <3>4, <3>5
  <2> QED
    BY <2>2, <2>5
<1>3. CASE ~ Accepts(id)
  <2> DEFINE q == [NewRequest EXCEPT !.id = id, !.pc = "refused",
                                     !.got = Delivered(<<>>, "error")]
  <2>1. /\ request' = [request EXCEPT ![n] = q]
        /\ cancels' = cancels /\ loop' = loop
    BY <1>3 DEF StartRequest, n
  <2>2. Delivered(<<>>, "error") \in Seq(MessageKinds)
    BY DeliveredType, Answers DEF MessageKinds
  <2>q. q \in Request /\ q.pc = "refused"
    BY <2>2, NewIsTyped DEF Request, Steps
  <2> HIDE DEF q
  <2>3. RequestsTyped'
    BY <2>1, <2>q, <1>1
  <2>4. CancelReaches'
    <3> SUFFICES ASSUME loop = "reading", NEW r \in Requests, NEW i \in Ids
                 PROVE  cancels'[i] = r <=> Active(r)' /\ request'[r].id = i
      BY <2>1 DEF CancelReaches
    <3>1. cancels[i] = r <=> Active(r) /\ request[r].id = i
      BY DEF CancelReaches
    <3>2. r # n => request'[r] = request[r]
      BY <2>1, <1>1
    <3>3. r = n => request'[r].pc = "refused"
      BY <2>1, <2>q, <1>1
    <3> QED
      BY <3>1, <3>2, <3>3, <2>1, <1>1 DEF Active
  <2> QED
    BY <2>3, <2>4
<1> QED
  BY <1>2, <1>3

\* A step of a goroutine that keeps its request going, and its id.
LEMMA GoingKeeps ==
  ASSUME RequestsInv, NEW r \in Requests, Active(r), NEW q \in Request,
         q.pc \in {"work", "send", "read", "finish"}, q.id = request[r].id,
         q.pc = "send" => q.out # <<>>,
         request' = [request EXCEPT ![r] = q], UNCHANGED <<cancels, loop>>
  PROVE  RequestsInv'
<1>1. RequestsTyped'
  BY DEF RequestsInv, RequestsTyped
<1>2. \A s \in Requests : Active(s)' = Active(s) /\ request'[s].id = request[s].id
  BY DEF RequestsInv, RequestsTyped, Active
<1>3. CancelReaches'
  BY <1>2 DEF RequestsInv, CancelReaches
<1> QED
  BY <1>1, <1>3 DEF RequestsInv

LEMMA CancelKeeps ==
  ASSUME RequestsInv, NEW id \in Ids, CancelRequest(id)
  PROVE  RequestsInv'
<1> DEFINE r == cancels[id]
           q == [request[r] EXCEPT !.canceled = TRUE]
<1>1. r \in Requests /\ Active(r)
  BY DEF RequestsInv, RequestsTyped, CancelReaches, CancelRequest, Requests
<1>2. q \in Request /\ q.pc = request[r].pc /\ q.id = request[r].id /\ q.out = request[r].out
  BY <1>1 DEF RequestsInv, RequestsTyped, Request
<1>3. request' = [request EXCEPT ![r] = q] /\ UNCHANGED <<cancels, loop>>
  BY <1>1 DEF CancelRequest, RequestsInv, RequestsTyped
<1>4. q.pc = "send" => q.out # <<>>
  BY <1>1, <1>2 DEF RequestsInv, RequestsTyped
<1> HIDE DEF q, r
<1> QED
  BY <1>1, <1>2, <1>3, <1>4, GoingKeeps DEF Active

\* The goroutine of a request produces what it sends next.
LEMMA AnswerKeeps ==
  ASSUME RequestsInv, NEW r \in Requests,
         AnswerError(r) \/ AnswerText(r) \/ AnswerStream(r)
         \/ \E kind \in {"chunk", "end", "error"} : ReadBody(r, kind)
  PROVE  RequestsInv'
<1>1. request[r] \in Request
  BY DEF RequestsInv, RequestsTyped
<1>2. CASE AnswerError(r)
  <2> DEFINE q == [request[r] EXCEPT !.pc = "send", !.out = <<"error">>]
  <2>1. q \in Request /\ q.pc = "send" /\ q.out # <<>> /\ q.id = request[r].id
    <3>1. "error" \in MessageKinds /\ "start" \in MessageKinds
      BY DEF MessageKinds
    <3> QED
      BY <1>1, <3>1, Answers DEF Request, Steps
  <2>2. Active(r) /\ request' = [request EXCEPT ![r] = q] /\ UNCHANGED <<cancels, loop>>
    BY <1>1, <1>2 DEF AnswerError, Active, RequestsInv, RequestsTyped
  <2> HIDE DEF q
  <2> QED
    BY <2>1, <2>2, GoingKeeps
<1>3. CASE AnswerText(r)
  <2> DEFINE q == [request[r] EXCEPT !.pc = "send", !.out = Text]
  <2>1. q \in Request /\ q.pc = "send" /\ q.out # <<>> /\ q.id = request[r].id
    BY <1>1, Answers DEF Request, Steps
  <2>2. Active(r) /\ request' = [request EXCEPT ![r] = q] /\ UNCHANGED <<cancels, loop>>
    BY <1>1, <1>3 DEF AnswerText, Active, RequestsInv, RequestsTyped
  <2> HIDE DEF q
  <2> QED
    BY <2>1, <2>2, GoingKeeps
<1>4. CASE AnswerStream(r)
  <2> DEFINE q == [request[r] EXCEPT !.pc = "send", !.streams = TRUE, !.out = <<"start">>]
  <2>1. q \in Request /\ q.pc = "send" /\ q.out # <<>> /\ q.id = request[r].id
    <3>1. "error" \in MessageKinds /\ "start" \in MessageKinds
      BY DEF MessageKinds
    <3> QED
      BY <1>1, <3>1, Answers DEF Request, Steps
  <2>2. Active(r) /\ request' = [request EXCEPT ![r] = q] /\ UNCHANGED <<cancels, loop>>
    BY <1>1, <1>4 DEF AnswerStream, Active, RequestsInv, RequestsTyped
  <2> HIDE DEF q
  <2> QED
    BY <2>1, <2>2, GoingKeeps
<1>5. ASSUME NEW kind \in {"chunk", "end", "error"}, ReadBody(r, kind) PROVE RequestsInv'
  <2> DEFINE q == AfterRead(request[r], kind)
  <2>1. q \in Request /\ q.pc = "send" /\ q.out # <<>> /\ q.id = request[r].id
    <3>1. kind \in MessageKinds
      BY DEF MessageKinds
    <3> DEFINE b == kind = "chunk"
               k == IF b THEN request[r].chunks + 1 ELSE request[r].chunks
               o == <<kind>>
    <3>2. b \in BOOLEAN /\ k \in Nat /\ o \in Seq(MessageKinds) /\ o # <<>>
      BY <1>1, <3>1, Answers DEF Request
    <3>3. q = [request[r] EXCEPT !.pc = "send", !.streams = b, !.out = o, !.chunks = k]
      BY DEF AfterRead
    <3> HIDE DEF b, k, o, q
    <3> QED
      BY <1>1, <3>2, <3>3 DEF Request, Steps
  <2>2. Active(r) /\ request' = [request EXCEPT ![r] = q] /\ UNCHANGED <<cancels, loop>>
    BY <1>5 DEF ReadBody, Active
  <2> HIDE DEF q
  <2> QED
    BY <2>1, <2>2, GoingKeeps
<1> QED
  BY <1>2, <1>3, <1>4, <1>5

LEMMA SendKeeps ==
  ASSUME RequestsInv, NEW r \in Requests, SendMessage(r)
  PROVE  RequestsInv'
<1> DEFINE m == request[r]
           q == AfterSend(m)
<1>1. m \in Request /\ m.pc = "send" /\ m.out # <<>>
  BY DEF SendMessage, RequestsInv, RequestsTyped
<1>2. Tail(m.out) \in Seq(MessageKinds) /\ Head(m.out) \in MessageKinds
  BY <1>1 DEF Request
<1>3. Delivered(m.got, Head(m.out)) \in Seq(MessageKinds)
  BY <1>1, <1>2, DeliveredType DEF Request
<1>4. /\ q \in Request /\ q.id = m.id
      /\ q.pc \in {"send", "read", "finish"} /\ (q.pc = "send" => q.out # <<>>)
  BY <1>1, <1>2, <1>3 DEF Request, Steps, AfterSend
<1>5. Active(r) /\ request' = [request EXCEPT ![r] = q] /\ UNCHANGED <<cancels, loop>>
  BY DEF SendMessage, Active
<1> HIDE DEF q, m
<1> QED
  BY <1>4, <1>5, GoingKeeps DEF m

LEMMA FinishKeeps ==
  ASSUME RequestsInv, NEW r \in Requests, FinishRequest(r)
  PROVE  RequestsInv'
<1> USE DEF FinishRequest, RequestsInv, RequestsTyped, Requests
<1>1. RequestsTyped'
  <2>1. request[r] \in Request
    OBVIOUS
  <2>2. [request[r] EXCEPT !.pc = "done"] \in Request
    BY <2>1 DEF Request, Steps
  <2>3. request' \in [Requests -> Request]
    BY <2>2
  <2>4. cancels' \in [Ids -> 0 .. MaxRequests]
    <3>1. 0 \in 0 .. MaxRequests
      BY ApiAssumption
    <3>2. cancels' = [cancels EXCEPT ![request[r].id] = 0]
      OBVIOUS
    <3> QED
      BY <3>1, <3>2
  <2>5. \A s \in Requests : request'[s].pc = "send" => request'[s].out # <<>>
    BY DEF Request
  <2> QED
    BY <2>3, <2>4, <2>5
<1>2. request'[r].pc = "done" /\ \A s \in Requests : s # r => request'[s] = request[s]
  BY DEF Request
<1>3. CancelReaches'
  <2> SUFFICES ASSUME loop = "reading", NEW s \in Requests, NEW i \in Ids
               PROVE  cancels'[i] = s <=> Active(s)' /\ request'[s].id = i
    BY DEF CancelReaches
  <2>1. /\ cancels[i] = s <=> Active(s) /\ request[s].id = i
        /\ cancels[i] = r <=> Active(r) /\ request[r].id = i
    BY DEF CancelReaches
  <2> QED
    BY <1>2, <2>1 DEF Active, Request
<1> QED
  BY <1>1, <1>3

LEMMA CloseKeeps == RequestsInv /\ CloseLoop => RequestsInv'
<1> SUFFICES ASSUME RequestsInv, CloseLoop PROVE RequestsInv'
  OBVIOUS
<1>1. \A r \in Requests : /\ AfterClose(r) \in Request
                          /\ AfterClose(r).pc = request[r].pc
                          /\ AfterClose(r).out = request[r].out
  BY DEF AfterClose, RequestsInv, RequestsTyped, Request
<1>2. RequestsTyped'
  BY <1>1, ApiAssumption DEF RequestsInv, RequestsTyped, CloseLoop
<1>3. CancelReaches'
  BY DEF CancelReaches, CloseLoop
<1> QED
  BY <1>2, <1>3 DEF RequestsInv

LEMMA RequestsKeep == RequestsInv /\ [ApiNext]_apiVars => RequestsInv'
<1> SUFFICES ASSUME RequestsInv, [ApiNext]_apiVars PROVE RequestsInv'
  OBVIOUS
<1>1. ASSUME NEW id \in Ids, StartRequest(id) PROVE RequestsInv'
  BY <1>1, StartKeeps
<1>2. ASSUME NEW id \in Ids, CancelRequest(id) PROVE RequestsInv'
  BY <1>2, CancelKeeps
<1>3. CASE CloseLoop
  BY <1>3, CloseKeeps
<1>4. CASE Sever
  BY <1>4 DEF Sever, RequestsInv, RequestsTyped, CancelReaches, Active
<1>5. ASSUME NEW r \in Requests,
             AnswerError(r) \/ AnswerText(r) \/ AnswerStream(r)
             \/ \E kind \in {"chunk", "end", "error"} : ReadBody(r, kind)
      PROVE  RequestsInv'
  BY <1>5, AnswerKeeps
<1>6. ASSUME NEW r \in Requests, Work(r) PROVE RequestsInv'
  BY <1>6, SendKeeps, FinishKeeps DEF Work
<1>7. CASE UNCHANGED apiVars
  BY <1>7 DEF apiVars, RequestsInv, RequestsTyped, CancelReaches, Active
<1> QED
  BY <1>1, <1>2, <1>3, <1>4, <1>5, <1>6, <1>7 DEF ApiNext

\* A request that is under way can be canceled by its id, and only it.
THEOREM RequestsCancelable ==
  ASSUME Ids # {}
  PROVE  ApiSpec => []CancelReaches
<1>1. ApiInit => RequestsInv
  BY RequestsInitInv
<1>2. RequestsInv => CancelReaches
  BY DEF RequestsInv
<1> QED
  BY <1>1, <1>2, RequestsKeep, PTL DEF ApiSpec

-----------------------------------------------------------------------------
(* Requests: the answers *)

\* An answer that is not complete: nothing yet, or a start and pieces.
Going(k) == k # <<>> => k[1] = "start" /\ \A i \in 2 .. Len(k) : k[i] = "chunk"

WellFormed(k) ==
  \A i \in DOMAIN k : /\ k[i] \in {"end", "error"} => i = Len(k)
                      /\ k[i] = "start" <=> i = 1 /\ k # <<"error">>

Breaking(k) == k # <<>> /\ ~ Ended(k)

\* What is sent next continues what the client has.
Continues(q) ==
  IF q.got = <<>> THEN \/ q.out \in {<<"error">>, Text} /\ ~ q.streams
                       \/ q.out = <<"start">> /\ q.streams
  ELSE \/ q.out \in {<<"chunk", "end">>, <<"end">>, <<"error">>} /\ ~ q.streams
       \/ q.out = <<"chunk">> /\ q.streams

AnswerOK(q) ==
  /\ q.pc \in {"none", "work"} => q.got = <<>> /\ ~ q.streams
  /\ q.pc \in {"send", "read"} => Going(q.got)
  /\ q.pc = "send" => Continues(q)
  /\ q.pc = "read" => q.got # <<>>
  /\ WellFormed(q.got)
  /\ ~ severed /\ Breaking(q.got) => q.pc \in {"send", "read"}

\* The requests that are under way, and the answers that are not complete,
\* have different ids.
IdsDiffer ==
  /\ \A r, q \in Requests : Active(r) /\ Active(q) /\ request[r].id = request[q].id => r = q
  /\ \A r, q \in Requests : Open(r) /\ Open(q) /\ request[r].id = request[q].id => r = q

AnswersInv == (\A r \in Requests : AnswerOK(request[r])) /\ IdsDiffer

LEMMA GoingWell ==
  ASSUME NEW k \in Seq(MessageKinds), Going(k)
  PROVE  WellFormed(k)
<1>1. CASE k = <<>>
  BY <1>1 DEF WellFormed
<1>2. CASE k # <<>>
  <2>1. /\ DOMAIN k = 1 .. Len(k) /\ Len(k) \in Nat /\ k[1] = "start" /\ k # <<"error">>
        /\ \A i \in 2 .. Len(k) : k[i] = "chunk"
    BY <1>2 DEF Going
  <2>2. \A i \in DOMAIN k : i = 1 \/ i \in 2 .. Len(k)
    BY <2>1
  <2> QED BY <2>1, <2>2 DEF WellFormed
<1> QED BY <1>1, <1>2

\* A message that continues an answer keeps it going or ends it.
LEMMA AppendGoing ==
  ASSUME NEW k \in Seq(MessageKinds), Going(k), NEW kind \in MessageKinds,
         NEW j, j = Append(k, kind)
  PROVE  /\ j # <<>>
         /\ k = <<>> /\ kind = "start" => Going(j) /\ WellFormed(j)
         /\ k # <<>> /\ kind = "chunk" => Going(j) /\ WellFormed(j)
         /\ k = <<>> /\ kind = "error" => WellFormed(j) /\ Ended(j)
         /\ k # <<>> /\ kind \in {"end", "error"} => WellFormed(j) /\ Ended(j)
<1>1. /\ j \in Seq(MessageKinds) /\ Len(j) = Len(k) + 1 /\ Len(k) \in Nat
      /\ DOMAIN j = 1 .. Len(k) + 1
      /\ \A i \in 1 .. Len(k) : j[i] = k[i]
      /\ j[Len(k) + 1] = kind /\ j # <<>>
  OBVIOUS
<1>2. k = <<>> /\ kind = "start" => Going(j)
  <2> SUFFICES ASSUME k = <<>>, kind = "start" PROVE Going(j)
    OBVIOUS
  <2>1. Len(k) = 0
    OBVIOUS
  <2> QED BY <1>1, <2>1 DEF Going
<1>3. k # <<>> /\ kind = "chunk" => Going(j)
  <2> SUFFICES ASSUME k # <<>>, kind = "chunk" PROVE Going(j)
    OBVIOUS
  <2>1. 1 \in 1 .. Len(k) /\ \A i \in 2 .. Len(j) : i \in 2 .. Len(k) \/ i = Len(k) + 1
    BY <1>1
  <2>2. \A i \in 2 .. Len(k) : i \in 1 .. Len(k)
    BY <1>1
  <2> QED BY <1>1, <2>1, <2>2 DEF Going
<1>4. k = <<>> /\ kind = "error" => WellFormed(j) /\ Ended(j)
  <2> SUFFICES ASSUME k = <<>>, kind = "error" PROVE WellFormed(j) /\ Ended(j)
    OBVIOUS
  <2>1. Len(k) = 0 /\ j = <<"error">>
    OBVIOUS
  <2> QED BY <1>1, <2>1 DEF WellFormed, Ended, Last
<1>5. k # <<>> /\ kind \in {"end", "error"} => WellFormed(j) /\ Ended(j)
  <2> SUFFICES ASSUME k # <<>>, kind \in {"end", "error"} PROVE WellFormed(j) /\ Ended(j)
    OBVIOUS
  <2>1. /\ Len(k) > 0 /\ k[1] = "start" /\ \A i \in 2 .. Len(k) : k[i] = "chunk"
        /\ 1 \in 1 .. Len(k)
    BY <1>1 DEF Going
  <2>2. \A i \in DOMAIN j : i = 1 \/ i \in 2 .. Len(k) \/ i = Len(k) + 1
    BY <1>1
  <2>3. j[1] = "start" /\ j # <<"error">> /\ \A i \in 2 .. Len(k) : j[i] = "chunk"
    BY <1>1, <2>1
  <2>4. Len(k) + 1 # 1
    BY <1>1, <2>1
  <2>5. WellFormed(j)
    BY <1>1, <2>2, <2>3, <2>4 DEF WellFormed
  <2>6. Ended(j)
    BY <1>1 DEF Ended, Last
  <2> QED BY <2>5, <2>6
<1> QED BY <1>1, <1>2, <1>3, <1>4, <1>5, GoingWell

\* A step of the goroutine of one request.
LEMMA OneAnswers ==
  ASSUME RequestsInv, AnswersInv, NEW r \in Requests, NEW q, AnswerOK(q), Active(r),
         q.id = request[r].id, request' = [request EXCEPT ![r] = q], severed' = severed,
         q.got = request[r].got \/ ~ severed
  PROVE  AnswersInv'
<1>1. \A s \in Requests : request'[s] = IF s = r THEN q ELSE request[s]
  BY DEF RequestsInv, RequestsTyped
<1>2. \A p : AnswerOK(p)' <=> AnswerOK(p)
  BY DEF AnswerOK
<1>3. \A s \in Requests : AnswerOK(request'[s])
  BY <1>1 DEF AnswersInv
<1>4. \A s \in Requests : /\ Active(s)' => Active(s)
                          /\ request'[s].id = request[s].id
                          /\ s # r => request'[s] = request[s]
  BY <1>1 DEF Active
<1>5. \A s, p \in Requests :
        Active(s)' /\ Active(p)' /\ request'[s].id = request'[p].id => s = p
  BY <1>4 DEF AnswersInv, IdsDiffer
<1>6. ASSUME NEW s \in Requests, Open(r)', Open(s)', request'[r].id = request'[s].id
      PROVE  s = r
  <2> SUFFICES ASSUME s # r PROVE FALSE
    OBVIOUS
  <2>1. Open(s) /\ request[r].id = request[s].id
    BY <1>4, <1>6 DEF Open
  <2>2. CASE q.got = request[r].got
    <3>1. Open(r)
      BY <1>1, <1>6, <2>2 DEF Open
    <3> QED BY <2>1, <3>1 DEF AnswersInv, IdsDiffer
  <2>3. CASE ~ severed
    <3>1. Active(s)
      BY <2>1, <2>3 DEF AnswersInv, AnswerOK, Open, Breaking, Active
    <3> QED BY <2>1, <3>1 DEF AnswersInv, IdsDiffer
  <2> QED BY <2>2, <2>3
<1>7. \A s, p \in Requests :
        Open(s)' /\ Open(p)' /\ request'[s].id = request'[p].id => s = p
  <2> SUFFICES ASSUME NEW s \in Requests, NEW p \in Requests, Open(s)', Open(p)',
                      request'[s].id = request'[p].id, s # r, p # r
               PROVE  s = p
    BY <1>6
  <2>1. Open(s) /\ Open(p) /\ request[s].id = request[p].id
    BY <1>4 DEF Open
  <2> QED BY <2>1 DEF AnswersInv, IdsDiffer
<1>8. IdsDiffer'
  BY <1>5, <1>7 DEF IdsDiffer
<1>9. (\A s \in Requests : AnswerOK(request[s]))'
  BY <1>2, <1>3
<1> QED BY <1>8, <1>9 DEF AnswersInv

\* A step that leaves the answers alone.
LEMMA AnswersUnchanged ==
  ASSUME AnswersInv, severed => severed',
         \A r \in Requests : /\ request'[r].pc = request[r].pc /\ request'[r].id = request[r].id
                             /\ request'[r].got = request[r].got
                             /\ request'[r].out = request[r].out
                             /\ request'[r].streams = request[r].streams
  PROVE  AnswersInv'
<1>1. ASSUME NEW r \in Requests PROVE AnswerOK(request[r])'
  <2>1. AnswerOK(request[r])
    BY DEF AnswersInv
  <2> QED BY <2>1 DEF AnswerOK, Continues
<1>2. \A r \in Requests : (Active(r)' <=> Active(r)) /\ (Open(r)' <=> Open(r))
                          /\ request'[r].id = request[r].id
  BY DEF Active, Open
<1>3. IdsDiffer'
  BY <1>2 DEF AnswersInv, IdsDiffer
<1> QED BY <1>1, <1>3 DEF AnswersInv

\* A message that was not accepted, and a request that is.
LEMMA NewAnswers ==
  ASSUME RequestsInv, AnswersInv, NEW id \in Ids, StartRequest(id)
  PROVE  AnswersInv'
<1>1. PICK n \in Requests : n = NextRequest /\ request[n].pc = "none"
  BY NextIsNew DEF StartRequest
<1>2. PICK q : q = [NewRequest EXCEPT !.id = id,
                          !.pc = IF Accepts(id) THEN "work" ELSE "refused",
                          !.got = IF Accepts(id) THEN <<>> ELSE Delivered(<<>>, "error")]
  OBVIOUS
<1>3. /\ request' = [request EXCEPT ![n] = q] /\ severed' = severed /\ loop = "reading"
      /\ q.id = id /\ q.streams = FALSE
      /\ Accepts(id) => q.pc = "work" /\ q.got = <<>>
      /\ ~ Accepts(id) => q.pc = "refused" /\ q.got = Delivered(<<>>, "error")
  BY <1>1, <1>2 DEF StartRequest, NewRequest
<1>4. /\ request'[n] = q
      /\ \A s \in Requests \ {n} : request'[s] = request[s]
  BY <1>3 DEF RequestsInv, RequestsTyped
<1>5. q.got \in {<<>>, <<"error">>} /\ WellFormed(q.got) /\ ~ Breaking(q.got)
  <2>1. q.got \in {<<>>, <<"error">>}
    BY <1>3 DEF Delivered
  <2> QED BY <2>1 DEF WellFormed, Breaking, Ended, Last
<1>6. AnswerOK(q) /\ ~ Open(n)'
  BY <1>3, <1>4, <1>5 DEF AnswerOK, Open, Breaking
<1>7. \A s \in Requests : AnswerOK(request[s])'
  BY <1>3, <1>4, <1>6 DEF AnswersInv, AnswerOK
<1>8. ASSUME NEW s \in Requests \ {n}, Active(n)', Active(s)', request'[s].id = request'[n].id
      PROVE  FALSE
  <2>1. Accepts(id) /\ Active(s) /\ request[s].id = id
    BY <1>3, <1>4, <1>8 DEF Active
  <2>2. cancels[id] = s /\ s # 0
    BY <1>3, <2>1 DEF RequestsInv, CancelReaches, Requests
  <2> QED BY <2>1, <2>2 DEF Accepts
<1>9. \A s \in Requests \ {n} : (Active(s)' <=> Active(s)) /\ (Open(s)' <=> Open(s))
                                /\ request'[s].id = request[s].id
  BY <1>4 DEF Active, Open
<1>10. IdsDiffer'
  <2>1. \A s, p \in Requests :
          Active(s)' /\ Active(p)' /\ request'[s].id = request'[p].id => s = p
    BY <1>8, <1>9 DEF AnswersInv, IdsDiffer
  <2>2. \A s, p \in Requests :
          Open(s)' /\ Open(p)' /\ request'[s].id = request'[p].id => s = p
    BY <1>6, <1>9 DEF AnswersInv, IdsDiffer
  <2> QED BY <2>1, <2>2 DEF IdsDiffer
<1> QED BY <1>7, <1>10 DEF AnswersInv

\* The goroutine of a request.
LEMMA WorkAnswers ==
  ASSUME RequestsInv, AnswersInv, NEW r \in Requests,
         \/ AnswerError(r) \/ AnswerText(r) \/ AnswerStream(r)
         \/ \E kind \in {"chunk", "end", "error"} : ReadBody(r, kind)
         \/ FinishRequest(r)
  PROVE  AnswersInv'
<1>0. PICK m : m = request[r]
  OBVIOUS
<1>1. /\ m \in Request /\ AnswerOK(m) /\ severed' = severed
      /\ request \in [Requests -> Request]
  BY <1>0 DEF RequestsInv, RequestsTyped, AnswersInv, AnswerError, AnswerText, AnswerStream,
              ReadBody, FinishRequest
<1>2. ASSUME NEW o \in {<<"error">>, Text}, m.pc = "work",
             request' = [request EXCEPT ![r] = [m EXCEPT !.pc = "send", !.out = o]]
      PROVE  AnswersInv'
  <2>1. PICK q : q = [m EXCEPT !.pc = "send", !.out = o]
    OBVIOUS
  <2>2. /\ q.pc = "send" /\ q.out = o /\ q.got = m.got /\ q.id = m.id /\ q.streams = m.streams
    BY <1>1, <2>1 DEF Request
  <2>3. AnswerOK(q) /\ Active(r)
    BY <1>0, <1>1, <1>2, <2>2 DEF AnswerOK, Continues, Going, Active
  <2> QED BY <1>0, <1>1, <1>2, <2>1, <2>2, <2>3, OneAnswers
<1>3. CASE AnswerError(r)
  BY <1>0, <1>1, <1>2, <1>3 DEF AnswerError
<1>4. CASE AnswerText(r)
  BY <1>0, <1>1, <1>2, <1>4 DEF AnswerText
<1>5. CASE AnswerStream(r)
  <2>1. PICK q : q = [m EXCEPT !.pc = "send", !.streams = TRUE, !.out = <<"start">>]
    OBVIOUS
  <2>2. /\ q.pc = "send" /\ q.out = <<"start">> /\ q.got = m.got /\ q.id = m.id
        /\ q.streams = TRUE
    BY <1>1, <2>1 DEF Request
  <2>3. request' = [request EXCEPT ![r] = q] /\ m.pc = "work"
    BY <1>0, <1>1, <1>5, <2>1 DEF AnswerStream
  <2>4. AnswerOK(q) /\ Active(r)
    BY <1>0, <1>1, <2>2, <2>3 DEF AnswerOK, Continues, Going, Active
  <2> QED BY <1>0, <1>1, <2>2, <2>3, <2>4, OneAnswers
<1>6. ASSUME NEW kind \in {"chunk", "end", "error"}, ReadBody(r, kind)
      PROVE  AnswersInv'
  <2>1. PICK q : q = AfterRead(m, kind)
    OBVIOUS
  <2>2. /\ q.pc = "send" /\ q.out = <<kind>> /\ q.got = m.got /\ q.id = m.id
        /\ q.streams = (kind = "chunk")
    BY <1>1, <2>1 DEF Request, AfterRead
  <2>3. request' = [request EXCEPT ![r] = q] /\ m.pc = "read"
    BY <1>0, <1>1, <1>6, <2>1 DEF ReadBody
  <2>4. Continues(q)
    <3>1. m.got # <<>>
      BY <1>1, <2>3 DEF AnswerOK
    <3>2. q.streams = TRUE \/ q.streams = FALSE
      BY <2>2
    <3> QED BY <1>6, <2>2, <3>1, <3>2 DEF Continues
  <2>5. AnswerOK(q) /\ Active(r)
    BY <1>0, <1>1, <2>2, <2>3, <2>4 DEF AnswerOK, Active
  <2> QED BY <1>0, <1>1, <2>2, <2>3, <2>5, OneAnswers
<1>7. CASE FinishRequest(r)
  <2>1. PICK q : q = [m EXCEPT !.pc = "done"]
    OBVIOUS
  <2>2. /\ q.pc = "done" /\ q.got = m.got /\ q.id = m.id /\ m.pc = "finish"
        /\ request' = [request EXCEPT ![r] = q]
    BY <1>0, <1>1, <1>7, <2>1 DEF Request, FinishRequest
  <2>3. AnswerOK(q) /\ Active(r)
    BY <1>0, <1>1, <2>2 DEF AnswerOK, Active
  <2> QED BY <1>0, <1>1, <2>2, <2>3, OneAnswers
<1> QED BY <1>3, <1>4, <1>5, <1>6, <1>7

LEMMA SendAnswers ==
  ASSUME RequestsInv, AnswersInv, NEW r \in Requests, SendMessage(r)
  PROVE  AnswersInv'
<1>0. PICK m, q, head, rest, got :
        /\ m = request[r] /\ q = AfterSend(m)
        /\ head = Head(m.out) /\ rest = Tail(m.out) /\ got = Delivered(m.got, head)
  OBVIOUS
<1>1. /\ m \in Request /\ AnswerOK(m) /\ severed' = severed /\ m.pc = "send" /\ m.out # <<>>
      /\ Going(m.got) /\ Continues(m) /\ m.got \in Seq(MessageKinds)
      /\ request' = [request EXCEPT ![r] = q] /\ Active(r)
  <2>1. m \in Request /\ AnswerOK(m) /\ severed' = severed /\ m.pc = "send" /\ m.out # <<>>
        /\ request' = [request EXCEPT ![r] = q] /\ Active(r)
    BY <1>0 DEF RequestsInv, RequestsTyped, AnswersInv, SendMessage, Active
  <2> QED BY <2>1 DEF AnswerOK, Request
<1>2. /\ q.out = rest /\ q.got = got /\ q.id = m.id /\ q.streams = m.streams
      /\ q.pc = CASE severed -> "finish"
                  [] ~ severed /\ rest # <<>> -> "send"
                  [] ~ severed /\ rest = <<>> /\ m.streams -> "read"
                  [] OTHER -> "finish"
  BY <1>0, <1>1 DEF AfterSend, Request
<1>3. \/ m.got = <<>> /\ head = "error" /\ rest = <<>> /\ ~ m.streams
      \/ m.got = <<>> /\ head = "start" /\ rest = <<"chunk", "end">> /\ ~ m.streams
      \/ m.got = <<>> /\ head = "start" /\ rest = <<>> /\ m.streams
      \/ m.got # <<>> /\ head = "chunk" /\ rest = <<"end">> /\ ~ m.streams
      \/ m.got # <<>> /\ head \in {"end", "error"} /\ rest = <<>> /\ ~ m.streams
      \/ m.got # <<>> /\ head = "chunk" /\ rest = <<>> /\ m.streams
  <2>1. \A x : Head(<<x>>) = x /\ Tail(<<x>>) = <<>>
    OBVIOUS
  <2>2. Head(<<"chunk", "end">>) = "chunk" /\ Tail(<<"chunk", "end">>) = <<"end">>
    OBVIOUS
  <2>3. Head(Text) = "start" /\ Tail(Text) = <<"chunk", "end">>
    BY DEF Text
  <2> QED BY <1>0, <1>1, <2>1, <2>2, <2>3 DEF Continues
<1>4. CASE severed
  <2>1. got = m.got /\ q.pc = "finish"
    BY <1>0, <1>2, <1>4 DEF Delivered
  <2>2. AnswerOK(q)
    BY <1>1, <1>2, <1>4, <2>1 DEF AnswerOK
  <2> QED BY <1>0, <1>1, <1>2, <2>1, <2>2, OneAnswers
<1>5. CASE ~ severed
  <2>1. got = Append(m.got, head) /\ head \in MessageKinds
    BY <1>0, <1>3, <1>5 DEF Delivered, MessageKinds
  <2>2. /\ got # <<>> /\ WellFormed(got)
        /\ head \in {"start", "chunk"} => Going(got)
        /\ head \in {"end", "error"} => Ended(got)
    BY <1>1, <1>3, <2>1, AppendGoing
  <2>3. CASE rest # <<>>
    <3>1. q.pc = "send"
      BY <1>2, <1>5, <2>3
    <3>2. Continues(q)
      BY <1>2, <1>3, <2>2, <2>3 DEF Continues
    <3>3. Going(got)
      BY <1>3, <2>2, <2>3
    <3> QED BY <1>0, <1>1, <1>2, <1>5, <2>2, <3>1, <3>2, <3>3, OneAnswers DEF AnswerOK
  <2>4. CASE rest = <<>> /\ m.streams
    <3>1. q.pc = "read" /\ Going(got)
      BY <1>2, <1>3, <1>5, <2>2, <2>4
    <3> QED BY <1>0, <1>1, <1>2, <1>5, <2>2, <3>1, OneAnswers DEF AnswerOK
  <2>5. CASE rest = <<>> /\ ~ m.streams
    <3>1. q.pc = "finish"
      BY <1>2, <1>5, <2>5
    <3>2. Ended(got)
      BY <1>3, <2>2, <2>5
    <3>3. AnswerOK(q)
      BY <1>2, <2>2, <3>1, <3>2 DEF AnswerOK, Breaking
    <3> QED BY <1>0, <1>1, <1>2, <1>5, <3>3, OneAnswers
  <2> QED BY <2>3, <2>4, <2>5
<1> QED BY <1>4, <1>5

LEMMA AnswersKeep == RequestsInv /\ AnswersInv /\ [ApiNext]_apiVars => AnswersInv'
<1> SUFFICES ASSUME RequestsInv, AnswersInv, [ApiNext]_apiVars PROVE AnswersInv'
  OBVIOUS
<1>1. ASSUME NEW id \in Ids, StartRequest(id) PROVE AnswersInv'
  BY <1>1, NewAnswers
<1>2. ASSUME NEW id \in Ids, CancelRequest(id) PROVE AnswersInv'
  <2>1. PICK n : n = cancels[id]
    OBVIOUS
  <2>2. request' = [request EXCEPT ![n].canceled = TRUE] /\ severed' = severed
    BY <1>2, <2>1 DEF CancelRequest
  <2>3. \A r \in Requests : request[r] \in Request
    BY DEF RequestsInv, RequestsTyped
  <2>4. \A r \in Requests : /\ request'[r].pc = request[r].pc /\ request'[r].id = request[r].id
                            /\ request'[r].got = request[r].got
                            /\ request'[r].out = request[r].out
                            /\ request'[r].streams = request[r].streams
    BY <2>2, <2>3 DEF RequestsInv, RequestsTyped, Request
  <2> QED BY <2>2, <2>4, AnswersUnchanged
<1>3. CASE CloseLoop
  <2>1. \A r \in Requests : request'[r] = AfterClose(r) /\ severed' = severed
    BY <1>3 DEF CloseLoop
  <2>2. \A r \in Requests : request[r] \in Request
    BY DEF RequestsInv, RequestsTyped
  <2>3. \A r \in Requests : /\ request'[r].pc = request[r].pc /\ request'[r].id = request[r].id
                            /\ request'[r].got = request[r].got
                            /\ request'[r].out = request[r].out
                            /\ request'[r].streams = request[r].streams
    <3> SUFFICES ASSUME NEW r \in Requests
                 PROVE  /\ request'[r].pc = request[r].pc /\ request'[r].id = request[r].id
                        /\ request'[r].got = request[r].got
                        /\ request'[r].out = request[r].out
                        /\ request'[r].streams = request[r].streams
      OBVIOUS
    <3>1. request'[r] \in {request[r], [request[r] EXCEPT !.canceled = TRUE]}
      BY <2>1 DEF AfterClose
    <3>2. request[r] \in Request
      BY <2>2
    <3> QED BY <3>1, <3>2 DEF Request
  <2> QED BY <1>3, <2>3, AnswersUnchanged DEF CloseLoop
<1>4. CASE Sever \/ UNCHANGED apiVars
  BY <1>4, AnswersUnchanged DEF Sever, apiVars
<1>5. ASSUME NEW r \in Requests,
             \/ AnswerError(r) \/ AnswerText(r) \/ AnswerStream(r)
             \/ \E kind \in {"chunk", "end", "error"} : ReadBody(r, kind)
             \/ FinishRequest(r)
      PROVE  AnswersInv'
  BY <1>5, WorkAnswers
<1>6. ASSUME NEW r \in Requests, SendMessage(r) PROVE AnswersInv'
  BY <1>6, SendAnswers
<1> QED BY <1>1, <1>2, <1>3, <1>4, <1>5, <1>6 DEF ApiNext, Work

\* AnswersWellFormed: the messages of each answer are in an order that tells the
\* client when it has ended, wherever the connection breaks, and the answers of
\* an id are not mixed.
THEOREM AnswersComplete ==
  ASSUME Ids # {}
  PROVE  ApiSpec => []AnswersWellFormed
<1>1. ApiInit => RequestsInv
  BY RequestsInitInv
<1>2. ApiInit => AnswersInv
  <2> SUFFICES ASSUME ApiInit PROVE AnswersInv
    OBVIOUS
  <2>1. \A r \in Requests : /\ request[r].pc = "none" /\ request[r].got = <<>>
                            /\ ~ request[r].streams
    BY DEF ApiInit, NewRequest
  <2>2. \A r \in Requests : AnswerOK(request[r]) /\ ~ Active(r) /\ ~ Open(r)
    BY <2>1 DEF AnswerOK, WellFormed, Breaking, Active, Open
  <2> QED BY <2>2 DEF AnswersInv, IdsDiffer
<1>3. AnswersInv => AnswersWellFormed
  BY DEF AnswersInv, AnswerOK, WellFormed, IdsDiffer, AnswersWellFormed
<1> QED
  BY <1>1, <1>2, <1>3, RequestsKeep, AnswersKeep, PTL DEF ApiSpec
=============================================================================
