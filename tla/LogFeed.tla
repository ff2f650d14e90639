------------------------------- MODULE LogFeed -------------------------------
(***************************************************************************)
(* How the log lines of the runners reach a WebSocket client:              *)
(* LogBroadcaster (internal/server/logs.go) and logs.subscribe of a        *)
(* connection (internal/server/websocket.go).                              *)
(*                                                                         *)
(* The ring keeps the last entries; a subscription gets a copy of it, which *)
(* the read loop of the connection sends, and a channel, which a goroutine *)
(* sends after that.  An entry that finds the channel full is lost to the  *)
(* subscription.  logs.subscribe again stops the subscription before it    *)
(* and does not wait for its goroutine.  An entry is its number.           *)
(***************************************************************************)
EXTENDS Naturals, Sequences, Selection

CONSTANTS Writers,    \* log writers: one for each output of a runner
          RingSize,   \* entries of the ring
          Buffer,     \* entries of a channel, 32 in the code
          MaxEntries, \* bound on the entries
          MaxSubs     \* bound on the subscriptions of the connection

ASSUME LogAssumption == /\ RingSize \in Nat \ {0} /\ Buffer \in Nat \ {0}
                        /\ MaxEntries \in Nat /\ MaxSubs \in Nat

VARIABLES
  todo,    \* lines that a writer is publishing
  last,    \* LogBroadcaster.nextSeq
  sub,     \* the subscriptions, with their goroutines
  latest,  \* the subscription of the connection, 0 for none
  reader,  \* the read loop of the connection
  broken   \* whether writes to the client fail

logVars == <<todo, last, sub, latest, reader, broken>>

Subs == 1 .. MaxSubs

Monus(m, n) == IF m > n THEN m - n ELSE 0
RingFirst == Monus(last, RingSize) + 1
Ring == [i \in 1 .. last - RingFirst + 1 |-> RingFirst + i - 1]

LogInit ==
  /\ todo = [w \in Writers |-> 0]
  /\ last = 0
  /\ sub = [s \in Subs |-> [pc |-> "none", registered |-> FALSE, stopped |-> FALSE,
                            snapshot |-> <<>>, sent |-> 0, channel |-> <<>>, held |-> <<>>,
                            got |-> <<>>, first |-> 1, lost |-> {}]]
  /\ latest = 0 /\ reader = "idle" /\ broken = FALSE

-----------------------------------------------------------------------------
(* Writers *)

\* logWriter.Write of some bytes that end n lines; the rest waits in its buffer.
Write(w, n) ==
  /\ todo[w] = 0 /\ n > 0
  /\ todo' = [todo EXCEPT ![w] = n]
  /\ UNCHANGED <<last, sub, latest, reader, broken>>

Offer(s, entry) ==
  CASE ~ s.registered -> s
    [] s.registered /\ Len(s.channel) < Buffer -> [s EXCEPT !.channel = Append(@, entry)]
    [] OTHER -> [s EXCEPT !.lost = @ \cup {entry}]

PublishLine(w) ==
  /\ todo[w] > 0 /\ last < MaxEntries
  /\ todo' = [todo EXCEPT ![w] = @ - 1]
  /\ last' = last + 1
  /\ sub' = [s \in Subs |-> Offer(sub[s], last')]
  /\ UNCHANGED <<latest, reader, broken>>

-----------------------------------------------------------------------------
(* The read loop *)

\* Mutant: neither the goroutine nor the broadcaster is told.
XStopped(s) == s

\* The stop function of a subscription, and unsubscribe, which closes the channel.
Stopped(s) == [s EXCEPT !.stopped = TRUE, !.registered = FALSE]

\* logs.subscribe: stop the old subscription, then take the ring and a channel.
StopOld ==
  /\ reader = "idle" /\ latest < MaxSubs
  /\ sub' = IF latest = 0 THEN sub ELSE [sub EXCEPT ![latest] = Stopped(@)]
  /\ reader' = "subscribe"
  /\ UNCHANGED <<todo, last, latest, broken>>

TakeRing ==
  /\ reader = "subscribe"
  /\ latest' = latest + 1
  /\ sub' = [sub EXCEPT ![latest'] = [@ EXCEPT !.registered = TRUE, !.snapshot = Ring,
                                                !.first = RingFirst]]
  /\ reader' = "replay"
  /\ UNCHANGED <<todo, last, broken>>

\* Mutant: the snapshot is the ring itself, which later entries shift.
XSnapshotEntry(s) == (IF last > RingSize THEN Ring ELSE s.snapshot)[s.sent + 1]

SnapshotEntry(s) == s.snapshot[s.sent + 1]

Replayed(s) == [s EXCEPT !.sent = @ + 1, !.got = Append(@, SnapshotEntry(s))]

Replay ==
  LET s == sub[latest] IN
  /\ reader = "replay" /\ s.sent < Len(s.snapshot)
  /\ IF broken
     THEN /\ sub' = [sub EXCEPT ![latest].registered = FALSE] \* and no goroutine
          /\ reader' = "idle"
     ELSE /\ sub' = [sub EXCEPT ![latest] = Replayed(s)]
          /\ UNCHANGED reader
  /\ UNCHANGED <<todo, last, latest, broken>>

StartFeeding ==
  /\ reader = "replay" /\ sub[latest].sent = Len(sub[latest].snapshot)
  /\ sub' = [sub EXCEPT ![latest].pc = "select"]
  /\ reader' = "idle"
  /\ UNCHANGED <<todo, last, latest, broken>>

\* The connection ends: what it has started is stopped.
EndConnection ==
  /\ reader = "idle"
  /\ reader' = "closed"
  /\ sub' = IF latest = 0 THEN sub ELSE [sub EXCEPT ![latest] = Stopped(@)]
  /\ UNCHANGED <<todo, last, latest, broken>>

Break == ~ broken /\ broken' = TRUE /\ UNCHANGED <<todo, last, sub, latest, reader>>

-----------------------------------------------------------------------------
(* The goroutine of a subscription *)

Taken(q) == [q EXCEPT !.pc = "send", !.held = <<Head(q.channel)>>, !.channel = Tail(@)]

TakeEntry(s) ==
  /\ sub[s].pc = "select" /\ sub[s].channel # <<>>
  /\ sub' = [sub EXCEPT ![s] = Taken(@)]
  /\ UNCHANGED <<todo, last, latest, reader, broken>>

\* The channel is closed and empty, or the stop channel is chosen.
ReturnFeeding(s) ==
  /\ sub[s].pc = "select"
  /\ sub[s].stopped \/ (~ sub[s].registered /\ sub[s].channel = <<>>)
  /\ sub' = [sub EXCEPT ![s].pc = "returned"]
  /\ UNCHANGED <<todo, last, latest, reader, broken>>

Sent(q) == [q EXCEPT !.pc = "select", !.held = <<>>, !.got = @ \o q.held]

SendEntry(s) ==
  /\ sub[s].pc = "send"
  /\ sub' = [sub EXCEPT ![s] = IF broken THEN [Stopped(@) EXCEPT !.pc = "returned"]
                               ELSE Sent(@)]
  /\ UNCHANGED <<todo, last, latest, reader, broken>>

Feed(s) == TakeEntry(s) \/ ReturnFeeding(s) \/ SendEntry(s)

LogNext == \/ \E w \in Writers : PublishLine(w) \/ \E n \in 1 .. 2 : Write(w, n)
           \/ StopOld \/ TakeRing \/ Replay \/ StartFeeding \/ EndConnection \/ Break
           \/ \E s \in Subs : Feed(s)

LogSpec == LogInit /\ [][LogNext]_logVars

\* A write to the client ends or fails.
LogFairness == \A s \in Subs : WF_logVars(Feed(s))

-----------------------------------------------------------------------------
(* Properties *)

\* What a subscription has sent, will replay and has waiting for its goroutine.
Entries(q) == q.got \o SubSeq(q.snapshot, q.sent + 1, Len(q.snapshot)) \o q.held \o q.channel

\* Its entries are those from the oldest of its ring to the newest, in order,
\* apart from those that found its channel full.
Exact(q) == Numbers(Entries(q), q.first, last, q.lost)

\* A subscription misses and repeats nothing, although the ring is copied while
\* writers publish: the client gets each entry once, from the ring or from the
\* channel, unless the channel was full.
LogsExact == \A s \in Subs : sub[s].registered => Exact(sub[s])

\* The goroutine of a subscription that was stopped, or whose client is gone,
\* returns.
FeedsEnd ==
  \A s \in Subs : sub[s].pc # "none" /\ (s < latest \/ reader = "closed")
                    ~> sub[s].pc = "returned"
=============================================================================
