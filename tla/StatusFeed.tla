----------------------------- MODULE StatusFeed -----------------------------
(***************************************************************************)
(* How a change of the supervisor's state reaches a WebSocket client:      *)
(* publishStatusChange (internal/supervisor), StatusBroadcaster            *)
(* (internal/server/status_broadcaster.go) and the status messages of a    *)
(* connection (internal/server/websocket.go).                              *)
(*                                                                         *)
(* A goroutine changes the state under Supervisor.mu and publishes after   *)
(* it has released mu.  Publish puts an empty token into the channel of    *)
(* each subscriber, or nothing when the channel is full.  The subscription *)
(* goroutine of a connection takes a token, reads the status and sends it; *)
(* so does the read loop of the connection when it answers status.get.     *)
(* What is read and what is sent may be separated by seconds, since a      *)
(* status includes the answers of the backends.                            *)
(*                                                                         *)
(* A status is the number of changes made before it was read.  A reply to  *)
(* runtime.start, stop or restart is a change and an answered status.get.  *)
(***************************************************************************)
EXTENDS Naturals

CONSTANTS Conns,      \* WebSocket connections
          Publishers, \* goroutines that change the supervisor's state
          Capacity,   \* of a subscriber's channel, 8 in the code
          MaxChanges, \* bound on the number of changes
          Asking      \* whether clients send status.get

ASSUME CapacityAssumption == Capacity \in Nat \ {0}
ASSUME ChangesAssumption  == MaxChanges \in Nat
ASSUME AskingAssumption   == Asking \in BOOLEAN

VARIABLES
  version,    \* number of changes made to the supervisor's state
  publishing, \* publishers that have changed the state but not published yet
  subs,       \* connections whose channel is in StatusBroadcaster.subscribers
  since,      \* the version at which a connection subscribed
  tokens,     \* length of a connection's channel
  feeder,     \* the subscription goroutine of a connection
  held,       \* the status it is about to send
  asker,      \* the read loop of a connection, answering status.get
  asked,      \* the status it is about to send
  view,       \* the status its client received last
  seen        \* the newest status its client has received

vars == <<version, publishing, subs, since, tokens, feeder, held, asker, asked, view,
          seen>>

Feeding == {"off", "select", "read", "send", "returned"}
Answering == {"idle", "read", "send", "closed"}

Init ==
  /\ version = 0 /\ publishing = {}
  /\ subs = {} /\ since = [c \in Conns |-> 0]
  /\ tokens = [c \in Conns |-> 0]
  /\ feeder = [c \in Conns |-> "off"] /\ held = [c \in Conns |-> 0]
  /\ asker = [c \in Conns |-> "idle"] /\ asked = [c \in Conns |-> 0]
  /\ view = [c \in Conns |-> 0] /\ seen = [c \in Conns |-> 0]

-----------------------------------------------------------------------------
(* Publishers *)

Change(p) ==
  /\ p \notin publishing
  /\ version < MaxChanges
  /\ version' = version + 1
  /\ publishing' = publishing \cup {p}
  /\ UNCHANGED <<subs, since, tokens, feeder, held, asker, asked, view, seen>>

\* Mutant: an unbuffered channel, whose receiver may be busy with a status.
NotifiedUnbuffered(c) == IF feeder[c] = "select" /\ tokens[c] = 0 THEN 1 ELSE tokens[c]

\* The non-blocking send to the channel of a subscriber.
Notified(c) == IF tokens[c] < Capacity THEN tokens[c] + 1 ELSE tokens[c]

Publish(p) ==
  /\ p \in publishing
  /\ publishing' = publishing \ {p}
  /\ tokens' = [c \in Conns |-> IF c \in subs THEN Notified(c) ELSE tokens[c]]
  /\ UNCHANGED <<version, subs, since, feeder, held, asker, asked, view, seen>>

-----------------------------------------------------------------------------
(* The subscription of a connection *)

\* serveWebSocket subscribes before it reads the first message.
Subscribe(c) ==
  /\ feeder[c] = "off" /\ asker[c] = "idle"
  /\ feeder' = [feeder EXCEPT ![c] = "select"]
  /\ subs' = subs \cup {c}
  /\ since' = [since EXCEPT ![c] = version]
  /\ UNCHANGED <<version, publishing, tokens, held, asker, asked, view, seen>>

Receive(c) ==
  /\ feeder[c] = "select" /\ tokens[c] > 0
  /\ tokens' = [tokens EXCEPT ![c] = @ - 1]
  /\ feeder' = [feeder EXCEPT ![c] = "read"]
  /\ UNCHANGED <<version, publishing, subs, since, held, asker, asked, view, seen>>

Received(c, status) ==
  /\ view' = [view EXCEPT ![c] = status]
  /\ seen' = [seen EXCEPT ![c] = IF status > @ THEN status ELSE @]

ReadStatus(c) ==
  /\ feeder[c] = "read"
  /\ held' = [held EXCEPT ![c] = version]
  /\ feeder' = [feeder EXCEPT ![c] = "send"]
  /\ UNCHANGED <<version, publishing, subs, since, tokens, asker, asked, view, seen>>

\* Mutant: the tokens that came since the status was read are discarded.
SendStatusDraining(c) ==
  /\ feeder[c] = "send"
  /\ Received(c, held[c])
  /\ tokens' = [tokens EXCEPT ![c] = 0]
  /\ feeder' = [feeder EXCEPT ![c] = "select"]
  /\ UNCHANGED <<version, publishing, subs, since, held, asker, asked>>

SendStatus(c) ==
  /\ feeder[c] = "send"
  /\ Received(c, held[c])
  /\ feeder' = [feeder EXCEPT ![c] = "select"]
  /\ UNCHANGED <<version, publishing, subs, since, tokens, held, asker, asked>>

\* The connection is broken: the goroutine unsubscribes and returns.
SendFails(c) ==
  /\ feeder[c] = "send"
  /\ subs' = subs \ {c}
  /\ feeder' = [feeder EXCEPT ![c] = "returned"]
  /\ UNCHANGED <<version, publishing, since, tokens, held, asker, asked, view, seen>>

\* Its stop channel is closed, and its own channel too.
FeederReturns(c) ==
  /\ feeder[c] = "select" /\ c \notin subs
  /\ feeder' = [feeder EXCEPT ![c] = "returned"]
  /\ UNCHANGED <<version, publishing, subs, since, tokens, held, asker, asked, view, seen>>

-----------------------------------------------------------------------------
(* The read loop of a connection *)

StatusGet(c) ==
  /\ Asking
  /\ asker[c] = "idle" /\ feeder[c] # "off"
  /\ asker' = [asker EXCEPT ![c] = "read"]
  /\ UNCHANGED <<version, publishing, subs, since, tokens, feeder, held, asked, view, seen>>

AnswerRead(c) ==
  /\ asker[c] = "read"
  /\ asked' = [asked EXCEPT ![c] = version]
  /\ asker' = [asker EXCEPT ![c] = "send"]
  /\ UNCHANGED <<version, publishing, subs, since, tokens, feeder, held, view, seen>>

\* An error of the write is ignored.
AnswerSend(c) ==
  /\ asker[c] = "send"
  /\ Received(c, asked[c]) \/ UNCHANGED <<view, seen>>
  /\ asker' = [asker EXCEPT ![c] = "idle"]
  /\ UNCHANGED <<version, publishing, subs, since, tokens, feeder, held, asked>>

\* The client is gone: the loop returns and stops the subscription.
Disconnect(c) ==
  /\ asker[c] = "idle" /\ feeder[c] # "off"
  /\ asker' = [asker EXCEPT ![c] = "closed"]
  /\ subs' = subs \ {c}
  /\ UNCHANGED <<version, publishing, since, tokens, feeder, held, asked, view, seen>>

-----------------------------------------------------------------------------
Feeder(c) == \/ Receive(c) \/ ReadStatus(c) \/ SendStatus(c)
             \/ SendFails(c) \/ FeederReturns(c)

Next ==
  \/ \E p \in Publishers : Change(p) \/ Publish(p)
  \/ \E c \in Conns : \/ Subscribe(c) \/ Feeder(c)
                      \/ StatusGet(c) \/ AnswerRead(c) \/ AnswerSend(c)
                      \/ Disconnect(c)

Spec == Init /\ [][Next]_vars

\* Goroutines that can run do run; a status is read sometime, and its write
\* to the socket ends or fails.
Fairness ==
  /\ \A p \in Publishers : WF_vars(Publish(p))
  /\ \A c \in Conns : WF_vars(Feeder(c)) /\ WF_vars(AnswerRead(c) \/ AnswerSend(c))

-----------------------------------------------------------------------------
(* Properties *)

\* Every variable has the values the Go types allow, and no channel holds more
\* than its capacity.
TypeOK ==
  /\ version \in Nat /\ publishing \subseteq Publishers /\ subs \subseteq Conns
  /\ since \in [Conns -> Nat] /\ tokens \in [Conns -> 0 .. Capacity]
  /\ feeder \in [Conns -> Feeding] /\ held \in [Conns -> Nat]
  /\ asker \in [Conns -> Answering] /\ asked \in [Conns -> Nat]
  /\ view \in [Conns -> Nat] /\ seen \in [Conns -> Nat]

\* The client has not seen a change made since it subscribed.
Stale(c) == c \in subs /\ since[c] < version /\ seen[c] < version

\* A step that will show it the current status is still to come.
Pending(c) == \/ publishing # {}
              \/ tokens[c] > 0
              \/ feeder[c] = "read"
              \/ feeder[c] = "send" /\ held[c] = version

\* Dropping a token when the channel is full loses no update: as long as a
\* client is behind, a status that brings it up to date is on its way, whatever
\* the capacity and however changes and publications of several goroutines
\* interleave.
NoLostUpdate == \A c \in Conns : Stale(c) => Pending(c)

\* Each client receives the final status sometime, or its connection ends.
UpdatesArrive ==
  \A c \in Conns : Stale(c) ~> seen[c] = version \/ c \notin subs

\* A client never receives a status older than one it has.  True unless it
\* asks: the answer of the read loop may follow a newer status that the
\* subscription goroutine has sent meanwhile.
StatusIsCurrent == [][\A c \in Conns : view[c] <= view'[c]]_vars
=============================================================================
