------------------------------- MODULE Gateway -------------------------------
(***************************************************************************)
(* OpenAI requests on their way to the server of a runner: handleProxy     *)
(* (internal/server/server.go), the reverse proxy                          *)
(* (internal/proxy/proxy.go) and the observer that records them in the     *)
(* store (internal/server/observe.go); and the streams of recorded actions *)
(* that API clients read (internal/server/actions.go, and Dispatch and     *)
(* Subscribe of internal/tui/store/command_bus.go).                        *)
(*                                                                         *)
(* The supervisor is reduced to the target of the one role that is used:   *)
(* asked twice by a request, it may change in between.                     *)
(***************************************************************************)
EXTENDS Naturals, Sequences, SequencesExt, Selection

CONSTANTS Requests, \* requests to the proxy
          Streams,  \* clients of the event stream
          Targets,  \* servers of runners
          Default,  \* the target the proxy was made with
          Pieces,   \* bound on the pieces of all bodies
          Buffer,   \* of a stream's channel, 64 in the code
          Changes   \* bound on the changes of the route

ASSUME GatewayAssumption == /\ Pieces \in Nat /\ Buffer \in Nat \ {0} /\ Changes \in Nat
                            /\ Default \notin Targets

VARIABLES
  route,   \* UpstreamForPath: the target, or "none"
  req,     \* the requests
  log,     \* the actions of the command bus
  stream,  \* the streams and their channels
  changes  \* number of changes of the route

gatewayVars == <<route, req, log, stream, changes>>

NewReq == [pc |-> "new", target |-> "none", index |-> 0, body |-> "none", closed |-> FALSE,
           got |-> 0, status |-> "none"]
NewStream == [pc |-> "off", channel |-> <<>>, got |-> <<>>, since |-> 0, lost |-> {}]

GatewayInit == /\ route \in Targets \cup {"none"}
               /\ req = [r \in Requests |-> NewReq]
               /\ log = <<>>
               /\ stream = [c \in Streams |-> NewStream]
               /\ changes = 0

-----------------------------------------------------------------------------
(* The command bus *)

\* Mutant: the newest action replaces the one that waits.
XOffered(s, n) == IF s.pc # "open" THEN s
                  ELSE IF Len(s.channel) < Buffer THEN [s EXCEPT !.channel = Append(@, n)]
                  ELSE [s EXCEPT !.channel = Append(Tail(@), n), !.lost = @ \cup {n}]

\* The non-blocking send to the channel of a subscriber.
Offered(s, n) ==
  CASE s.pc # "open" -> s
    [] s.pc = "open" /\ Len(s.channel) < Buffer -> [s EXCEPT !.channel = Append(@, n)]
    [] OTHER -> [s EXCEPT !.lost = @ \cup {n}]

\* Dispatch: the whole of it is in one critical section.
Dispatch(r, kind, index) ==
  /\ log' = Append(log, [req |-> r, kind |-> kind, index |-> index])
  /\ stream' = [c \in Streams |-> Offered(stream[c], Len(log'))]

-----------------------------------------------------------------------------
(* The proxy *)

\* HasTargetForPath.
CheckTarget(r) ==
  /\ req[r].pc = "new"
  /\ req' = [req EXCEPT ![r] = IF route = "none"
       THEN [@ EXCEPT !.pc = "done", !.status = "not implemented"]
       ELSE [@ EXCEPT !.pc = "direct"]]
  /\ UNCHANGED <<route, log, stream, changes>>

\* targetForRequest, by the Director.
TargetForRequest == IF route = "none" THEN Default ELSE route

Direct(r) ==
  /\ req[r].pc = "direct"
  /\ req' = [req EXCEPT ![r].pc = "start", ![r].target = TargetForRequest]
  /\ UNCHANGED <<route, log, stream, changes>>

ObserveStart(r) ==
  /\ req[r].pc = "start"
  /\ Dispatch(r, "start", 0)
  /\ req' = [req EXCEPT ![r].pc = "trip"]
  /\ UNCHANGED <<route, changes>>

\* The inner RoundTrip fails, also when the client leaves: the observer
\* records it and the ErrorHandler answers.
TripFails(r) ==
  /\ req[r].pc = "trip"
  /\ Dispatch(r, "error", 0)
  /\ req' = [req EXCEPT ![r].pc = "done", ![r].status = "bad gateway"]
  /\ UNCHANGED <<route, changes>>

Respond(r) ==
  /\ req[r].pc = "trip"
  /\ req' = [req EXCEPT ![r].pc = "read"]
  /\ UNCHANGED <<route, log, stream, changes>>

\* observingBody.Read: the action is recorded before the piece is passed on.
ReadPiece(r) ==
  /\ req[r].pc = "read" /\ FoldFunction(LAMBDA q, n : q.index + n, 0, req) < Pieces
  /\ Dispatch(r, "chunk", req[r].index)
  /\ req' = [req EXCEPT ![r].index = @ + 1, ![r].pc = "write"]
  /\ UNCHANGED <<route, changes>>

\* Read returns no piece: the end of the body, or an error of it.
ReadLast(r, how) ==
  /\ req[r].pc = "read"
  /\ req' = [req EXCEPT ![r].pc = "close", ![r].body = how]
  /\ UNCHANGED <<route, log, stream, changes>>

\* A write to a client that is gone fails.
WritePiece(r, works) ==
  /\ req[r].pc = "write"
  /\ req' = IF works THEN [req EXCEPT ![r].pc = "read", ![r].got = @ + 1]
            ELSE [req EXCEPT ![r].pc = "close", ![r].body = "gone"]
  /\ UNCHANGED <<route, log, stream, changes>>

\* Mutant: the observer does not remember that it was closed.
XCloseBody(r, again) ==
  /\ req[r].pc = "close"
  /\ Dispatch(r, "end", 0)
  /\ req' = [req EXCEPT ![r].pc = IF again /\ ~ req[r].closed THEN "close" ELSE "done",
                        ![r].closed = TRUE, ![r].status = "ok"]
  /\ UNCHANGED <<route, changes>>

\* observingBody.Close records an end after whatever ended the body, and
\* nothing if it is closed again.
CloseBody(r, again) ==
  /\ req[r].pc = "close"
  /\ IF req[r].closed THEN UNCHANGED <<log, stream>> ELSE Dispatch(r, "end", 0)
  /\ req' = [req EXCEPT ![r].pc = IF again /\ ~ req[r].closed THEN "close" ELSE "done",
                        ![r].closed = TRUE, ![r].status = "ok"]
  /\ UNCHANGED <<route, changes>>

\* The runner starts, stops, exits or is replaced.
ChangeRoute(target) ==
  /\ changes < Changes /\ target # route
  /\ route' = target /\ changes' = changes + 1
  /\ UNCHANGED <<req, log, stream>>

-----------------------------------------------------------------------------
(* The event streams *)

OpenStream(c) ==
  /\ stream[c].pc = "off"
  /\ stream' = [stream EXCEPT ![c].pc = "open", ![c].since = Len(log)]
  /\ UNCHANGED <<route, req, log, changes>>

SendEvent(c) ==
  /\ stream[c].pc = "open" /\ stream[c].channel # <<>>
  /\ stream' = [stream EXCEPT ![c].got = Append(@, Head(stream[c].channel)),
                              ![c].channel = Tail(@)]
  /\ UNCHANGED <<route, req, log, changes>>

\* The client leaves: Unsubscribe.
CloseStream(c) ==
  /\ stream[c].pc = "open"
  /\ stream' = [stream EXCEPT ![c] = [NewStream EXCEPT !.pc = "closed"]]
  /\ UNCHANGED <<route, req, log, changes>>

Proxying(r) == \/ CheckTarget(r) \/ Direct(r) \/ ObserveStart(r) \/ TripFails(r) \/ Respond(r)
               \/ ReadPiece(r) \/ \E again \in BOOLEAN : CloseBody(r, again)
               \/ \E how \in {"eof", "broken"} : ReadLast(r, how)
               \/ \E works \in BOOLEAN : WritePiece(r, works)

GatewayNext == \/ \E r \in Requests : Proxying(r)
               \/ \E target \in Targets \cup {"none"} : ChangeRoute(target)
               \/ \E c \in Streams : OpenStream(c) \/ SendEvent(c) \/ CloseStream(c)

GatewaySpec == GatewayInit /\ [][GatewayNext]_gatewayVars

-----------------------------------------------------------------------------
(* Properties *)

\* The actions recorded of a request.
OfRequest(r) ==
  Kept(log, [req : {r}, kind : {"start", "chunk", "error", "end"}, index : Nat])

\* The actions recorded of a request are its start, its pieces in order and one
\* end or error, whoever breaks off and however requests interleave, so that
\* the log can be replayed; and it is never behind what the client has got.
RecordedInOrder ==
  \A r \in Requests :
    LET a == OfRequest(r) IN
    /\ \A i \in DOMAIN a :
         /\ a[i].kind = "start" <=> i = 1
         /\ a[i].kind = "chunk" => a[i].index = i - 2
         /\ a[i].kind \in {"end", "error"} => i = Len(a)
    /\ req[r].got > 0 =>
         \E i \in DOMAIN a : a[i].kind = "chunk" /\ a[i].index = req[r].got - 1
    /\ req[r].status \in {"ok", "bad gateway"} => Last(a).kind \in {"end", "error"}

\* A stream misses nothing since it was opened but what found its channel
\* full, and keeps the order of the log.
StreamExact ==
  \A c \in Streams : stream[c].pc = "open" =>
    Numbers(stream[c].got \o stream[c].channel,
            stream[c].since + 1, Len(log), stream[c].lost)
=============================================================================
