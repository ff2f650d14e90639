----------------------------- MODULE ApiRequests -----------------------------
(***************************************************************************)
(* Requests to the HTTP API that a client sends over its WebSocket         *)
(* (api.request and api.cancel of internal/server/websocket.go).  The read *)
(* loop starts a goroutine for each request and keeps its cancel function  *)
(* under the request's id; the goroutine sends the messages of the answer. *)
(*                                                                         *)
(* A request is answered by this process or by the server of a runner,     *)
(* whose body is passed on piece by piece.  What is computed is left out:  *)
(* an answer is the messages that the client gets.                         *)
(***************************************************************************)
EXTENDS Naturals, Sequences, SequencesExt

CONSTANTS Ids,         \* the ids that clients use
          MaxRequests, \* bound on the requests of the connection
          MaxChunks    \* bound on the pieces of a body

ASSUME ApiAssumption == MaxRequests \in Nat /\ MaxChunks \in Nat

VARIABLES
  cancels, \* wsAPIRequests.cancels: the request of each id, 0 for none
  request, \* the requests and their goroutines
  loop,    \* the read loop
  severed  \* whether writes to the client fail

apiVars == <<cancels, request, loop, severed>>

Requests == 1 .. MaxRequests
Text == <<"start", "chunk", "end">> \* sendAPITextResponse, sendAPIJSONResponse

NewRequest == [pc |-> "none", id |-> CHOOSE id \in Ids : TRUE, canceled |-> FALSE,
               streams |-> FALSE, chunks |-> 0, out |-> <<>>,
               got |-> <<>>] \* the messages that the client got

ApiInit == /\ cancels = [id \in Ids |-> 0]
           /\ request = [r \in Requests |-> NewRequest]
           /\ loop = "reading" /\ severed = FALSE

Delivered(got, kind) == IF severed THEN got ELSE Append(got, kind)

-----------------------------------------------------------------------------
(* The read loop *)

NextRequest == CHOOSE r \in Requests : request[r].pc = "none"

\* wsAPIRequests.add. Mutant: an id that is in use is taken over.
XAccepts(id) == TRUE

Accepts(id) == cancels[id] = 0

\* startWebSocketAPIRequest.
StartRequest(id) ==
  /\ loop = "reading" /\ \E r \in Requests : request[r].pc = "none"
  /\ request' = [request EXCEPT ![NextRequest] =
       [NewRequest EXCEPT !.id = id,
                          !.pc = IF Accepts(id) THEN "work" ELSE "refused",
                          !.got = IF Accepts(id) THEN <<>> ELSE Delivered(<<>>, "error")]]
  /\ cancels' = IF Accepts(id) THEN [cancels EXCEPT ![id] = NextRequest] ELSE cancels
  /\ UNCHANGED <<loop, severed>>

CancelRequest(id) ==
  /\ loop = "reading" /\ cancels[id] # 0
  /\ request' = [request EXCEPT ![cancels[id]].canceled = TRUE]
  /\ UNCHANGED <<cancels, loop, severed>>

\* Mutant: the connection ends and its requests go on.
XAfterClose(r) == request[r]

\* cancelAll.
AfterClose(r) == IF \E id \in Ids : cancels[id] = r
                 THEN [request[r] EXCEPT !.canceled = TRUE] ELSE request[r]

CloseLoop == /\ loop = "reading"
             /\ loop' = "closed"
             /\ request' = [r \in Requests |-> AfterClose(r)]
             /\ cancels' = [id \in Ids |-> 0]
             /\ UNCHANGED severed

Sever == ~ severed /\ severed' = TRUE /\ UNCHANGED <<cancels, request, loop>>

-----------------------------------------------------------------------------
(* The goroutine of a request *)

\* handleWebSocketAPIRequest: a bad path or body, an error of the server of a
\* runner, or the error of a canceled generation.
AnswerError(r) ==
  /\ request[r].pc = "work"
  /\ request' = [request EXCEPT ![r].pc = "send", ![r].out = <<"error">>]
  /\ UNCHANGED <<cancels, loop, severed>>

\* An answer of this process, also that of a missing runner (501).
AnswerText(r) ==
  /\ request[r].pc = "work"
  /\ request' = [request EXCEPT ![r].pc = "send", ![r].out = Text]
  /\ UNCHANGED <<cancels, loop, severed>>

\* proxyWebSocketAPIRequest: the headers have come.
AnswerStream(r) ==
  /\ request[r].pc = "work"
  /\ request' = [request EXCEPT ![r].pc = "send", ![r].streams = TRUE, ![r].out = <<"start">>]
  /\ UNCHANGED <<cancels, loop, severed>>

\* Mutant: the error of the body does not end the answer.
XAfterRead(q, kind) == [q EXCEPT !.pc = "send", !.streams = (kind # "end"), !.out = <<kind>>]

AfterRead(q, kind) ==
  [q EXCEPT !.pc = "send", !.streams = (kind = "chunk"), !.out = <<kind>>,
            !.chunks = IF kind = "chunk" THEN q.chunks + 1 ELSE q.chunks]

ReadBody(r, kind) ==
  /\ request[r].pc = "read"
  /\ kind = "chunk" => request[r].chunks < MaxChunks
  /\ request' = [request EXCEPT ![r] = AfterRead(request[r], kind)]
  /\ UNCHANGED <<cancels, loop, severed>>

\* One message. The first that fails ends the answer.
AfterSend(q) ==
  LET rest == Tail(q.out) IN
  [q EXCEPT !.out = rest,
            !.got = Delivered(q.got, Head(q.out)),
            !.pc = CASE severed -> "finish"
                     [] ~ severed /\ rest # <<>> -> "send"
                     [] ~ severed /\ rest = <<>> /\ q.streams -> "read"
                     [] OTHER -> "finish"]

SendMessage(r) ==
  /\ request[r].pc = "send"
  /\ request' = [request EXCEPT ![r] = AfterSend(request[r])]
  /\ UNCHANGED <<cancels, loop, severed>>

\* cancel and finish, the deferred calls.
FinishRequest(r) ==
  /\ request[r].pc = "finish"
  /\ request' = [request EXCEPT ![r].pc = "done"]
  /\ cancels' = [cancels EXCEPT ![request[r].id] = 0]
  /\ UNCHANGED <<loop, severed>>

\* What a canceled request waits for ends with an error, or is not waited for.
GiveUp(r) == /\ request[r].canceled
             /\ AnswerError(r) \/ AnswerText(r) \/ ReadBody(r, "error")

Work(r) == SendMessage(r) \/ FinishRequest(r)

ApiNext ==
  \/ \E id \in Ids : StartRequest(id) \/ CancelRequest(id)
  \/ CloseLoop \/ Sever
  \/ \E r \in Requests : \/ AnswerError(r) \/ AnswerText(r) \/ AnswerStream(r)
                         \/ \E kind \in {"chunk", "end", "error"} : ReadBody(r, kind)
                         \/ Work(r)

ApiSpec == ApiInit /\ [][ApiNext]_apiVars

\* Nothing is assumed of a runner's server; a context that is canceled ends
\* the wait for it.
ApiFairness == \A r \in Requests : WF_apiVars(Work(r)) /\ WF_apiVars(GiveUp(r))

-----------------------------------------------------------------------------
(* Properties *)

Active(r) == request[r].pc \in {"work", "send", "read", "finish"}

\* While the connection lasts, each request that is not finished can be
\* canceled by its id, and no two of them have the same id.
CancelReaches ==
  loop = "reading" => \A r \in Requests, id \in Ids :
                        cancels[id] = r <=> Active(r) /\ request[r].id = id

Ended(k) == k # <<>> /\ Last(k) \in {"end", "error"}
Open(r)  == request[r].got # <<>> /\ ~ Ended(request[r].got)

\* The messages of an answer are an error, or a start, pieces and one end or
\* error, whoever breaks off, so that the client knows when it has ended; and
\* the answers of an id are not mixed.
AnswersWellFormed ==
  /\ \A r \in Requests : LET k == request[r].got IN \A i \in DOMAIN k :
       /\ k[i] \in {"end", "error"} => i = Len(k)
       /\ k[i] = "start" <=> i = 1 /\ k # <<"error">>
  /\ \A r, q \in Requests : Open(r) /\ Open(q) /\ request[r].id = request[q].id => r = q

\* A request that is canceled, or whose client is gone, ends, although the
\* runner's server never answers.
CanceledEnds ==
  \A r \in Requests : Active(r) /\ (request[r].canceled \/ loop = "closed")
                        ~> request[r].pc = "done"
=============================================================================
