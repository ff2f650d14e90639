---------------------------- MODULE GatewayProofs ----------------------------
(***************************************************************************)
(* Proofs about the gateway: the log tells how each proxied request went,  *)
(* and an event stream sends the actions since its client subscribed, in   *)
(* their order and with none missing but those it was too slow for.        *)
(***************************************************************************)
EXTENDS Gateway, SelectionProofs

-----------------------------------------------------------------------------
(* The actions of each request *)

ActionKinds == {"start", "chunk", "error", "end"}
Logged == [req : Requests, kind : ActionKinds, index : Nat]

Proxied == [pc : {"new", "direct", "start", "trip", "read", "write", "close", "done"},
            target : Targets \cup {"none", Default}, index : Nat,
            body : {"none", "eof", "broken", "gone"}, closed : BOOLEAN, got : Nat,
            status : {"none", "not implemented", "bad gateway", "ok"}]

\* A start and the pieces up to n actions.
Begun(a, n) == /\ Len(a) = n /\ a[1].kind = "start"
               /\ \A i \in 2 .. n : a[i].kind = "chunk" /\ a[i].index = i - 2

\* And one end or error.
Over(a, n) == /\ Len(a) = n + 1 /\ a[1].kind = "start"
              /\ \A i \in 2 .. n : a[i].kind = "chunk" /\ a[i].index = i - 2
              /\ a[n + 1].kind \in {"end", "error"}

\* What is recorded of a request, at each step of it.
RecordOK(q, a) ==
  /\ q.got <= q.index
  /\ q.pc \in {"new", "direct", "start"} => a = <<>>
  /\ q.pc \in {"new", "direct", "start", "trip"} => q.index = 0
  /\ q.pc \in {"trip", "read", "write"} => Begun(a, q.index + 1)
  /\ q.pc = "write" => q.got < q.index
  /\ q.pc = "close" => IF q.closed THEN Over(a, q.index + 1) ELSE Begun(a, q.index + 1)
  /\ q.pc = "done" => \/ Over(a, q.index + 1)
                      \/ q.status = "not implemented" /\ a = <<>> /\ q.got = 0
  /\ q.status \in {"ok", "bad gateway"} => Over(a, q.index + 1)
  /\ q.pc # "close" /\ q.pc # "done" => ~ q.closed
  /\ q.pc \notin {"close", "done"} => q.status = "none"
  /\ ~ q.closed /\ q.pc = "close" => q.status = "none"

RequestsRecorded ==
  /\ route \in Targets \cup {"none"}
  /\ req \in [Requests -> Proxied] /\ log \in Seq(Logged)
  /\ \A r \in Requests : RecordOK(req[r], OfRequest(r))

LEMMA OfRequestType ==
  ASSUME NEW r \in Requests, log \in Seq(Logged)
  PROVE  OfRequest(r) \in Seq(Logged)
BY KeptType DEF OfRequest

\* A step of one request that records nothing.
LEMMA Unrecorded ==
  ASSUME RequestsRecorded, NEW r \in Requests, NEW q \in Proxied,
         RecordOK(q, OfRequest(r)), req' = [req EXCEPT ![r] = q], log' = log, route' = route
  PROVE  RequestsRecorded'
<1>1. \A s \in Requests : req'[s] = IF s = r THEN q ELSE req[s]
  BY DEF RequestsRecorded
<1>2. \A s \in Requests : OfRequest(s)' = OfRequest(s)
  BY DEF OfRequest
<1>3. \A p, a : RecordOK(p, a)' <=> RecordOK(p, a)
  BY DEF RecordOK
<1>4. \A s \in Requests : RecordOK(req[s], OfRequest(s))'
  BY <1>1, <1>2 DEF RequestsRecorded
<1> QED BY <1>4 DEF RequestsRecorded

\* And one that records an action.
LEMMA RecordedNext ==
  ASSUME RequestsRecorded, NEW r \in Requests, NEW kind \in ActionKinds, NEW n \in Nat,
         Dispatch(r, kind, n), route' = route,
         NEW q \in Proxied, req' = [req EXCEPT ![r] = q],
         NEW b, b = Append(OfRequest(r), [req |-> r, kind |-> kind, index |-> n]),
         RecordOK(q, b)
  PROVE  RequestsRecorded'
<1>1. \A s \in Requests : req'[s] = IF s = r THEN q ELSE req[s]
  BY DEF RequestsRecorded
<1>2. PICK e : e = [req |-> r, kind |-> kind, index |-> n]
  OBVIOUS
<1>3. e \in Logged /\ log' = Append(log, e) /\ log \in Seq(Logged)
  BY <1>2 DEF Logged, Dispatch, RequestsRecorded
<1>4. ASSUME NEW s \in Requests
      PROVE  OfRequest(s)' = IF s = r THEN b ELSE OfRequest(s)
  <2>1. PICK X : X = [req : {s}, kind : {"start", "chunk", "error", "end"}, index : Nat]
    OBVIOUS
  <2>2. OfRequest(s)' = Kept(log', X) /\ OfRequest(s) = Kept(log, X)
    BY <2>1 DEF OfRequest
  <2>3. Kept(log', X) = IF e \in X THEN Append(Kept(log, X), e) ELSE Kept(log, X)
    BY <1>3, KeptAppend
  <2>4. e \in X <=> s = r
    BY <1>2, <2>1 DEF ActionKinds
  <2> QED BY <1>2, <2>2, <2>3, <2>4
<1>5. ASSUME NEW s \in Requests PROVE RecordOK(req[s], OfRequest(s))'
  <2>0. \A p, a : RecordOK(p, a)' <=> RecordOK(p, a)
    BY DEF RecordOK
  <2>1. CASE s = r
    BY <1>1, <1>4, <2>0, <2>1
  <2>2. CASE s # r
    BY <1>1, <1>4, <2>0, <2>2 DEF RequestsRecorded
  <2> QED BY <2>1, <2>2
<1>6. log' \in Seq(Logged)
  BY <1>3, AppendProperties
<1> QED BY <1>5, <1>6 DEF RequestsRecorded

LEMMA BegunGrows ==
  ASSUME NEW a \in Seq(Logged), NEW n \in Nat, NEW r \in Requests, NEW kind \in ActionKinds,
         NEW k \in Nat, NEW b, b = Append(a, [req |-> r, kind |-> kind, index |-> k])
  PROVE  /\ a = <<>> /\ kind = "start" => Begun(b, 1)
         /\ Begun(a, n + 1) /\ kind = "chunk" /\ k = n => Begun(b, n + 2)
         /\ Begun(a, n + 1) /\ kind \in {"end", "error"} => Over(b, n + 1)
<1> DEFINE e == [req |-> r, kind |-> kind, index |-> k]
<1>0. e \in Logged /\ e.kind = kind /\ e.index = k /\ b = Append(a, e)
  BY DEF Logged
<1> HIDE DEF e
<1>1. /\ Len(b) = Len(a) + 1 /\ Len(a) \in Nat /\ b[Len(a) + 1] = e
      /\ \A i \in 1 .. Len(a) : b[i] = a[i]
  BY <1>0
<1>2. ASSUME a = <<>>, kind = "start" PROVE Begun(b, 1)
  <2>1. Len(a) = 0
    BY <1>2
  <2> QED BY <1>0, <1>1, <1>2, <2>1 DEF Begun
<1>3. ASSUME Begun(a, n + 1)
      PROVE  /\ Len(b) = n + 2 /\ b[n + 2] = e /\ b[1].kind = "start"
             /\ \A i \in 2 .. n + 1 : b[i].kind = "chunk" /\ b[i].index = i - 2
  <2>1. Len(a) = n + 1
    BY <1>3 DEF Begun
  <2>2. 1 \in 1 .. n + 1 /\ \A i \in 2 .. n + 1 : i \in 1 .. n + 1
    OBVIOUS
  <2>3. n + 1 + 1 = n + 2
    OBVIOUS
  <2> QED BY <1>1, <1>3, <2>1, <2>2, <2>3 DEF Begun
<1>4. ASSUME Begun(a, n + 1), kind = "chunk", k = n PROVE Begun(b, n + 2)
  <2>1. \A i \in 2 .. n + 2 : i \in 2 .. n + 1 \/ i = n + 2
    OBVIOUS
  <2>2. n = n + 2 - 2
    OBVIOUS
  <2> QED BY <1>0, <1>3, <1>4, <2>1, <2>2 DEF Begun
<1>5. ASSUME Begun(a, n + 1), kind \in {"end", "error"} PROVE Over(b, n + 1)
  <2>1. n + 1 + 1 = n + 2
    OBVIOUS
  <2> QED BY <1>0, <1>3, <1>5, <2>1 DEF Over
<1> QED BY <1>2, <1>4, <1>5

\* Each step of a request.
LEMMA ProxyingRecords ==
  ASSUME RequestsRecorded, NEW r \in Requests, Proxying(r)
  PROVE  RequestsRecorded'
<1>1. PICK q0 : q0 = req[r]
  OBVIOUS
<1>2. PICK a0 : a0 = OfRequest(r)
  OBVIOUS
<1>3. q0 \in Proxied /\ RecordOK(q0, a0) /\ a0 \in Seq(Logged)
  BY <1>1, <1>2, OfRequestType DEF RequestsRecorded
<1>4. /\ q0.index \in Nat /\ q0.got \in Nat /\ 0 \in Nat
      /\ DOMAIN q0 = {"pc", "target", "index", "body", "closed", "got", "status"}
      /\ ActionKinds = {"start", "chunk", "error", "end"}
  BY <1>3 DEF Proxied, ActionKinds
<1>5. CASE CheckTarget(r)
  <2>1. PICK q : q = IF route = "none" THEN [q0 EXCEPT !.pc = "done", !.status = "not implemented"]
                     ELSE [q0 EXCEPT !.pc = "direct"]
    OBVIOUS
  <2>2. q0.pc = "new" /\ req' = [req EXCEPT ![r] = q] /\ log' = log /\ route' = route
    BY <1>1, <1>5, <2>1 DEF CheckTarget
  <2>3. q \in Proxied
    BY <1>3, <2>1 DEF Proxied
  <2>4. RecordOK(q, a0)
    <3>1. /\ q.index = q0.index /\ q.got = q0.got /\ q.closed = q0.closed
          /\ \/ q.pc = "done" /\ q.status = "not implemented"
             \/ q.pc = "direct" /\ q.status = q0.status
      BY <1>3, <2>1 DEF Proxied
    <3>2. q0.got <= q0.index /\ a0 = <<>> /\ q0.index = 0 /\ ~ q0.closed /\ q0.status = "none"
      BY <1>3, <2>2 DEF RecordOK
    <3>3. q0.got = 0
      BY <1>4, <3>2
    <3> QED BY <3>1, <3>2, <3>3 DEF RecordOK
  <2> QED BY <1>2, <2>2, <2>3, <2>4, Unrecorded
<1>6. CASE Direct(r)
  <2>1. PICK q : q = [q0 EXCEPT !.pc = "start", !.target = TargetForRequest]
    OBVIOUS
  <2>2. q0.pc = "direct" /\ log' = log /\ route' = route
    BY <1>1, <1>6 DEF Direct
  <2>3. req' = [req EXCEPT ![r] = q]
    BY <1>1, <1>6, <2>1 DEF Direct, RequestsRecorded
  <2>4. TargetForRequest \in Targets \cup {"none", Default}
    BY DEF TargetForRequest, RequestsRecorded
  <2>5. q \in Proxied
    BY <1>3, <2>1, <2>4 DEF Proxied
  <2>6. RecordOK(q, a0)
    BY <1>3, <2>1, <2>2 DEF RecordOK, Proxied
  <2> QED BY <1>2, <2>2, <2>3, <2>5, <2>6, Unrecorded
<1>7. CASE ObserveStart(r)
  <2>1. PICK q : q = [q0 EXCEPT !.pc = "trip"]
    OBVIOUS
  <2>2. /\ q0.pc = "start" /\ Dispatch(r, "start", 0) /\ route' = route
        /\ req' = [req EXCEPT ![r] = q]
    BY <1>1, <1>7, <2>1 DEF ObserveStart, RequestsRecorded
  <2>3. q \in Proxied
    BY <1>3, <2>1 DEF Proxied
  <2>4. PICK b : b = Append(OfRequest(r), [req |-> r, kind |-> "start", index |-> 0])
    OBVIOUS
  <2>5. q0.index = 0 /\ a0 = <<>> /\ "start" \in ActionKinds
    BY <1>3, <2>2 DEF RecordOK, ActionKinds
  <2>6. Begun(b, 1)
    BY <1>2, <1>3, <1>4, <2>4, <2>5, BegunGrows
  <2>7. RecordOK(q, b)
    <3>1. /\ q.index = q0.index /\ q.got = q0.got /\ q.closed = q0.closed
          /\ q.pc = "trip" /\ q.status = q0.status
      BY <1>3, <2>1 DEF Proxied
    <3>2. q0.got <= q0.index /\ ~ q0.closed /\ q0.status = "none"
      BY <1>3, <2>2 DEF RecordOK
    <3>3. 0 + 1 = 1
      OBVIOUS
    <3> QED BY <3>3, <2>5, <2>6, <3>1, <3>2 DEF RecordOK
  <2> QED BY <1>2, <1>4, <2>2, <2>3, <2>4, <2>5, <2>7, RecordedNext
<1>8. CASE TripFails(r)
  <2>1. PICK q : q = [q0 EXCEPT !.pc = "done", !.status = "bad gateway"]
    OBVIOUS
  <2>2. /\ q0.pc = "trip" /\ Dispatch(r, "error", 0) /\ route' = route
        /\ req' = [req EXCEPT ![r] = q]
    BY <1>1, <1>8, <2>1 DEF TripFails, RequestsRecorded
  <2>3. q \in Proxied
    BY <1>3, <2>1 DEF Proxied
  <2>4. PICK b : b = Append(OfRequest(r), [req |-> r, kind |-> "error", index |-> 0])
    OBVIOUS
  <2>5. q0.index = 0 /\ Begun(a0, 0 + 1) /\ "error" \in ActionKinds
    BY <1>3, <2>2 DEF RecordOK, ActionKinds
  <2>6. Over(b, 0 + 1)
    BY <1>2, <1>3, <1>4, <2>4, <2>5, BegunGrows
  <2>7. RecordOK(q, b)
    BY <1>3, <2>1, <2>2, <2>5, <2>6 DEF RecordOK, Proxied
  <2> QED BY <1>2, <1>4, <2>2, <2>3, <2>4, <2>5, <2>7, RecordedNext
<1>9. CASE Respond(r)
  <2>1. PICK q : q = [q0 EXCEPT !.pc = "read"]
    OBVIOUS
  <2>2. q0.pc = "trip" /\ log' = log /\ route' = route /\ req' = [req EXCEPT ![r] = q]
    BY <1>1, <1>9, <2>1 DEF Respond, RequestsRecorded
  <2>3. q \in Proxied
    BY <1>3, <2>1 DEF Proxied
  <2>4. RecordOK(q, a0)
    BY <1>3, <2>1, <2>2 DEF RecordOK, Proxied
  <2> QED BY <1>2, <2>2, <2>3, <2>4, Unrecorded
<1>10. CASE ReadPiece(r)
  <2>1. PICK q : q = [q0 EXCEPT !.index = q0.index + 1, !.pc = "write"]
    OBVIOUS
  <2>2. /\ q0.pc = "read" /\ Dispatch(r, "chunk", q0.index) /\ route' = route
        /\ req' = [req EXCEPT ![r] = q]
    BY <1>1, <1>10, <2>1 DEF ReadPiece, RequestsRecorded
  <2>3. q \in Proxied
    <3>1. q0.index + 1 \in Nat
      BY <1>4
    <3> QED BY <1>3, <2>1, <3>1 DEF Proxied
  <2>4. PICK b : b = Append(OfRequest(r), [req |-> r, kind |-> "chunk", index |-> q0.index])
    OBVIOUS
  <2>5. Begun(a0, q0.index + 1) /\ "chunk" \in ActionKinds
    BY <1>3, <2>2 DEF RecordOK, ActionKinds
  <2>6. Begun(b, q0.index + 2)
    BY <1>2, <1>3, <1>4, <2>3, <2>4, <2>5, BegunGrows
  <2>7. RecordOK(q, b)
    <3>1. /\ q.index = q0.index + 1 /\ q.got = q0.got /\ q.closed = q0.closed
          /\ q.pc = "write" /\ q.status = q0.status
      BY <1>4, <2>1
    <3>2. q0.got <= q0.index /\ ~ q0.closed /\ q0.status = "none"
      BY <1>3, <2>2 DEF RecordOK
    <3>3. q.got <= q.index /\ q.got < q.index /\ q0.index + 2 = q.index + 1
      BY <1>4, <3>1, <3>2
    <3> QED BY <2>6, <3>1, <3>2, <3>3 DEF RecordOK
  <2> QED BY <1>2, <1>4, <2>2, <2>3, <2>4, <2>5, <2>7, RecordedNext
<1>11. ASSUME NEW again \in BOOLEAN, CloseBody(r, again) PROVE RequestsRecorded'
  <2>1. PICK q : q = [q0 EXCEPT !.pc = IF again /\ ~ q0.closed THEN "close" ELSE "done",
                                !.closed = TRUE, !.status = "ok"]
    OBVIOUS
  <2>2. q0.pc = "close" /\ route' = route /\ req' = [req EXCEPT ![r] = q]
    BY <1>1, <1>11, <2>1 DEF CloseBody, RequestsRecorded
  <2>3. q \in Proxied
    BY <1>3, <2>1 DEF Proxied
  <2>4. CASE q0.closed
    <3>1. log' = log
      BY <1>1, <1>11, <2>4 DEF CloseBody
    <3>2. RecordOK(q, a0)
      BY <1>3, <2>1, <2>2, <2>4 DEF RecordOK, Proxied
    <3> QED BY <1>2, <2>2, <2>3, <3>1, <3>2, Unrecorded
  <2>5. CASE ~ q0.closed
    <3>1. Dispatch(r, "end", 0)
      BY <1>1, <1>11, <2>5 DEF CloseBody
    <3>2. PICK b : b = Append(OfRequest(r), [req |-> r, kind |-> "end", index |-> 0])
      OBVIOUS
    <3>3. q0.index \in Nat /\ Begun(a0, q0.index + 1) /\ "end" \in ActionKinds
      BY <1>3, <2>2, <2>5 DEF RecordOK, ActionKinds, Proxied
    <3>4. Over(b, q0.index + 1)
      BY <1>2, <1>3, <1>4, <3>2, <3>3, BegunGrows
    <3>5. RecordOK(q, b)
      BY <1>3, <2>1, <2>2, <3>4 DEF RecordOK, Proxied
    <3> QED BY <1>2, <1>4, <2>2, <2>3, <3>1, <3>2, <3>3, <3>5, RecordedNext
  <2> QED BY <2>4, <2>5
<1>12. ASSUME NEW how \in {"eof", "broken"}, ReadLast(r, how) PROVE RequestsRecorded'
  <2>1. PICK q : q = [q0 EXCEPT !.pc = "close", !.body = how]
    OBVIOUS
  <2>2. q0.pc = "read" /\ log' = log /\ route' = route /\ req' = [req EXCEPT ![r] = q]
    BY <1>1, <1>12, <2>1 DEF ReadLast, RequestsRecorded
  <2>3. q \in Proxied
    BY <1>3, <2>1 DEF Proxied
  <2>4. RecordOK(q, a0)
    BY <1>3, <2>1, <2>2 DEF RecordOK, Proxied
  <2> QED BY <1>2, <2>2, <2>3, <2>4, Unrecorded
<1>13. ASSUME NEW works \in BOOLEAN, WritePiece(r, works) PROVE RequestsRecorded'
  <2>1. q0.pc = "write" /\ log' = log /\ route' = route
    BY <1>1, <1>13 DEF WritePiece
  <2>2. /\ q0.got < q0.index /\ Begun(a0, q0.index + 1) /\ q0.status = "none" /\ ~ q0.closed
    BY <1>3, <2>1 DEF RecordOK
  <2>3. CASE works
    <3>1. PICK q : q = [q0 EXCEPT !.pc = "read", !.got = q0.got + 1]
      OBVIOUS
    <3>2. req' = [req EXCEPT ![r] = q]
      BY <1>1, <1>13, <2>3, <3>1 DEF WritePiece, RequestsRecorded
    <3>3. /\ q.index = q0.index /\ q.got = q0.got + 1 /\ q.closed = q0.closed
          /\ q.pc = "read" /\ q.status = q0.status
      BY <1>4, <3>1
    <3>4. q0.got + 1 \in Nat /\ q0.got + 1 <= q0.index
      BY <1>4, <2>2
    <3>5. q \in Proxied
      BY <1>3, <3>1, <3>4 DEF Proxied
    <3>6. RecordOK(q, a0)
      BY <2>2, <3>3, <3>4 DEF RecordOK
    <3> QED BY <1>2, <2>1, <3>2, <3>5, <3>6, Unrecorded
  <2>4. CASE ~ works
    <3>1. PICK q : q = [q0 EXCEPT !.pc = "close", !.body = "gone"]
      OBVIOUS
    <3>2. req' = [req EXCEPT ![r] = q]
      BY <1>1, <1>13, <2>4, <3>1 DEF WritePiece, RequestsRecorded
    <3>3. /\ q.index = q0.index /\ q.got = q0.got /\ q.closed = q0.closed
          /\ q.pc = "close" /\ q.status = q0.status
      BY <1>4, <3>1
    <3>4. q0.got <= q0.index
      BY <1>4, <2>2
    <3>5. q \in Proxied
      BY <1>3, <3>1 DEF Proxied
    <3>6. RecordOK(q, a0)
      BY <2>2, <3>3, <3>4 DEF RecordOK
    <3> QED BY <1>2, <2>1, <3>2, <3>5, <3>6, Unrecorded
  <2> QED BY <2>3, <2>4
<1> QED
  BY <1>5, <1>6, <1>7, <1>8, <1>9, <1>10, <1>11, <1>12, <1>13 DEF Proxying

LEMMA RecordsInit == GatewayInit => RequestsRecorded
<1> SUFFICES ASSUME GatewayInit PROVE RequestsRecorded
  OBVIOUS
<1>1. NewReq \in Proxied
  BY DEF NewReq, Proxied
<1>2. log \in Seq(Logged)
  BY DEF GatewayInit
<1>3. ASSUME NEW r \in Requests PROVE RecordOK(req[r], OfRequest(r))
  <2>1. OfRequest(r) = <<>> /\ req[r] = NewReq
    BY KeptOfNone DEF GatewayInit, OfRequest
  <2> QED BY <2>1 DEF RecordOK, NewReq
<1> QED BY <1>1, <1>2, <1>3 DEF RequestsRecorded, GatewayInit

LEMMA RecordsStep == RequestsRecorded /\ [GatewayNext]_gatewayVars => RequestsRecorded'
<1> SUFFICES ASSUME RequestsRecorded, [GatewayNext]_gatewayVars PROVE RequestsRecorded'
  OBVIOUS
<1>1. ASSUME UNCHANGED <<req, log>>, route' \in Targets \cup {"none"} PROVE RequestsRecorded'
  <2>1. \A r \in Requests : OfRequest(r)' = OfRequest(r)
    BY <1>1 DEF OfRequest
  <2>2. \A p, a : RecordOK(p, a)' <=> RecordOK(p, a)
    BY DEF RecordOK
  <2>3. \A r \in Requests : RecordOK(req[r], OfRequest(r))'
    BY <1>1, <2>1, <2>2 DEF RequestsRecorded
  <2> QED BY <1>1, <2>3 DEF RequestsRecorded
<1>2. ASSUME UNCHANGED gatewayVars PROVE RequestsRecorded'
  BY <1>1, <1>2 DEF gatewayVars, RequestsRecorded
<1>3. ASSUME NEW r \in Requests, Proxying(r) PROVE RequestsRecorded'
  BY <1>3, ProxyingRecords
<1>4. ASSUME NEW target \in Targets \cup {"none"}, ChangeRoute(target) PROVE RequestsRecorded'
  BY <1>1, <1>4 DEF ChangeRoute
<1>5. ASSUME NEW c \in Streams, OpenStream(c) \/ SendEvent(c) \/ CloseStream(c)
      PROVE  RequestsRecorded'
  <2>1. UNCHANGED <<req, log>> /\ route' = route
    BY <1>5 DEF OpenStream, SendEvent, CloseStream
  <2> QED BY <1>1, <2>1 DEF RequestsRecorded
<1> QED BY <1>2, <1>3, <1>4, <1>5 DEF GatewayNext

LEMMA RecordsImply == RequestsRecorded => RecordedInOrder
<1> SUFFICES ASSUME RequestsRecorded, NEW r \in Requests
             PROVE  LET a == OfRequest(r) IN
    /\ \A i \in DOMAIN a :
         /\ a[i].kind = "start" <=> i = 1
         /\ a[i].kind = "chunk" => a[i].index = i - 2
         /\ a[i].kind \in {"end", "error"} => i = Len(a)
    /\ req[r].got > 0 =>
         \E i \in DOMAIN a : a[i].kind = "chunk" /\ a[i].index = req[r].got - 1
    /\ req[r].status \in {"ok", "bad gateway"} => Last(a).kind \in {"end", "error"}
  BY DEF RecordedInOrder
<1>1. PICK q : q = req[r]
  OBVIOUS
<1>2. PICK a : a = OfRequest(r)
  OBVIOUS
<1>3. q \in Proxied /\ RecordOK(q, a) /\ a \in Seq(Logged)
  BY <1>1, <1>2, OfRequestType DEF RequestsRecorded
<1>4. PICK n : n = q.index + 1
  OBVIOUS
<1>5. n \in Nat /\ n >= 1 /\ q.got \in Nat /\ q.got < n /\ q.index = n - 1
  <2>1. q.index \in Nat /\ q.got \in Nat
    BY <1>3 DEF Proxied
  <2>2. q.got <= q.index
    BY <1>3 DEF RecordOK
  <2> QED BY <1>4, <2>1, <2>2
<1>6. /\ (a = <<>> /\ q.got = 0) \/ Begun(a, n) \/ Over(a, n)
      /\ q.status \in {"ok", "bad gateway"} => Over(a, n)
  <2>1. q.status \in {"ok", "bad gateway"} => Over(a, n)
    BY <1>3, <1>4 DEF RecordOK
  <2>2. CASE q.pc \in {"new", "direct", "start"}
    <3>1. a = <<>> /\ q.index = 0 /\ q.got <= q.index
      BY <1>3, <2>2 DEF RecordOK
    <3>2. q.got = 0
      BY <1>5, <3>1
    <3> QED BY <2>1, <3>1, <3>2
  <2>3. CASE q.pc \in {"trip", "read", "write"}
    BY <1>3, <1>4, <2>1, <2>3 DEF RecordOK
  <2>4. CASE q.pc = "close"
    BY <1>3, <1>4, <2>1, <2>4 DEF RecordOK
  <2>5. CASE q.pc = "done"
    BY <1>3, <1>4, <2>1, <2>5 DEF RecordOK
  <2> QED BY <1>3, <2>2, <2>3, <2>4, <2>5 DEF Proxied
<1>7. DOMAIN a = 1 .. Len(a)
  BY <1>3
<1>8. Len(a) \in Nat
  BY <1>3
<1>9. \A i \in DOMAIN a :
         /\ a[i].kind = "start" <=> i = 1
         /\ a[i].kind = "chunk" => a[i].index = i - 2
         /\ a[i].kind \in {"end", "error"} => i = Len(a)
  <2>1. CASE a = <<>>
    BY <2>1
  <2>2. CASE Begun(a, n)
    <3>1. \A i \in DOMAIN a : i = 1 \/ i \in 2 .. n
      BY <1>5, <1>7, <2>2 DEF Begun
    <3>2. \A i \in 2 .. n : i # 1
      BY <1>5
    <3> QED BY <2>2, <3>1, <3>2 DEF Begun
  <2>3. CASE Over(a, n)
    <3>1. \A i \in DOMAIN a : i = 1 \/ i \in 2 .. n \/ i = n + 1
      BY <1>5, <1>7, <2>3 DEF Over
    <3>2. n + 1 # 1 /\ \A i \in 2 .. n : i # 1
      BY <1>5
    <3> QED BY <2>3, <3>1, <3>2 DEF Over
  <2> QED BY <1>6, <2>1, <2>2, <2>3
<1>10. ASSUME q.got > 0
       PROVE  \E i \in DOMAIN a : a[i].kind = "chunk" /\ a[i].index = q.got - 1
  <2>1. q.got + 1 \in 2 .. n /\ q.got + 1 - 2 = q.got - 1
    BY <1>5, <1>10
  <2>2. q.got # 0
    BY <1>5, <1>10
  <2>3. Begun(a, n) \/ Over(a, n)
    BY <1>6, <2>2
  <2>4. Len(a) >= n /\ \A i \in 2 .. n : a[i].kind = "chunk" /\ a[i].index = i - 2
    BY <1>5, <2>3 DEF Begun, Over
  <2>5. PICK i : i = q.got + 1
    OBVIOUS
  <2>6. i \in 2 .. n /\ i - 2 = q.got - 1 /\ i \in DOMAIN a
    BY <1>5, <1>7, <1>8, <2>1, <2>4, <2>5
  <2> QED BY <2>4, <2>6
<1>11. ASSUME q.status \in {"ok", "bad gateway"} PROVE Last(a).kind \in {"end", "error"}
  BY <1>6, <1>11 DEF Over, Last
<1> QED BY <1>1, <1>2, <1>9, <1>10, <1>11

\* The actions recorded of a request are its start, its pieces in order and one
\* end or error, and are never behind what its client has got: handleProxy, the
\* reverse proxy and observingBody, however requests interleave.
THEOREM RequestsReplayable == GatewaySpec => []RecordedInOrder
<1>1. GatewaySpec => []RequestsRecorded
  BY RecordsInit, RecordsStep, PTL DEF GatewaySpec
<1> QED BY <1>1, RecordsImply, PTL

-----------------------------------------------------------------------------
(* The streams *)

Streaming == [pc : {"off", "open", "closed"}, channel : Seq(Nat), got : Seq(Nat),
              since : Nat, lost : SUBSET Nat]

\* What an open stream has sent or holds are the numbers of the actions since
\* it was opened, apart from those that are lost; n is the length of the log.
StreamOK(s, n) ==
  /\ s \in Streaming
  /\ s.pc = "off" => s = NewStream
  /\ s.pc = "open" => /\ s.since <= n /\ s.lost \subseteq 1 .. n
                      /\ Numbers(s.got \o s.channel, s.since + 1, n, s.lost)

StreamsFollow == /\ stream \in [Streams -> Streaming]
                 /\ \A c \in Streams : StreamOK(stream[c], Len(log))

LEMMA NoneYet ==
  ASSUME NEW n \in Nat
  PROVE  Numbers(<<>>, n + 1, n, {})
<1>1. Range(<<>>) = {}
  BY DEF Range
<1>2. Increasing(<<>>)
  BY DEF Increasing
<1>3. (n + 1 .. n) \ {} = {}
  OBVIOUS
<1> QED BY <1>1, <1>2, <1>3 DEF Numbers

\* An action that is dispatched waits in the channel of each open stream or is lost.
LEMMA OfferedKeeps ==
  ASSUME NEW n \in Nat, NEW s, StreamOK(s, n), NEW p, p = Offered(s, n + 1)
  PROVE  StreamOK(p, n + 1)
<1>0. /\ s \in Streaming /\ s.channel \in Seq(Nat) /\ s.got \in Seq(Nat)
      /\ s.since \in Nat /\ n + 1 \in Nat
  BY DEF StreamOK, Streaming
<1>1. CASE s.pc # "open"
  <2>1. p = s
    BY <1>1 DEF Offered
  <2> QED BY <1>1, <2>1 DEF StreamOK
<1>2. CASE s.pc = "open" /\ Len(s.channel) < Buffer
  <2>1. p = [s EXCEPT !.channel = Append(@, n + 1)]
    BY <1>2 DEF Offered
  <2>2. PICK one, f : one = <<n + 1>> /\ f = (s.got \o s.channel) \o one
    OBVIOUS
  <2>3. /\ s.since <= n /\ s.lost \subseteq 1 .. n
        /\ Numbers(s.got \o s.channel, s.since + 1, n, s.lost)
    BY <1>2 DEF StreamOK
  <2>4. s.got \o s.channel \in Seq(Nat) /\ one \in Seq(Nat)
    BY <1>0, <2>2, ConcatProperties
  <2>5. Numbers(f, s.since + 1, n + 1, s.lost)
    <3>1. PICK e, low, lost : e = s.got \o s.channel /\ low = s.since + 1 /\ lost = s.lost
      OBVIOUS
    <3>2. /\ low \in Nat /\ low <= n + 1 /\ lost \subseteq 1 .. n /\ e \in Seq(Nat)
          /\ Numbers(e, low, n, lost) /\ f = e \o one
      BY <1>0, <2>2, <2>3, <2>4, <3>1
    <3>3. Numbers(f, low, n + 1, lost)
      BY <2>2, <3>2, NumbersAppend
    <3> QED BY <3>1, <3>3
  <2>6. Append(s.channel, n + 1) \in Seq(Nat)
        /\ Append(s.channel, n + 1) = s.channel \o one
    BY <1>0, <2>2, AppendProperties, AppendIsConcat
  <2>7. /\ p \in Streaming
        /\ p.pc = "open" /\ p.got = s.got /\ p.since = s.since /\ p.lost = s.lost
        /\ p.channel = s.channel \o one
    BY <1>0, <1>2, <2>1, <2>6 DEF Streaming
  <2>8. f = p.got \o p.channel
    <3>1. (s.got \o s.channel) \o one = s.got \o (s.channel \o one)
      BY <1>0, <2>4, Associative
    <3> QED BY <2>2, <2>7, <3>1
  <2>9. p.since <= n + 1 /\ p.lost \subseteq 1 .. n + 1
    BY <1>0, <2>3, <2>7
  <2> QED BY <2>5, <2>7, <2>8, <2>9 DEF StreamOK
<1>3. CASE s.pc = "open" /\ ~ (Len(s.channel) < Buffer)
  <2>1. p = [s EXCEPT !.lost = @ \cup {n + 1}]
    BY <1>3 DEF Offered
  <2>2. /\ s.since <= n /\ s.lost \subseteq 1 .. n
        /\ Numbers(s.got \o s.channel, s.since + 1, n, s.lost)
    BY <1>3 DEF StreamOK
  <2>3. /\ p \in Streaming
        /\ p.pc = "open" /\ p.got = s.got /\ p.since = s.since
        /\ p.lost = s.lost \cup {n + 1} /\ p.channel = s.channel
    BY <1>0, <1>3, <2>1 DEF Streaming
  <2>4. (s.since + 1 .. n) \ s.lost = (s.since + 1 .. n + 1) \ (s.lost \cup {n + 1})
    BY <1>0
  <2>5. p.since <= n + 1 /\ p.lost \subseteq 1 .. n + 1
    <3>1. 1 .. n \subseteq 1 .. n + 1 /\ n + 1 \in 1 .. n + 1
      OBVIOUS
    <3> QED BY <1>0, <2>2, <2>3, <3>1
  <2>6. Numbers(p.got \o p.channel, p.since + 1, n + 1, p.lost)
    BY <2>2, <2>3, <2>4 DEF Numbers
  <2> QED BY <2>3, <2>5, <2>6 DEF StreamOK
<1> QED BY <1>1, <1>2, <1>3

LEMMA DispatchFollows ==
  ASSUME StreamsFollow, log \in Seq(Logged), NEW r \in Requests, NEW kind, NEW k,
         Dispatch(r, kind, k)
  PROVE  StreamsFollow'
<1>1. PICK n : n = Len(log)
  OBVIOUS
<1>2. PICK e : e = [req |-> r, kind |-> kind, index |-> k]
  OBVIOUS
<1>3. n \in Nat /\ log' = Append(log, e)
  BY <1>1, <1>2 DEF Dispatch
<1>4. Len(log') = n + 1
  BY <1>1, <1>3
<1>5. stream' = [c \in Streams |-> Offered(stream[c], n + 1)]
  BY <1>4 DEF Dispatch
<1>6. \A s, m : StreamOK(s, m)' <=> StreamOK(s, m)
  BY DEF StreamOK
<1>7. ASSUME NEW c \in Streams PROVE StreamOK(stream'[c], n + 1)
  <2>1. PICK s, p : s = stream[c] /\ p = stream'[c]
    OBVIOUS
  <2>2. StreamOK(s, n) /\ p = Offered(s, n + 1)
    BY <1>1, <1>5, <2>1 DEF StreamsFollow
  <2>3. StreamOK(p, n + 1)
    BY <1>3, <2>2, OfferedKeeps
  <2> QED BY <2>1, <2>3
<1>8. stream' \in [Streams -> Streaming]
  BY <1>5, <1>7 DEF StreamOK
<1> QED BY <1>4, <1>6, <1>7, <1>8 DEF StreamsFollow

\* A step of one stream.
LEMMA StreamStep ==
  ASSUME StreamsFollow, log' = log, NEW c \in Streams, NEW p, StreamOK(p, Len(log)),
         stream' = [stream EXCEPT ![c] = p]
  PROVE  StreamsFollow'
<1>1. PICK n : n = Len(log)
  OBVIOUS
<1>2. \A s, m : StreamOK(s, m)' <=> StreamOK(s, m)
  BY DEF StreamOK
<1>3. \A d \in Streams : stream'[d] = IF d = c THEN p ELSE stream[d]
  BY DEF StreamsFollow
<1>4. Len(log') = n
  BY <1>1
<1>5. \A d \in Streams : StreamOK(stream'[d], n)
  BY <1>1, <1>3 DEF StreamsFollow
<1>6. stream' \in [Streams -> Streaming]
  BY DEF StreamsFollow, StreamOK
<1> QED BY <1>2, <1>4, <1>5, <1>6 DEF StreamsFollow

LEMMA StreamsInit == GatewayInit => StreamsFollow
<1> SUFFICES ASSUME GatewayInit PROVE StreamsFollow
  OBVIOUS
<1>1. NewStream \in Streaming /\ NewStream.pc = "off"
  BY DEF NewStream, Streaming
<1> QED BY <1>1 DEF StreamsFollow, GatewayInit, StreamOK

LEMMA StreamsNext ==
  RequestsRecorded /\ StreamsFollow /\ [GatewayNext]_gatewayVars => StreamsFollow'
<1> SUFFICES ASSUME log \in Seq(Logged), StreamsFollow, [GatewayNext]_gatewayVars
             PROVE  StreamsFollow'
  BY DEF RequestsRecorded
<1>1. ASSUME UNCHANGED <<log, stream>> PROVE StreamsFollow'
  <2>1. \A s, m : StreamOK(s, m)' <=> StreamOK(s, m)
    BY DEF StreamOK
  <2> QED BY <1>1, <2>1 DEF StreamsFollow
<1>2. ASSUME NEW r \in Requests, Proxying(r) PROVE StreamsFollow'
  <2>1. UNCHANGED <<log, stream>> \/ \E kind, k : Dispatch(r, kind, k)
    BY <1>2 DEF Proxying, CheckTarget, Direct, ObserveStart, TripFails, Respond, ReadPiece,
                CloseBody, ReadLast, WritePiece
  <2> QED BY <1>1, <2>1, DispatchFollows
<1>3. ASSUME NEW target \in Targets \cup {"none"}, ChangeRoute(target) PROVE StreamsFollow'
  BY <1>1, <1>3 DEF ChangeRoute
<1>4. ASSUME NEW c \in Streams, OpenStream(c) PROVE StreamsFollow'
  <2>1. PICK n : n = Len(log)
    OBVIOUS
  <2>2. n \in Nat /\ stream[c] = NewStream /\ log' = log
    BY <1>4, <2>1 DEF OpenStream, StreamsFollow, StreamOK
  <2>3. PICK p : p = [NewStream EXCEPT !.pc = "open", !.since = n]
    OBVIOUS
  <2>4. stream' = [stream EXCEPT ![c] = p]
    BY <1>4, <2>1, <2>2, <2>3 DEF OpenStream, StreamsFollow
  <2>5. p = [pc |-> "open", channel |-> <<>>, got |-> <<>>, since |-> n, lost |-> {}]
    BY <2>3 DEF NewStream
  <2>6. p.got \o p.channel = <<>> /\ p \in Streaming
    BY <2>2, <2>5 DEF Streaming
  <2>7. Numbers(<<>>, n + 1, n, {})
    BY <2>2, NoneYet
  <2>8. StreamOK(p, n)
    BY <2>2, <2>5, <2>6, <2>7 DEF StreamOK
  <2> QED BY <2>1, <2>2, <2>4, <2>8, StreamStep
<1>5. ASSUME NEW c \in Streams, SendEvent(c) PROVE StreamsFollow'
  <2>1. PICK n, s : n = Len(log) /\ s = stream[c]
    OBVIOUS
  <2>2. StreamOK(s, n) /\ s.pc = "open" /\ s.channel # <<>> /\ log' = log
    BY <1>5, <2>1 DEF SendEvent, StreamsFollow
  <2>3. s \in Streaming /\ s.channel \in Seq(Nat) /\ s.got \in Seq(Nat)
    BY <2>2 DEF StreamOK, Streaming
  <2>4. PICK h, t, one : h = Head(s.channel) /\ t = Tail(s.channel) /\ one = <<h>>
    OBVIOUS
  <2>5. h \in Nat /\ t \in Seq(Nat) /\ one \in Seq(Nat) /\ s.channel = one \o t
    BY <2>2, <2>3, <2>4
  <2>6. PICK p : p = [s EXCEPT !.got = Append(@, h), !.channel = t]
    OBVIOUS
  <2>7. stream' = [stream EXCEPT ![c] = p]
    BY <1>5, <2>1, <2>4, <2>6 DEF SendEvent, StreamsFollow
  <2>8. Append(s.got, h) \in Seq(Nat) /\ Append(s.got, h) = s.got \o one
    BY <2>3, <2>4, <2>5, AppendProperties, AppendIsConcat
  <2>9. /\ p \in Streaming /\ p.pc = "open" /\ p.since = s.since /\ p.lost = s.lost
        /\ p.got = s.got \o one /\ p.channel = t
    BY <2>2, <2>3, <2>5, <2>6, <2>8 DEF Streaming
  <2>10. p.got \o p.channel = s.got \o s.channel
    <3>1. (s.got \o one) \o t = s.got \o (one \o t)
      BY <2>3, <2>5, Associative
    <3> QED BY <2>5, <2>9, <3>1
  <2>11. StreamOK(p, n)
    BY <2>2, <2>9, <2>10 DEF StreamOK
  <2> QED BY <2>1, <2>2, <2>7, <2>11, StreamStep
<1>6. ASSUME NEW c \in Streams, CloseStream(c) PROVE StreamsFollow'
  <2>1. PICK p : p = [NewStream EXCEPT !.pc = "closed"]
    OBVIOUS
  <2>2. p = [pc |-> "closed", channel |-> <<>>, got |-> <<>>, since |-> 0, lost |-> {}]
    BY <2>1 DEF NewStream
  <2>3. p \in Streaming /\ p.pc = "closed"
    BY <2>2 DEF Streaming
  <2>4. \A n : StreamOK(p, n)
    BY <2>3 DEF StreamOK
  <2>5. stream' = [stream EXCEPT ![c] = p] /\ log' = log
    BY <1>6, <2>1 DEF CloseStream
  <2> QED BY <2>4, <2>5, StreamStep
<1>7. ASSUME UNCHANGED gatewayVars PROVE StreamsFollow'
  BY <1>1, <1>7 DEF gatewayVars
<1> QED BY <1>2, <1>3, <1>4, <1>5, <1>6, <1>7 DEF GatewayNext

\* A stream misses nothing since it was opened but what found its channel full,
\* and keeps the order of the log: Dispatch and Subscribe of the command bus.
THEOREM StreamsComplete == GatewaySpec => []StreamExact
<1>1. StreamsFollow => StreamExact
  BY DEF StreamsFollow, StreamOK, StreamExact
<1> QED
  BY <1>1, RecordsInit, RecordsStep, StreamsInit, StreamsNext, PTL DEF GatewaySpec
==============================================================================
