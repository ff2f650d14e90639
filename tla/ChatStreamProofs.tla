-------------------------- MODULE ChatStreamProofs --------------------------
(***************************************************************************)
(* Proofs about the chat tab: a busy composer waits for a request, a       *)
(* prompt that fails comes back to the composer, a /stop cancels what it   *)
(* waits for, and the pieces of every answer appear in their order.        *)
(***************************************************************************)
EXTENDS ChatStream, SequenceTheorems, TLAPS

Kinds   == {"content", "done", "error", "reply", "failure"}
Message == [kind : Kinds, piece : Nat]
States  == {"none", "stream", "plain", "ended"}

Types ==
  /\ sent \in 0 .. MaxPrompts /\ index \in Int /\ busy \in BOOLEAN
  /\ prompt = [r \in Prompts |-> prompt[r]]
  /\ conn \in [Prompts -> States]
  /\ emitted \in [Prompts -> Nat]
  /\ armed \in [Prompts -> {0, 1}]
  /\ channel \in [Prompts -> Seq(Message)]
  /\ inbox \in [Prompts -> SUBSET Message]

ContentOnly(s) == \A i \in 1 .. Len(s) : s[i].kind = "content"
MayEnd(s) == \A i \in 1 .. Len(s) - 1 : s[i].kind = "content"

\* Nothing of the request is on its way.
Quiet(r) == armed[r] = 0 /\ inbox[r] = {} /\ channel[r] = <<>>

\* A stream is either waited for or has one message on its way, and nothing
\* follows its last message.
StreamOK(r) ==
  /\ armed[r] = 1 => inbox[r] = {}
  /\ \A c, d \in inbox[r] : c = d
  /\ conn[r] \in {"none", "plain"} => Quiet(r) /\ emitted[r] = 0
  /\ conn[r] = "stream" => ContentOnly(channel[r]) /\ (armed[r] = 1 \/ inbox[r] # {})
  /\ MayEnd(channel[r])
  /\ \A c \in inbox[r] : c.kind # "content" => conn[r] = "ended" /\ channel[r] = <<>>
  /\ emitted[r] = 0 => /\ \A i \in 1 .. Len(channel[r]) : channel[r][i].kind # "content"
                       /\ \A c \in inbox[r] : c.kind # "content"
  /\ r > sent => conn[r] = "none"

Live(r) == conn[r] \in {"stream", "plain"} \/ armed[r] = 1 \/ inbox[r] # {}

\* As long as nothing was stopped only the last request is on its way.
CurrentOK ==
  stopped = {} =>
    /\ \A r \in Prompts : Live(r) => busy /\ r = sent
    /\ busy => /\ cancel # 0 /\ pending = prompt[sent]
               /\ emitted[sent] = 0 => index = -1

\* What the busy composer waits for.
Awaited(r) == conn[r] = "plain" \/ armed[r] = 1 \/ inbox[r] # {}
BusyOK == busy => sent > 0 /\ Awaited(sent)

SInv == Types /\ BusyOK /\ (\A r \in Prompts : StreamOK(r)) /\ CurrentOK

-----------------------------------------------------------------------------
(* Sequences of messages *)

LEMMA AppendContent ==
  ASSUME NEW s \in Seq(Message), NEW m \in Message, ContentOnly(s)
  PROVE  /\ Append(s, m) \in Seq(Message)
         /\ MayEnd(Append(s, m))
         /\ m.kind = "content" => ContentOnly(Append(s, m))
         /\ (\A i \in 1 .. Len(s) : s[i].kind # "content") /\ m.kind # "content"
              => \A i \in 1 .. Len(Append(s, m)) : Append(s, m)[i].kind # "content"
BY DEF ContentOnly, MayEnd

LEMMA TailContent ==
  ASSUME NEW s \in Seq(Message), s # <<>>
  PROVE  /\ Head(s) \in Message /\ Tail(s) \in Seq(Message)
         /\ ContentOnly(s) => ContentOnly(Tail(s)) /\ Head(s).kind = "content"
         /\ MayEnd(s) => MayEnd(Tail(s))
         /\ MayEnd(s) /\ Head(s).kind # "content" => Tail(s) = <<>>
         /\ (\A i \in 1 .. Len(s) : s[i].kind # "content")
              => /\ Head(s).kind # "content"
                 /\ \A i \in 1 .. Len(Tail(s)) : Tail(s)[i].kind # "content"
<1>1. Head(s) = s[1] /\ Tail(s) \in Seq(Message) /\ Len(s) \in Nat \ {0}
  OBVIOUS
<1>2. Len(Tail(s)) = Len(s) - 1 /\ \A i \in 1 .. Len(Tail(s)) : Tail(s)[i] = s[i + 1]
  OBVIOUS
<1>3. \A i \in 1 .. Len(Tail(s)) : i + 1 \in 1 .. Len(s)
  BY <1>1, <1>2
<1>4. \A i \in 1 .. Len(Tail(s)) - 1 : i + 1 \in 1 .. Len(s) - 1 /\ i \in 1 .. Len(Tail(s))
  BY <1>1, <1>2
<1>5. ContentOnly(s) => ContentOnly(Tail(s)) /\ Head(s).kind = "content"
  BY <1>1, <1>2, <1>3 DEF ContentOnly
<1>6. MayEnd(s) => MayEnd(Tail(s))
  BY <1>2, <1>4 DEF MayEnd
<1>7. MayEnd(s) /\ Head(s).kind # "content" => Tail(s) = <<>>
  <2> SUFFICES ASSUME MayEnd(s), Head(s).kind # "content" PROVE Len(s) = 1
    BY <1>1, <1>2, EmptySeq
  <2>1. Len(s) # 1 => 1 \in 1 .. Len(s) - 1
    <3>1. Len(s) \in Nat /\ Len(s) # 0
      BY <1>1
    <3>2. \A n \in Nat : n # 0 /\ n # 1 => 1 \in 1 .. n - 1
      OBVIOUS
    <3> QED BY <3>1, <3>2
  <2>2. Head(s) = s[1]
    BY <1>1
  <2> QED BY <2>1, <2>2 DEF MayEnd
<1>8. Head(s) \in Message
  BY <1>1
<1>9. (\A i \in 1 .. Len(s) : s[i].kind # "content")
        => \A i \in 1 .. Len(Tail(s)) : Tail(s)[i].kind # "content"
  BY <1>2, <1>3
<1>10. (\A i \in 1 .. Len(s) : s[i].kind # "content") => Head(s).kind # "content"
  BY <1>1
<1> QED BY <1>1, <1>5, <1>6, <1>7, <1>8, <1>9, <1>10

-----------------------------------------------------------------------------
(* Steps *)

\* The step leaves the request q alone.
Same(q) == /\ conn'[q] = conn[q] /\ emitted'[q] = emitted[q] /\ armed'[q] = armed[q]
           /\ channel'[q] = channel[q] /\ inbox'[q] = inbox[q]

LEMMA SameKeeps ==
  ASSUME NEW q \in Prompts, StreamOK(q), Same(q), sent' = sent
  PROVE  /\ StreamOK(q)'
         /\ Live(q)' <=> Live(q)
         /\ Awaited(q)' <=> Awaited(q)
BY DEF StreamOK, Same, Live, Awaited, Quiet, MayEnd, ContentOnly

\* A key or a click that leaves the requests as they are.
LEMMA UserKeeps ==
  ASSUME SInv, UNCHANGED <<pending, busy, index, cancel, net>>
  PROVE  SInv'
<1>1. \A q \in Prompts : Same(q)
  BY DEF Same, net
<1>2. Types'
  BY DEF SInv, Types, net
<1>3. sent' = sent /\ stopped' = stopped /\ prompt' = prompt /\ emitted' = emitted
  BY DEF net
<1>4. \A q \in Prompts : StreamOK(q)' /\ (Live(q)' => Live(q)) /\ (Awaited(q) => Awaited(q)')
  BY <1>1, <1>3, SameKeeps DEF SInv
<1>5. BusyOK'
  BY <1>3, <1>4 DEF SInv, BusyOK, Types, Prompts
<1>6. CurrentOK'
  BY <1>3, <1>4 DEF SInv, CurrentOK
<1> QED BY <1>2, <1>4, <1>5, <1>6 DEF SInv

\* A step of the request r before Update.
LEMMA NetKeeps ==
  ASSUME SInv, UNCHANGED <<pending, busy, index, cancel, sent, prompt, stopped>>,
         NEW r \in Prompts, \A q \in Prompts \ {r} : Same(q),
         Types', StreamOK(r)',
         Awaited(r) => Awaited(r)',
         Live(r)' => Live(r),
         emitted'[r] = 0 => emitted[r] = 0
  PROVE  SInv'
<1>1. \A q \in Prompts : StreamOK(q)' /\ (Live(q)' => Live(q)) /\ (Awaited(q) => Awaited(q)')
  BY SameKeeps DEF SInv
<1>2. \A q \in Prompts : emitted'[q] = 0 => emitted[q] = 0
  BY DEF Same
<1>3. busy => sent \in Prompts
  BY DEF SInv, BusyOK, Types, Prompts
<1>4. BusyOK'
  BY <1>1, <1>3 DEF SInv, BusyOK
<1>5. CurrentOK'
  BY <1>1, <1>2, <1>3 DEF SInv, CurrentOK
<1> QED BY <1>1, <1>4, <1>5 DEF SInv

\* Update on the last message of the request r.
LEMMA LastKeeps ==
  ASSUME SInv, UNCHANGED <<sent, prompt, stopped>>, busy' = FALSE,
         NEW r \in Prompts, \A q \in Prompts \ {r} : Same(q),
         Types', StreamOK(r)', Live(r), ~ Live(r)'
  PROVE  SInv'
<1>1. \A q \in Prompts \ {r} : StreamOK(q)' /\ (Live(q)' => Live(q))
  BY SameKeeps DEF SInv
<1>2. CurrentOK'
  BY <1>1 DEF SInv, CurrentOK
<1> QED BY <1>1, <1>2 DEF SInv, BusyOK

LEMMA EmitKeeps ==
  ASSUME SInv, NEW r \in Prompts, Emit(r)
  PROVE  SInv'
<1> DEFINE m == [kind |-> "content", piece |-> emitted[r] + 1]
<1>1. /\ conn[r] = "stream"
      /\ channel' = [channel EXCEPT ![r] = Append(channel[r], m)]
      /\ emitted' = [emitted EXCEPT ![r] = emitted[r] + 1]
      /\ UNCHANGED <<ui, sent, prompt, conn, stopped, armed, inbox>>
  BY DEF Emit, Send
<1>2. StreamOK(r) /\ channel[r] \in Seq(Message) /\ m \in Message /\ m.kind = "content"
  BY DEF SInv, Types, Message, Kinds
<1> HIDE DEF m
<1>3. /\ Append(channel[r], m) \in Seq(Message)
      /\ MayEnd(Append(channel[r], m)) /\ ContentOnly(Append(channel[r], m))
  BY <1>1, <1>2, AppendContent DEF StreamOK
<1>4. /\ channel'[r] = Append(channel[r], m)
      /\ emitted'[r] = emitted[r] + 1 /\ emitted'[r] # 0
      /\ conn'[r] = "stream" /\ armed'[r] = armed[r] /\ inbox'[r] = inbox[r]
      /\ \A q \in Prompts \ {r} : Same(q)
  BY <1>1 DEF SInv, Types, Same
<1>5. Types'
  BY <1>1, <1>3 DEF SInv, Types, ui
<1>6. StreamOK(r)'
  <2>1. \A c \in inbox[r] : c.kind = "content"
    BY <1>1, <1>2 DEF StreamOK
  <2> QED BY <1>1, <1>2, <1>3, <1>4, <2>1 DEF StreamOK, MayEnd, ContentOnly
<1>7. Awaited(r)' <=> Awaited(r)
  BY <1>1, <1>4 DEF Awaited
<1>8. Live(r)' => Live(r)
  BY <1>1 DEF Live
<1> QED BY <1>1, <1>4, <1>5, <1>6, <1>7, <1>8, NetKeeps DEF ui

LEMMA EndStreamKeeps ==
  ASSUME SInv, NEW r \in Prompts, EndStream(r)
  PROVE  SInv'
<1>1. PICK kind \in {"done", "error"} : Send(r, Final(kind))
  BY DEF EndStream
<1> DEFINE m == Final(kind)
<1>2. m \in Message /\ m.kind # "content"
  BY DEF Final, Message, Kinds
<1> HIDE DEF m
<1>3. /\ conn[r] = "stream"
      /\ channel' = [channel EXCEPT ![r] = Append(channel[r], m)]
      /\ conn' = [conn EXCEPT ![r] = "ended"]
      /\ UNCHANGED <<ui, sent, prompt, stopped, emitted, armed, inbox>>
  BY <1>1 DEF EndStream, Send, m
<1>4. StreamOK(r) /\ channel[r] \in Seq(Message)
  BY DEF SInv, Types
<1>5. /\ Append(channel[r], m) \in Seq(Message)
      /\ MayEnd(Append(channel[r], m))
      /\ (\A i \in 1 .. Len(channel[r]) : channel[r][i].kind # "content")
           => \A i \in 1 .. Len(Append(channel[r], m)) :
                Append(channel[r], m)[i].kind # "content"
  BY <1>2, <1>3, <1>4, AppendContent DEF StreamOK
<1>6. /\ channel'[r] = Append(channel[r], m) /\ conn'[r] = "ended"
      /\ emitted'[r] = emitted[r] /\ armed'[r] = armed[r] /\ inbox'[r] = inbox[r]
      /\ \A q \in Prompts \ {r} : Same(q)
  BY <1>3 DEF SInv, Types, Same
<1>7. Types'
  BY <1>3, <1>5 DEF SInv, Types, ui, States
<1>8. StreamOK(r)'
  <2>1. (\A c \in inbox[r] : c.kind = "content") /\ ~ (r > sent)
    BY <1>3, <1>4 DEF StreamOK
  <2> QED BY <1>3, <1>4, <1>5, <1>6, <2>1 DEF StreamOK, MayEnd
<1>9. Awaited(r) => Awaited(r)'
  BY <1>3, <1>6 DEF Awaited
<1>10. Live(r)
  BY <1>3 DEF Live
<1> QED BY <1>3, <1>6, <1>7, <1>8, <1>9, <1>10, NetKeeps DEF ui

LEMMA EndPlainKeeps ==
  ASSUME SInv, NEW r \in Prompts, EndPlain(r)
  PROVE  SInv'
<1>1. PICK kind \in {"reply", "failure"} : inbox' = [inbox EXCEPT ![r] = {Final(kind)}]
  BY DEF EndPlain
<1>2. Final(kind) \in Message /\ Final(kind).kind # "content"
  BY DEF Final, Message, Kinds
<1>3. /\ conn[r] = "plain" /\ conn' = [conn EXCEPT ![r] = "ended"]
      /\ UNCHANGED <<ui, sent, prompt, stopped, emitted, channel, armed>>
  BY DEF EndPlain
<1>4. StreamOK(r) /\ Quiet(r) /\ emitted[r] = 0
  BY <1>3 DEF SInv, StreamOK
<1>5. /\ inbox'[r] = {Final(kind)} /\ conn'[r] = "ended"
      /\ emitted'[r] = 0 /\ armed'[r] = 0 /\ channel'[r] = <<>>
      /\ \A q \in Prompts \ {r} : Same(q)
  BY <1>1, <1>3, <1>4 DEF SInv, Types, Same, Quiet
<1>6. Types'
  BY <1>1, <1>2, <1>3 DEF SInv, Types, ui, States
<1>7. StreamOK(r)'
  BY <1>2, <1>3, <1>4, <1>5 DEF StreamOK, MayEnd
<1>8. Awaited(r)' /\ Live(r)
  BY <1>3, <1>5 DEF Awaited, Live
<1> QED BY <1>3, <1>4, <1>5, <1>6, <1>7, <1>8, NetKeeps DEF ui

LEMMA WaitForChunkKeeps ==
  ASSUME SInv, NEW r \in Prompts, WaitForChunk(r)
  PROVE  SInv'
<1>1. /\ armed[r] = 1 /\ armed' = [armed EXCEPT ![r] = 0]
      /\ UNCHANGED <<ui, sent, prompt, conn, stopped, emitted>>
  <2>1. /\ armed[r] > 0 /\ armed' = [armed EXCEPT ![r] = armed[r] - 1]
        /\ UNCHANGED <<ui, sent, prompt, conn, stopped, emitted>>
    BY DEF WaitForChunk
  <2>2. armed[r] = 1
    BY <2>1 DEF SInv, Types
  <2> QED BY <2>1, <2>2
<1>2. /\ StreamOK(r) /\ channel[r] \in Seq(Message) /\ inbox[r] = {}
      /\ conn[r] \in {"stream", "ended"} /\ ~ (r > sent)
  BY <1>1 DEF SInv, Types, StreamOK, Quiet, States
<1>3. CASE /\ channel[r] # <<>>
           /\ inbox' = [inbox EXCEPT ![r] = @ \cup {Head(channel[r])}]
           /\ channel' = [channel EXCEPT ![r] = Tail(@)]
  <2> DEFINE m == Head(channel[r])
             rest == Tail(channel[r])
  <2>1. /\ m \in Message /\ rest \in Seq(Message) /\ MayEnd(rest)
        /\ conn[r] = "stream" => ContentOnly(rest) /\ m.kind = "content"
        /\ m.kind # "content" => rest = <<>>
        /\ (\A i \in 1 .. Len(channel[r]) : channel[r][i].kind # "content")
             => m.kind # "content" /\ \A i \in 1 .. Len(rest) : rest[i].kind # "content"
    BY <1>2, <1>3, TailContent DEF StreamOK
  <2> HIDE DEF m, rest
  <2>2. inbox' = [inbox EXCEPT ![r] = {m}] /\ channel' = [channel EXCEPT ![r] = rest]
    BY <1>2, <1>3 DEF m, rest, SInv, Types
  <2>3. /\ inbox'[r] = {m} /\ channel'[r] = rest /\ armed'[r] = 0
        /\ conn'[r] = conn[r] /\ emitted'[r] = emitted[r]
        /\ \A q \in Prompts \ {r} : Same(q)
    BY <1>1, <2>2 DEF SInv, Types, Same
  <2>4. Types'
    BY <1>1, <2>1, <2>2 DEF SInv, Types, ui
  <2>5. StreamOK(r)'
    BY <1>1, <1>2, <2>1, <2>3 DEF StreamOK, MayEnd, ContentOnly
  <2>6. Awaited(r)' /\ Live(r)
    BY <1>1, <2>3 DEF Awaited, Live
  <2> QED BY <1>1, <2>3, <2>4, <2>5, <2>6, NetKeeps DEF ui
<1>4. CASE /\ channel[r] = <<>> /\ conn[r] = "ended"
           /\ inbox' = [inbox EXCEPT ![r] = @ \cup {Final("done")}]
           /\ UNCHANGED channel
  <2>1. Final("done") \in Message /\ Final("done").kind # "content"
    BY DEF Final, Message, Kinds
  <2>2. /\ inbox' = [inbox EXCEPT ![r] = {Final("done")}]
        /\ inbox'[r] = {Final("done")} /\ channel'[r] = <<>> /\ armed'[r] = 0
        /\ conn'[r] = "ended" /\ emitted'[r] = emitted[r]
        /\ \A q \in Prompts \ {r} : Same(q)
    BY <1>1, <1>2, <1>4 DEF SInv, Types, Same
  <2>3. Types'
    BY <1>1, <1>4, <2>1, <2>2 DEF SInv, Types, ui
  <2>4. StreamOK(r)'
    BY <1>1, <1>2, <2>1, <2>2 DEF StreamOK, MayEnd
  <2>5. Awaited(r)' /\ Live(r)
    BY <1>1, <2>2 DEF Awaited, Live
  <2> QED BY <1>1, <2>2, <2>3, <2>4, <2>5, NetKeeps DEF ui
<1> QED BY <1>3, <1>4 DEF WaitForChunk

\* A message on its way is the only one of its request.
LEMMA Taken ==
  ASSUME SInv, NEW r \in Prompts, NEW chunk, Take(r, chunk)
  PROVE  /\ inbox[r] = {chunk} /\ armed[r] = 0 /\ Live(r)
         /\ inbox' = [inbox EXCEPT ![r] = {}]
         /\ inbox'[r] = {}
         /\ UNCHANGED <<sent, prompt, conn, stopped, emitted, channel>>
<1>1. StreamOK(r)
  BY DEF SInv
<1>2. inbox[r] = {chunk} /\ armed[r] = 0
  BY <1>1 DEF Take, StreamOK, SInv, Types
<1>3. inbox' = [inbox EXCEPT ![r] = {}]
  BY <1>2 DEF Take
<1> QED BY <1>2, <1>3 DEF Take, Live, SInv, Types

LEMMA ApplyContentKeeps ==
  ASSUME SInv, NEW r \in Prompts, NEW chunk \in inbox[r], ApplyContent(r, chunk)
  PROVE  SInv'
<1>1. /\ chunk.kind = "content" /\ Take(r, chunk)
      /\ armed' = [armed EXCEPT ![r] = armed[r] + 1]
      /\ index' \in {index, Len(transcript)}
      /\ AnswerShown => index' = index
      /\ ~ AnswerShown => index' = Len(transcript)
      /\ UNCHANGED <<pending, busy, cancel>>
  BY DEF ApplyContent, Rearmed
<1>2. /\ inbox[r] = {chunk} /\ armed[r] = 0 /\ Live(r)
      /\ inbox' = [inbox EXCEPT ![r] = {}] /\ inbox'[r] = {}
      /\ UNCHANGED <<sent, prompt, conn, stopped, emitted, channel>>
  BY <1>1, Taken
<1>3. /\ armed' = [armed EXCEPT ![r] = 1] /\ armed'[r] = 1
      /\ \A q \in Prompts \ {r} : Same(q)
  BY <1>1, <1>2 DEF SInv, Types, Same
<1>4. index' \in Int
  BY <1>1 DEF SInv, Types, AnswerShown
<1>5. Types'
  BY <1>1, <1>2, <1>3, <1>4 DEF SInv, Types
<1>6. StreamOK(r) /\ emitted[r] # 0 /\ conn[r] \in {"stream", "ended"}
  BY <1>1, <1>2 DEF SInv, StreamOK, Types, States, Quiet
<1>7. StreamOK(r)'
  BY <1>2, <1>3, <1>6 DEF StreamOK, MayEnd, ContentOnly
<1>8. \A q \in Prompts \ {r} : StreamOK(q)' /\ (Live(q)' => Live(q))
                               /\ (Awaited(q) => Awaited(q)')
  BY <1>2, <1>3, SameKeeps DEF SInv
<1>9. BusyOK'
  <2>1. Awaited(r)'
    BY <1>3 DEF Awaited
  <2>2. \A q \in Prompts : Awaited(q) => Awaited(q)'
    BY <1>8, <2>1
  <2>3. busy => sent \in Prompts
    BY DEF SInv, BusyOK, Types, Prompts
  <2> QED BY <1>1, <1>2, <2>2, <2>3 DEF SInv, BusyOK
<1>10. CurrentOK'
  BY <1>1, <1>2, <1>6, <1>8 DEF SInv, CurrentOK
<1> QED BY <1>5, <1>7, <1>8, <1>9, <1>10 DEF SInv

\* Update on the last message of a request.
LEMMA LastTaken ==
  ASSUME SInv, NEW r \in Prompts, NEW chunk \in inbox[r], Take(r, chunk),
         chunk.kind # "content", armed' = armed, busy' = FALSE, index' \in {index, -1}
  PROVE  SInv'
<1>1. /\ inbox[r] = {chunk} /\ armed[r] = 0 /\ Live(r)
      /\ inbox' = [inbox EXCEPT ![r] = {}] /\ inbox'[r] = {}
      /\ UNCHANGED <<sent, prompt, conn, stopped, emitted, channel>>
  BY Taken
<1>2. StreamOK(r) /\ conn[r] = "ended" /\ channel[r] = <<>>
  BY <1>1 DEF SInv, StreamOK
<1>3. \A q \in Prompts \ {r} : Same(q)
  BY <1>1 DEF SInv, Types, Same
<1>4. Types'
  <2>1. index' \in Int
    BY DEF SInv, Types
  <2>2. inbox' \in [Prompts -> SUBSET Message]
    BY <1>1 DEF SInv, Types
  <2> QED BY <1>1, <2>1, <2>2 DEF SInv, Types
<1>5. StreamOK(r)' /\ ~ Live(r)'
  BY <1>1, <1>2 DEF StreamOK, MayEnd, Live
<1> QED BY <1>1, <1>3, <1>4, <1>5, LastKeeps

LEMMA UpdateKeeps ==
  ASSUME SInv, NEW r \in Prompts, Update(r)
  PROVE  SInv'
<1>1. PICK chunk \in inbox[r] : \/ ApplyContent(r, chunk) \/ ApplyDone(r, chunk)
                                \/ ApplyError(r, chunk) \/ ApplyCompletion(r, chunk)
  BY DEF Update
<1>2. CASE ApplyContent(r, chunk)
  BY <1>2, ApplyContentKeeps
<1>3. CASE ApplyDone(r, chunk)
  BY <1>3, LastTaken DEF ApplyDone
<1>4. CASE ApplyError(r, chunk)
  BY <1>4, LastTaken DEF ApplyError
<1>5. CASE ApplyCompletion(r, chunk)
  BY <1>5, LastTaken DEF ApplyCompletion
<1> QED BY <1>1, <1>2, <1>3, <1>4, <1>5

LEMMA SubmitKeeps ==
  ASSUME SInv, NEW plain \in BOOLEAN, Submit(plain)
  PROVE  SInv'
<1>0. sent < MaxPrompts /\ sent \in Nat /\ sent + 1 \in Prompts
  <2>1. sent < MaxPrompts
    BY DEF Submit
  <2>2. MaxPrompts \in Nat
    BY ChatAssumption
  <2>3. sent \in 0 .. MaxPrompts
    BY DEF SInv, Types
  <2> QED BY <2>1, <2>2, <2>3 DEF Prompts
<1> PICK r \in Prompts : r = sent + 1
  BY <1>0
<1>1. /\ ~ busy /\ sent < MaxPrompts /\ sent' = r
      /\ prompt' = [prompt EXCEPT ![r] = draft]
      /\ conn' = [conn EXCEPT ![r] = IF plain THEN "plain" ELSE "stream"]
      /\ armed' = [armed EXCEPT ![r] = IF plain THEN 0 ELSE 1]
      /\ cancel' = r /\ pending' = draft /\ busy' = TRUE /\ index' = -1
      /\ UNCHANGED <<stopped, emitted, channel, inbox>>
  BY DEF Submit, Armed
<1>2. r > sent /\ r # 0
  BY <1>0
<1>3. StreamOK(r) /\ conn[r] = "none" /\ Quiet(r) /\ emitted[r] = 0
  BY <1>2 DEF SInv, StreamOK
<1>4. /\ conn'[r] = IF plain THEN "plain" ELSE "stream"
      /\ armed'[r] = IF plain THEN 0 ELSE 1
      /\ prompt'[r] = draft
      /\ inbox'[r] = {} /\ channel'[r] = <<>> /\ emitted'[r] = 0
      /\ \A q \in Prompts \ {r} : Same(q)
  BY <1>1, <1>2, <1>3 DEF SInv, Types, Same, Quiet
<1>5. Types'
  <2>1. sent' \in 0 .. MaxPrompts
    BY <1>1, <1>2 DEF Prompts
  <2>2. conn' \in [Prompts -> States] /\ armed' \in [Prompts -> {0, 1}]
    BY <1>1 DEF SInv, Types, States
  <2>3. prompt' = [q \in Prompts |-> prompt'[q]]
    BY <1>1 DEF SInv, Types
  <2> QED BY <1>1, <2>1, <2>2, <2>3 DEF SInv, Types
<1>6. StreamOK(r)'
  <2>1. ~ (r > sent')
    BY <1>1, <1>2 DEF Prompts
  <2> QED BY <1>3, <1>4, <2>1 DEF StreamOK, Quiet, ContentOnly, MayEnd
<1>7. \A q \in Prompts \ {r} : StreamOK(q)'
  <2> SUFFICES ASSUME NEW q \in Prompts \ {r} PROVE StreamOK(q)'
    OBVIOUS
  <2>1. StreamOK(q) /\ Same(q)
    BY <1>4 DEF SInv
  <2>2. q > sent' => q > sent
    BY <1>0, <1>1 DEF Prompts
  <2> QED BY <2>1, <2>2 DEF StreamOK, Same, Quiet, ContentOnly, MayEnd
<1>8. \A q \in Prompts \ {r} : Live(q)' <=> Live(q)
  BY <1>4 DEF Live, Same
<1>9. BusyOK'
  <2>1. sent' = r /\ r > 0
    BY <1>0, <1>1
  <2>2. Awaited(r)'
    BY <1>4 DEF Awaited
  <2> QED BY <2>1, <2>2 DEF BusyOK
<1>10. CurrentOK'
  BY <1>1, <1>2, <1>4, <1>8 DEF SInv, CurrentOK
<1>11. \A q \in Prompts : StreamOK(q)'
  BY <1>6, <1>7
<1> QED BY <1>5, <1>9, <1>10, <1>11 DEF SInv

LEMMA StopKeeps ==
  ASSUME SInv, Stop
  PROVE  SInv'
<1>1. /\ stopped' = IF cancel = 0 THEN stopped ELSE stopped \cup {cancel}
      /\ busy' = FALSE
      /\ UNCHANGED <<pending, index, sent, prompt, conn, emitted, channel, armed, inbox>>
  BY DEF Stop
<1>2. \A q \in Prompts : StreamOK(q)' /\ (Live(q)' <=> Live(q))
  BY <1>1, SameKeeps DEF SInv, Same
<1>3. CurrentOK'
  BY <1>1, <1>2 DEF SInv, CurrentOK
<1>4. BusyOK'
  BY <1>1 DEF BusyOK
<1> QED BY <1>1, <1>2, <1>3, <1>4 DEF SInv, Types

\* What the user does: all but a prompt and /stop leaves the requests alone.
LEMMA UserSteps ==
  ASSUME User
  PROVE  \/ UNCHANGED <<pending, busy, index, cancel, net>>
         \/ \E plain \in BOOLEAN : Submit(plain)
         \/ Stop
<1>1. ASSUME NEW text, Type(text) PROVE UNCHANGED <<pending, busy, index, cancel, net>>
  BY <1>1 DEF Type
<1>2. CASE CtrlH
  BY <1>2 DEF CtrlH
<1>3. CASE ClosePopup
  BY <1>3 DEF ClosePopup
<1>4. CASE SubmitNoRunner
  BY <1>4 DEF SubmitNoRunner
<1>5. CASE Clear
  BY <1>5 DEF Clear
<1>6. CASE New
  BY <1>6 DEF New
<1>7. ASSUME NEW command, runChatCommand(command) PROVE Clear \/ Stop \/ New \/ ClosePopup
  BY <1>7 DEF runChatCommand
<1> QED BY <1>1, <1>2, <1>3, <1>4, <1>5, <1>6, <1>7 DEF User, Enter, Click

LEMMA InitOK == ChatInit => SInv
<1> SUFFICES ASSUME ChatInit PROVE SInv
  OBVIOUS
<1>1. Types
  <2>1. sent \in 0 .. MaxPrompts
    <3>1. MaxPrompts \in Nat /\ sent = 0
      BY ChatAssumption DEF ChatInit
    <3> QED BY <3>1
  <2>2. prompt = [r \in Prompts |-> prompt[r]]
    BY DEF ChatInit
  <2>3. <<>> \in Seq(Message)
    OBVIOUS
  <2>4. conn \in [Prompts -> States] /\ armed \in [Prompts -> {0, 1}]
    BY DEF ChatInit, States
  <2>5. /\ emitted \in [Prompts -> Nat] /\ channel \in [Prompts -> Seq(Message)]
        /\ inbox \in [Prompts -> SUBSET Message]
    BY <2>3 DEF ChatInit
  <2>6. index \in Int /\ busy \in BOOLEAN
    <3>1. index = -1 /\ busy = FALSE
      BY DEF ChatInit
    <3>2. -1 \in Int
      OBVIOUS
    <3> QED BY <3>1, <3>2
  <2> QED BY <2>1, <2>2, <2>4, <2>5, <2>6 DEF Types
<1>2. ASSUME NEW r \in Prompts PROVE StreamOK(r) /\ ~ Live(r)
  <2>1. /\ conn[r] = "none" /\ emitted[r] = 0 /\ channel[r] = <<>>
        /\ armed[r] = 0 /\ inbox[r] = {}
    BY DEF ChatInit
  <2> QED BY <2>1 DEF StreamOK, Live, Quiet, MayEnd
<1> QED BY <1>1, <1>2 DEF SInv, BusyOK, CurrentOK, ChatInit

LEMMA NextKeeps == SInv /\ [ChatNext]_chatVars => SInv'
<1> SUFFICES ASSUME SInv, [ChatNext]_chatVars PROVE SInv'
  OBVIOUS
<1>1. CASE User
  BY <1>1, UserSteps, UserKeeps, SubmitKeeps, StopKeeps
<1>2. ASSUME NEW r \in Prompts, Emit(r) PROVE SInv'
  BY <1>2, EmitKeeps
<1>3. ASSUME NEW r \in Prompts, EndStream(r) PROVE SInv'
  BY <1>3, EndStreamKeeps
<1>4. ASSUME NEW r \in Prompts, EndPlain(r) PROVE SInv'
  BY <1>4, EndPlainKeeps
<1>5. ASSUME NEW r \in Prompts, WaitForChunk(r) PROVE SInv'
  BY <1>5, WaitForChunkKeeps
<1>6. ASSUME NEW r \in Prompts, Update(r) PROVE SInv'
  BY <1>6, UpdateKeeps
<1>7. CASE UNCHANGED chatVars
  BY <1>7, UserKeeps DEF chatVars, ui
<1> QED BY <1>1, <1>2, <1>3, <1>4, <1>5, <1>6, <1>7 DEF ChatNext

\* BusyHasRequest of the composer, for any numbers of prompts, pieces and
\* places in the channel.
THEOREM BusyWaits == ChatSpec => []BusyHasRequest
<1>1. SInv => BusyHasRequest
  BY DEF SInv, BusyOK, BusyHasRequest, Awaited, Unanswered
<1> QED BY InitOK, NextKeeps, <1>1, PTL DEF ChatSpec

\* Only Update takes a message away from those on their way.
LEMMA OnlyUpdateTakes ==
  ASSUME SInv, [ChatNext]_chatVars, NEW r \in Prompts, NEW c \in inbox[r] \ inbox'[r]
  PROVE  \/ ApplyContent(r, c) \/ ApplyDone(r, c)
         \/ ApplyError(r, c) \/ ApplyCompletion(r, c)
<1>1. CASE User
  BY <1>1, UserSteps DEF net, Submit, Stop
<1>2. ASSUME NEW q \in Prompts, Emit(q) \/ EndStream(q) PROVE FALSE
  BY <1>2 DEF Emit, EndStream
<1>3. ASSUME NEW q \in Prompts, EndPlain(q) PROVE FALSE
  <2>1. inbox[q] = {}
    BY <1>3 DEF EndPlain, SInv, StreamOK, Quiet
  <2> QED BY <1>3, <2>1 DEF EndPlain, SInv, Types
<1>4. ASSUME NEW q \in Prompts, WaitForChunk(q) PROVE FALSE
  BY <1>4 DEF WaitForChunk, SInv, Types
<1>5. ASSUME NEW q \in Prompts, Update(q)
      PROVE  \/ ApplyContent(r, c) \/ ApplyDone(r, c)
             \/ ApplyError(r, c) \/ ApplyCompletion(r, c)
  <2>1. PICK chunk \in inbox[q] : \/ ApplyContent(q, chunk) \/ ApplyDone(q, chunk)
                                  \/ ApplyError(q, chunk) \/ ApplyCompletion(q, chunk)
    BY <1>5 DEF Update
  <2>2. Take(q, chunk)
    BY <2>1 DEF ApplyContent, ApplyDone, ApplyError, ApplyCompletion
  <2>3. inbox[q] = {chunk} /\ inbox' = [inbox EXCEPT ![q] = {}]
    BY <2>2, Taken
  <2>4. q = r /\ chunk = c
    BY <2>3 DEF SInv, Types
  <2> QED BY <2>1, <2>4
<1>6. CASE UNCHANGED chatVars
  BY <1>6 DEF chatVars, net
<1> QED BY <1>1, <1>2, <1>3, <1>4, <1>5, <1>6 DEF ChatNext

\* FailureKeepsPrompt of submitChatPrompt and the messages that end a request,
\* for any numbers of prompts, pieces and places in the channel.
THEOREM FailuresKeepPrompts == ChatSpec => FailureKeepsPrompt
<1>1. ASSUME SInv, [ChatNext]_chatVars, NEW r \in Prompts,
             NEW c \in inbox[r] \ inbox'[r], c.kind \in {"error", "failure"},
             emitted[r] = 0, stopped = {}
      PROVE  draft' = prompt[r]
  <2>1. ApplyError(r, c) \/ ApplyCompletion(r, c)
    BY <1>1, OnlyUpdateTakes DEF ApplyContent, ApplyDone
  <2>2. r = sent /\ busy /\ pending = prompt[r] /\ index = -1
    BY <1>1 DEF SInv, CurrentOK, Live
  <2>3. CASE ApplyError(r, c)
    <3>1. ~ AnswerShown
      BY <2>2 DEF AnswerShown
    <3> QED BY <2>2, <2>3, <3>1 DEF ApplyError
  <2>4. CASE ApplyCompletion(r, c)
    <3>1. c.kind = "failure"
      BY <1>1, <2>4 DEF ApplyCompletion
    <3>2. draft' = IF index >= 0 THEN draft
                   ELSE IF pending = "" THEN prompt[r] ELSE pending
      BY <2>4, <3>1 DEF ApplyCompletion
    <3>3. ~ (index >= 0)
      BY <2>2
    <3> QED BY <2>2, <3>2, <3>3
  <2> QED BY <2>1, <2>3, <2>4
<1>2. SInv /\ [ChatNext]_chatVars =>
        [\A r \in Prompts :
           /\ \E c \in inbox[r] \ inbox'[r] : c.kind \in {"error", "failure"}
           /\ emitted[r] = 0 /\ stopped = {}
           => draft' = prompt[r]]_chatVars
  BY <1>1
<1> QED BY InitOK, NextKeeps, <1>2, PTL DEF ChatSpec, FailureKeepsPrompt

-----------------------------------------------------------------------------
(* What /stop reaches *)

\* While the composer is busy, chatCancel is that of the last request, also
\* after late messages of stopped requests: each of them ends the waiting.
CancelOK == busy => sent > 0 /\ cancel = sent

LEMMA CancelKeeps == CancelOK /\ SInv /\ [ChatNext]_chatVars => CancelOK'
<1> SUFFICES ASSUME CancelOK, SInv, [ChatNext]_chatVars PROVE CancelOK'
  OBVIOUS
<1>1. ASSUME UNCHANGED <<busy, sent, cancel>> PROVE CancelOK'
  BY <1>1 DEF CancelOK
<1>2. ASSUME busy' = FALSE PROVE CancelOK'
  BY <1>2 DEF CancelOK
<1>3. ASSUME NEW plain \in BOOLEAN, Submit(plain) PROVE CancelOK'
  <2>1. sent' = sent + 1 /\ cancel' = sent + 1
    BY <1>3 DEF Submit
  <2>2. sent \in Nat
    BY ChatAssumption DEF SInv, Types
  <2> QED BY <2>1, <2>2 DEF CancelOK
<1>4. CASE User
  BY <1>1, <1>2, <1>3, <1>4, UserSteps DEF Stop, net
<1>5. ASSUME NEW r \in Prompts, Emit(r) \/ EndStream(r) \/ EndPlain(r) \/ WaitForChunk(r)
      PROVE  CancelOK'
  BY <1>1, <1>5 DEF Emit, EndStream, EndPlain, WaitForChunk, ui
<1>6. ASSUME NEW r \in Prompts, Update(r) PROVE CancelOK'
  <2>1. PICK chunk \in inbox[r] : \/ ApplyContent(r, chunk) \/ ApplyDone(r, chunk)
                                  \/ ApplyError(r, chunk) \/ ApplyCompletion(r, chunk)
    BY <1>6 DEF Update
  <2>2. CASE ApplyContent(r, chunk)
    BY <1>1, <2>2 DEF ApplyContent, Take
  <2>3. CASE ApplyDone(r, chunk) \/ ApplyError(r, chunk) \/ ApplyCompletion(r, chunk)
    BY <1>2, <2>3 DEF ApplyDone, ApplyError, ApplyCompletion
  <2> QED BY <2>1, <2>2, <2>3
<1>7. CASE UNCHANGED chatVars
  BY <1>1, <1>7 DEF chatVars, ui, net
<1> QED BY <1>4, <1>5, <1>6, <1>7 DEF ChatNext

\* What StopCancels leaves true of runChatCommand: /stop cancels the request the
\* composer waits for, and as long as nothing was stopped before, every request
\* that runs.  Only a request sent after a /stop can be missed, and only once a
\* late message of a stopped one has ended the waiting.
THEOREM StopsAwaited ==
  ChatSpec => [][Stop => /\ busy => sent \in stopped'
                         /\ stopped = {} => \A r \in Prompts :
                              conn[r] \in {"stream", "plain"} => r \in stopped']_chatVars
<1>1. ASSUME SInv, CancelOK, Stop
      PROVE  /\ busy => sent \in stopped'
             /\ stopped = {} => \A r \in Prompts :
                  conn[r] \in {"stream", "plain"} => r \in stopped'
  <2>1. ASSUME busy PROVE sent \in stopped'
    <3>1. sent \in Nat /\ sent > 0 /\ cancel = sent
      BY <1>1, <2>1, ChatAssumption DEF CancelOK, SInv, Types
    <3>2. cancel # 0
      BY <3>1
    <3> QED BY <1>1, <3>1, <3>2 DEF Stop
  <2>2. ASSUME stopped = {}, NEW r \in Prompts, conn[r] \in {"stream", "plain"}
        PROVE  busy /\ r = sent
    BY <1>1, <2>2 DEF SInv, CurrentOK, Live
  <2> QED BY <2>1, <2>2
<1>2. ChatInit => CancelOK
  BY DEF ChatInit, CancelOK
<1>3. SInv /\ CancelOK /\ [ChatNext]_chatVars =>
        [Stop => /\ busy => sent \in stopped'
                 /\ stopped = {} => \A r \in Prompts :
                      conn[r] \in {"stream", "plain"} => r \in stopped']_chatVars
  BY <1>1
<1> QED BY InitOK, NextKeeps, CancelKeeps, <1>2, <1>3, PTL DEF ChatSpec

-----------------------------------------------------------------------------
(* Where the pieces of the answers are *)

Place  == [message : Nat, at : Nat, request : Prompts, piece : Nat]
Roles  == {"user", "assistant", "error"}
Saying == [role : Roles, parts : Seq(Prompts \X Nat)]

Places(t) == {x \in Place : /\ x.message \in DOMAIN t /\ x.at \in DOMAIN t[x.message].parts
                            /\ t[x.message].parts[x.at] = <<x.request, x.piece>>}

PlaceOf(i, k, r, p) == [message |-> i, at |-> k, request |-> r, piece |-> p]

Part(r, p) == <<r, p>>
Answer(r, p) == Said("assistant", <<Part(r, p)>>)

Grown(t, n, r, p) == [t EXCEPT ![n].parts = Append(@, Part(r, p))]

AtEnd(t, r, p)     == PlaceOf(Len(t) + 1, 1, r, p)
Within(t, n, r, p) == PlaceOf(n, Len(t[n].parts) + 1, r, p)

Precedes(x, y) == x.message < y.message \/ (x.message = y.message /\ x.at < y.at)

PlacesOrdered(S) == \A x, y \in S : x.request = y.request /\ Precedes(x, y) => x.piece < y.piece

\* Pieces are sent into the channel of a stream in their order.
ChannelOK(s, n) ==
  /\ \A i \in 1 .. Len(s) : /\ s[i].kind \in {"content", "done", "error"}
                            /\ s[i].kind = "content" => s[i].piece <= n
  /\ \A i, j \in 1 .. Len(s) :
       i < j /\ s[i].kind = "content" /\ s[j].kind = "content" => s[i].piece < s[j].piece

\* What is shown of an answer comes before what is on its way to Update, and
\* that before what waits in the channel. A plain answer is shown once.
PiecesOK(S, r) ==
  /\ \A x \in S : x.request = r =>
       /\ conn[r] = "ended" \/ (conn[r] = "stream" /\ emitted[r] # 0)
       /\ emitted[r] = 0 => Quiet(r)
       /\ emitted[r] # 0 => x.piece <= emitted[r]
       /\ \A m \in inbox[r] : m.kind = "content" => x.piece < m.piece
       /\ \A i \in 1 .. Len(channel[r]) :
            channel[r][i].kind = "content" => x.piece < channel[r][i].piece
  /\ \A m \in inbox[r] :
       /\ m.kind = "content" =>
            /\ m.piece <= emitted[r]
            /\ \A i \in 1 .. Len(channel[r]) :
                 channel[r][i].kind = "content" => m.piece < channel[r][i].piece
       /\ m.kind \in {"reply", "failure"} => emitted[r] = 0
  /\ ChannelOK(channel[r], emitted[r])

\* The pieces of streams are in messages up to the one that index denotes.
UpToIndex(S) == \A x \in S : emitted[x.request] # 0 /\ index # -1 => x.message <= index + 1

PieceInv ==
  /\ transcript \in Seq(Saying) /\ index >= -1
  /\ PlacesOrdered(Places(transcript))
  /\ \A r \in Prompts : PiecesOK(Places(transcript), r)
  /\ UpToIndex(Places(transcript))

LEMMA PlacesBound ==
  ASSUME NEW t \in Seq(Saying), NEW x \in Places(t)
  PROVE  /\ x \in Place /\ x.message \in 1 .. Len(t) /\ t[x.message] \in Saying
         /\ x.at \in 1 .. Len(t[x.message].parts)
<1>1. x \in Place /\ x.message \in DOMAIN t /\ x.at \in DOMAIN t[x.message].parts
  BY DEF Places
<1>2. x.message \in 1 .. Len(t) /\ t[x.message] \in Saying
  BY <1>1
<1>3. t[x.message].parts \in Seq(Prompts \X Nat)
  BY <1>2 DEF Saying
<1> QED BY <1>1, <1>2, <1>3

LEMMA IsPlace ==
  ASSUME NEW t, NEW i \in Nat, NEW k \in Nat, NEW r \in Prompts, NEW p \in Nat,
         i \in DOMAIN t, k \in DOMAIN t[i].parts, t[i].parts[k] = <<r, p>>
  PROVE  PlaceOf(i, k, r, p) \in Places(t)
BY DEF Places, Place, PlaceOf

\* A message without pieces.
LEMMA PlacesSame ==
  ASSUME NEW t \in Seq(Saying), NEW role \in Roles, NEW u, u = Append(t, Said(role, <<>>))
  PROVE  u \in Seq(Saying) /\ Places(u) = Places(t)
<1>1. PICK s : s = Said(role, <<>>)
  OBVIOUS
<1>2. s \in Saying /\ s.parts = <<>>
  BY <1>1 DEF Said, Saying
<1>3. /\ u \in Seq(Saying) /\ Len(u) = Len(t) + 1 /\ u[Len(t) + 1] = s /\ Len(t) \in Nat
      /\ DOMAIN u = 1 .. Len(t) + 1 /\ DOMAIN t = 1 .. Len(t)
      /\ \A i \in 1 .. Len(t) : u[i] = t[i]
  BY <1>1, <1>2
<1>4. DOMAIN s.parts = {}
  BY <1>2
<1>5. \A i \in DOMAIN u : (i \in DOMAIN t /\ u[i] = t[i]) \/ u[i] = s
  <2>1. \A i \in 1 .. Len(t) + 1 : i \in 1 .. Len(t) \/ i = Len(t) + 1
    BY <1>3
  <2> QED BY <1>3, <2>1
<1>6. \A i \in DOMAIN t : i \in DOMAIN u /\ u[i] = t[i]
  BY <1>3
<1> QED BY <1>3, <1>4, <1>5, <1>6 DEF Places

\* A message with a piece.
LEMMA PlacesAppend ==
  ASSUME NEW t \in Seq(Saying), NEW r \in Prompts, NEW p \in Nat,
         NEW u, u = Append(t, Answer(r, p))
  PROVE  /\ u \in Seq(Saying)
         /\ Places(u) = Places(t) \cup {AtEnd(t, r, p)}
<1>1. PICK s, part : s = Answer(r, p) /\ part = Part(r, p)
  OBVIOUS
<1>2. s \in Saying /\ s.parts = <<part>>
  <2>1. part \in Prompts \X Nat /\ "assistant" \in Roles
    BY <1>1 DEF Part, Roles
  <2> QED BY <1>1, <2>1 DEF Answer, Said, Saying
<1>3. /\ u \in Seq(Saying) /\ Len(u) = Len(t) + 1 /\ u[Len(t) + 1] = s /\ Len(t) \in Nat
      /\ DOMAIN u = 1 .. Len(t) + 1 /\ DOMAIN t = 1 .. Len(t)
      /\ \A i \in 1 .. Len(t) : u[i] = t[i]
  BY <1>1, <1>2
<1>4. DOMAIN s.parts = {1} /\ s.parts[1] = part
  BY <1>2
<1>5. \A i \in DOMAIN u : (i \in DOMAIN t /\ u[i] = t[i]) \/ i = Len(t) + 1
  <2>1. \A i \in 1 .. Len(t) + 1 : i \in 1 .. Len(t) \/ i = Len(t) + 1
    BY <1>3
  <2> QED BY <1>3, <2>1
<1>6. \A i \in DOMAIN t : i \in DOMAIN u /\ u[i] = t[i]
  BY <1>3
<1>7. PICK new : new = PlaceOf(Len(t) + 1, 1, r, p)
  OBVIOUS
<1>8. new \in Places(u)
  <2>1. Len(t) + 1 \in DOMAIN u /\ Len(t) + 1 \in Nat
    BY <1>3
  <2> QED BY <1>3, <1>4, <1>7, <2>1, <1>1, IsPlace DEF Part
<1>9. ASSUME NEW x \in Places(u) PROVE x \in Places(t) \cup {new}
  <2>1. /\ x \in Place /\ x.message \in DOMAIN u /\ x.at \in DOMAIN u[x.message].parts
        /\ u[x.message].parts[x.at] = <<x.request, x.piece>>
    BY DEF Places
  <2>2. CASE x.message \in DOMAIN t /\ u[x.message] = t[x.message]
    BY <2>1, <2>2 DEF Places
  <2>3. CASE x.message = Len(t) + 1
    <3>1. x.at = 1 /\ <<x.request, x.piece>> = part
      BY <1>3, <1>4, <2>1, <2>3
    <3>2. x.request = r /\ x.piece = p
      BY <1>1, <3>1 DEF Part
    <3>3. x = new
      BY <1>7, <2>1, <2>3, <3>1, <3>2 DEF Place, PlaceOf
    <3> QED BY <3>3
  <2> QED BY <1>5, <2>1, <2>2, <2>3
<1>10. Places(t) \subseteq Places(u)
  BY <1>6 DEF Places
<1> QED BY <1>3, <1>7, <1>8, <1>9, <1>10 DEF AtEnd

\* A piece at the end of a message.
LEMMA PlacesGrow ==
  ASSUME NEW t \in Seq(Saying), NEW n \in 1 .. Len(t), NEW r \in Prompts, NEW p \in Nat,
         NEW u, u = Grown(t, n, r, p)
  PROVE  /\ u \in Seq(Saying)
         /\ Places(u) = Places(t) \cup {Within(t, n, r, p)}
<1>1. PICK s, q, part : s = t[n] /\ q = s.parts /\ part = Part(r, p)
  OBVIOUS
<1>2. part \in Prompts \X Nat /\ s \in Saying /\ q \in Seq(Prompts \X Nat) /\ n \in Nat
  <2>1. s \in Saying /\ n \in Nat /\ part \in Prompts \X Nat
    BY <1>1 DEF Part
  <2> QED BY <1>1, <2>1 DEF Saying
<1>3. PICK g, v : g = Append(q, part) /\ v = [s EXCEPT !.parts = g]
  OBVIOUS
<1>4. g \in Seq(Prompts \X Nat) /\ Len(g) = Len(q) + 1 /\ Len(q) \in Nat
      /\ DOMAIN g = 1 .. Len(q) + 1 /\ DOMAIN q = 1 .. Len(q)
      /\ g[Len(q) + 1] = part /\ \A k \in 1 .. Len(q) : g[k] = q[k]
  BY <1>2, <1>3
<1>5. v \in Saying /\ v.parts = g
  BY <1>2, <1>3, <1>4 DEF Saying
<1>6. u = [t EXCEPT ![n] = v]
  BY <1>1, <1>3 DEF Grown
<1>7. /\ u \in Seq(Saying) /\ DOMAIN u = DOMAIN t /\ u[n] = v /\ n \in DOMAIN t
      /\ \A i \in DOMAIN t : i # n => u[i] = t[i]
  <2>1. u \in Seq(Saying) /\ Len(u) = Len(t) /\ \A i \in 1 .. Len(t) : u[i] = IF i = n THEN v ELSE t[i]
    <3>1. /\ [t EXCEPT ![n] = v] \in Seq(Saying) /\ Len([t EXCEPT ![n] = v]) = Len(t)
          /\ \A i \in 1 .. Len(t) : [t EXCEPT ![n] = v][i] = IF i = n THEN v ELSE t[i]
      BY <1>5, ExceptSeq
    <3> QED BY <1>6, <3>1
  <2>2. DOMAIN u = 1 .. Len(u) /\ DOMAIN t = 1 .. Len(t)
    BY <2>1
  <2> QED BY <2>1, <2>2
<1>8. PICK new : new = PlaceOf(n, Len(q) + 1, r, p)
  OBVIOUS
<1>a. u[n].parts = g
  BY <1>5, <1>7
<1>b. Len(q) + 1 \in Nat /\ Len(q) + 1 \in DOMAIN g
  BY <1>4
<1>9. new \in Places(u)
  <2>1. Len(q) + 1 \in DOMAIN u[n].parts /\ u[n].parts[Len(q) + 1] = part
    BY <1>4, <1>a, <1>b
  <2> QED BY <1>1, <1>2, <1>7, <1>8, <1>b, <2>1, IsPlace DEF Part
<1>10. ASSUME NEW x \in Places(u) PROVE x \in Places(t) \cup {new}
  <2>1. /\ x \in Place /\ x.message \in DOMAIN u /\ x.at \in DOMAIN u[x.message].parts
        /\ u[x.message].parts[x.at] = <<x.request, x.piece>>
    BY DEF Places
  <2>2. CASE x.message # n
    BY <1>7, <2>1, <2>2 DEF Places
  <2>3. CASE x.message = n /\ x.at \in 1 .. Len(q)
    <3>1. x.at \in DOMAIN t[n].parts /\ t[n].parts[x.at] = <<x.request, x.piece>>
      BY <1>1, <1>4, <1>a, <2>1, <2>3
    <3> QED BY <1>7, <2>1, <2>3, <3>1 DEF Places
  <2>4. CASE x.message = n /\ x.at \notin 1 .. Len(q)
    <3>0. x.at \in 1 .. Len(q) + 1 /\ g[x.at] = <<x.request, x.piece>>
      BY <1>4, <1>a, <2>1, <2>4
    <3>1. x.at = Len(q) + 1 /\ <<x.request, x.piece>> = part
      BY <1>4, <2>4, <3>0
    <3>2. x.request = r /\ x.piece = p
      BY <1>1, <3>1 DEF Part
    <3>3. x = new
      BY <1>8, <2>1, <2>4, <3>1, <3>2 DEF Place, PlaceOf
    <3> QED BY <3>3
  <2> QED BY <2>2, <2>3, <2>4
<1>11. ASSUME NEW x \in Places(t) PROVE x \in Places(u)
  <2>1. /\ x \in Place /\ x.message \in DOMAIN t /\ x.at \in DOMAIN t[x.message].parts
        /\ t[x.message].parts[x.at] = <<x.request, x.piece>>
    BY DEF Places
  <2>2. CASE x.message # n
    BY <1>7, <2>1, <2>2 DEF Places
  <2>3. CASE x.message = n
    <3>1. x.at \in DOMAIN u[n].parts /\ u[n].parts[x.at] = <<x.request, x.piece>>
      <4>1. x.at \in DOMAIN q /\ q[x.at] = <<x.request, x.piece>>
        BY <1>1, <2>1, <2>3
      <4>2. x.at \in DOMAIN g /\ g[x.at] = q[x.at]
        BY <1>4, <4>1
      <4> QED BY <1>a, <4>1, <4>2
    <3> QED BY <1>7, <2>1, <2>3, <3>1 DEF Places
  <2> QED BY <2>2, <2>3
<1> QED BY <1>1, <1>7, <1>8, <1>9, <1>10, <1>11 DEF Within

LEMMA OrderedAdd ==
  ASSUME NEW S, S \subseteq Place, PlacesOrdered(S), NEW new \in Place,
         \A x \in S : x.request = new.request =>
           /\ x.piece < new.piece /\ x.message <= new.message
           /\ x.message = new.message => x.at < new.at
  PROVE  PlacesOrdered(S \cup {new})
<1>1. \A x \in S \cup {new} :
        x.message \in Nat /\ x.at \in Nat /\ x.piece \in Nat
  BY DEF Place
<1>2. \A x \in S : x.request = new.request => ~ Precedes(new, x)
  BY <1>1 DEF Precedes
<1>3. ~ Precedes(new, new)
  BY <1>1 DEF Precedes
<1> QED BY <1>2, <1>3 DEF PlacesOrdered

LEMMA OrderedShown == ASSUME PieceInv PROVE PiecesInOrder
<1>1. PICK t : t = transcript
  OBVIOUS
<1>2. t \in Seq(Saying) /\ PlacesOrdered(Places(t))
  BY <1>1 DEF PieceInv
<1>3. SUFFICES ASSUME NEW i \in DOMAIN t, NEW j \in DOMAIN t,
                      NEW k \in DOMAIN t[i].parts, NEW l \in DOMAIN t[j].parts,
                      NEW x, NEW y, x = t[i].parts[k], y = t[j].parts[l],
                      x[1] = y[1], i < j \/ (i = j /\ k < l)
               PROVE  x[2] < y[2]
  BY <1>1 DEF PiecesInOrder
<1>4. i \in Nat /\ j \in Nat /\ t[i] \in Saying /\ t[j] \in Saying
  BY <1>2
<1>5. t[i].parts \in Seq(Prompts \X Nat) /\ t[j].parts \in Seq(Prompts \X Nat)
  BY <1>4 DEF Saying
<1>6. k \in Nat /\ l \in Nat /\ x \in Prompts \X Nat /\ y \in Prompts \X Nat
  BY <1>3, <1>5
<1>7. /\ x[1] \in Prompts /\ x[2] \in Nat /\ x = <<x[1], x[2]>>
      /\ y[1] \in Prompts /\ y[2] \in Nat /\ y = <<y[1], y[2]>>
  BY <1>6
<1>8. PICK a, b : a = PlaceOf(i, k, x[1], x[2]) /\ b = PlaceOf(j, l, y[1], y[2])
  OBVIOUS
<1>9. a \in Places(t) /\ b \in Places(t)
  BY <1>3, <1>4, <1>6, <1>7, <1>8, IsPlace
<1>10. a.request = b.request /\ Precedes(a, b) /\ a.piece = x[2] /\ b.piece = y[2]
  BY <1>3, <1>8 DEF PlaceOf, Precedes
<1> QED BY <1>2, <1>9, <1>10 DEF PlacesOrdered

-----------------------------------------------------------------------------
(* Steps on the pieces *)

LEMMA SamePieces ==
  ASSUME NEW q \in Prompts, NEW S, PiecesOK(S, q), Same(q)
  PROVE  PiecesOK(S, q)'
BY DEF PiecesOK, Same, Quiet

\* A set of places that has the same or fewer places of a request.
LEMMA FewerPieces ==
  ASSUME NEW q, NEW S, NEW R, PiecesOK(S, q), \A x \in R : x.request = q => x \in S
  PROVE  PiecesOK(R, q)
BY DEF PiecesOK

\* A step of the request r that shows nothing new.
LEMMA HiddenStep ==
  ASSUME PieceInv, NEW r \in Prompts, \A q \in Prompts \ {r} : Same(q),
         NEW S, S = Places(transcript), S = Places(transcript'),
         transcript' \in Seq(Saying), index' \in {index, -1},
         PiecesOK(S, r)',
         (emitted'[r] # 0 => emitted[r] # 0) \/ \A x \in S : x.request # r
  PROVE  PieceInv'
<1>1. \A q \in Prompts \ {r} : PiecesOK(S, q)'
  BY SamePieces DEF PieceInv
<1>2. \A q \in Prompts : PiecesOK(S, q)'
  BY <1>1
<1>3. UpToIndex(S)'
  <2> SUFFICES ASSUME NEW x \in S, emitted'[x.request] # 0, index' # -1
               PROVE  x.message <= index' + 1
    BY DEF UpToIndex
  <2>0. x \in Place
    BY DEF Places
  <2>1. index' = index /\ x.request \in Prompts
    BY <2>0 DEF Place
  <2>2. emitted[x.request] # 0
    BY <2>1 DEF Same
  <2> QED BY <2>1, <2>2 DEF PieceInv, UpToIndex
<1>4. Places(transcript)' = S
  OBVIOUS
<1>5. index' >= -1
  BY DEF PieceInv
<1>6. PlacesOrdered(S)
  BY DEF PieceInv
<1>7. PlacesOrdered(Places(transcript))'
  BY <1>6
<1>8. (\A q \in Prompts : PiecesOK(Places(transcript), q))'
  BY <1>2, <1>4
<1>9. UpToIndex(Places(transcript))'
  BY <1>3, <1>4
<1> QED BY <1>5, <1>7, <1>8, <1>9 DEF PieceInv

\* A step that leaves the requests alone, and the transcript or all but what it shows.
LEMMA QuietStep ==
  ASSUME PieceInv, UNCHANGED <<conn, emitted, armed, channel, inbox, index>>,
         transcript' \in Seq(Saying),
         Places(transcript') \subseteq Places(transcript)
  PROVE  PieceInv'
<1>1. PICK S, R : S = Places(transcript) /\ R = Places(transcript')
  OBVIOUS
<1>2. R \subseteq S
  BY <1>1
<1>3. \A q \in Prompts : PiecesOK(R, q)
  BY <1>1, <1>2, FewerPieces DEF PieceInv
<1>4. \A q \in Prompts : PiecesOK(R, q)'
  <2>1. \A q : Same(q)
    BY DEF Same
  <2> QED BY <1>3, <2>1, SamePieces
<1>5. PlacesOrdered(R) /\ UpToIndex(R)
  BY <1>1, <1>2 DEF PieceInv, PlacesOrdered, UpToIndex
<1>6. UpToIndex(R)' /\ index' >= -1
  BY <1>5 DEF PieceInv, UpToIndex
<1>7. Places(transcript)' = R
  BY <1>1
<1>8. PlacesOrdered(Places(transcript))' /\ UpToIndex(Places(transcript))'
  BY <1>5, <1>6, <1>7
<1>9. (\A q \in Prompts : PiecesOK(Places(transcript), q))'
  BY <1>4, <1>7
<1> QED BY <1>6, <1>8, <1>9 DEF PieceInv

LEMMA ChannelAppend ==
  ASSUME NEW s \in Seq(Message), NEW n \in Nat, ChannelOK(s, n), NEW m \in Message,
         NEW u, u = Append(s, m)
  PROVE  /\ m.kind = "content" /\ m.piece = n + 1 => ChannelOK(u, n + 1)
         /\ m.kind \in {"done", "error"} => ChannelOK(u, n)
<1>1. /\ u \in Seq(Message) /\ Len(u) = Len(s) + 1 /\ Len(s) \in Nat /\ u[Len(s) + 1] = m
      /\ \A i \in 1 .. Len(s) : u[i] = s[i]
  OBVIOUS
<1>2. \A i \in 1 .. Len(u) : i \in 1 .. Len(s) \/ (i = Len(s) + 1 /\ u[i] = m)
  BY <1>1
<1>3. \A i \in 1 .. Len(s) : s[i].kind = "content" => s[i].piece \in Nat /\ s[i].piece <= n
  <2>1. \A i \in 1 .. Len(s) : s[i] \in Message
    OBVIOUS
  <2> QED BY <2>1 DEF ChannelOK, Message
<1>4. ASSUME m.kind = "content", m.piece = n + 1 PROVE ChannelOK(u, n + 1)
  <2>1. \A i \in 1 .. Len(s) : s[i].kind = "content" => s[i].piece < n + 1 /\ s[i].piece <= n + 1
    BY <1>3
  <2>2. \A i \in 1 .. Len(u) : /\ u[i].kind \in {"content", "done", "error"}
                               /\ u[i].kind = "content" => u[i].piece <= n + 1
    BY <1>1, <1>2, <1>4, <2>1 DEF ChannelOK
  <2>3. ASSUME NEW i \in 1 .. Len(u), NEW j \in 1 .. Len(u), i < j,
               u[i].kind = "content", u[j].kind = "content"
        PROVE  u[i].piece < u[j].piece
    <3>1. i \in 1 .. Len(s)
      BY <1>1, <2>3
    <3>2. CASE j \in 1 .. Len(s)
      BY <1>1, <2>3, <3>1, <3>2 DEF ChannelOK
    <3>3. CASE j = Len(s) + 1 /\ u[j] = m
      BY <1>1, <1>4, <2>1, <2>3, <3>1, <3>3
    <3> QED BY <1>2, <3>2, <3>3
  <2> QED BY <2>2, <2>3 DEF ChannelOK
<1>5. ASSUME m.kind \in {"done", "error"} PROVE ChannelOK(u, n)
  <2>1. \A i \in 1 .. Len(u) : /\ u[i].kind \in {"content", "done", "error"}
                               /\ u[i].kind = "content" => i \in 1 .. Len(s) /\ u[i].piece <= n
    BY <1>1, <1>2, <1>5 DEF ChannelOK
  <2> QED BY <1>1, <2>1 DEF ChannelOK
<1> QED BY <1>4, <1>5

LEMMA ChannelTail ==
  ASSUME NEW s \in Seq(Message), NEW n \in Nat, ChannelOK(s, n), s # <<>>,
         NEW m, m = Head(s), NEW u, u = Tail(s)
  PROVE  /\ m \in Message /\ m.kind \in {"content", "done", "error"}
         /\ m.kind = "content" => m.piece <= n
         /\ ChannelOK(u, n)
         /\ \A i \in 1 .. Len(u) : /\ i + 1 \in 1 .. Len(s) /\ u[i] = s[i + 1]
                                   /\ m.kind = "content" /\ u[i].kind = "content"
                                        => m.piece < u[i].piece
<1>1. m = s[1] /\ Len(s) \in Nat \ {0} /\ Len(u) = Len(s) - 1
  OBVIOUS
<1>2. \A i \in 1 .. Len(u) : u[i] = s[i + 1] /\ i + 1 \in 1 .. Len(s) /\ 1 < i + 1
  BY <1>1
<1>3. 1 \in 1 .. Len(s) /\ m \in Message
  BY <1>1
<1>4. \A i, j \in 1 .. Len(u) : i < j => i + 1 < j + 1
  BY <1>1
<1>5. ChannelOK(u, n)
  BY <1>2, <1>4 DEF ChannelOK
<1> QED BY <1>1, <1>2, <1>3, <1>5 DEF ChannelOK

LEMMA EmitPieces ==
  ASSUME SInv, PieceInv, NEW r \in Prompts, Emit(r)
  PROVE  PieceInv'
<1>1. PICK m, n, s, u : /\ m = [kind |-> "content", piece |-> emitted[r] + 1]
                        /\ n = emitted[r] /\ s = channel[r] /\ u = Append(s, m)
  OBVIOUS
<1>2. /\ conn[r] = "stream" /\ channel' = [channel EXCEPT ![r] = u]
      /\ emitted' = [emitted EXCEPT ![r] = n + 1]
      /\ UNCHANGED <<ui, conn, armed, inbox>>
  BY <1>1 DEF Emit, Send
<1>3. n \in Nat /\ s \in Seq(Message)
  BY <1>1 DEF SInv, Types
<1>4. m \in Message /\ m.kind = "content" /\ m.piece = n + 1
  BY <1>1, <1>3 DEF Message, Kinds
<1>5. PICK S : S = Places(transcript)
  OBVIOUS
<1>6. PiecesOK(S, r)
  BY <1>5 DEF PieceInv
<1>7. ChannelOK(u, n + 1)
  BY <1>1, <1>3, <1>4, <1>6, ChannelAppend DEF PiecesOK
<1>8. /\ conn'[r] = "stream" /\ emitted'[r] = n + 1 /\ channel'[r] = u
      /\ inbox'[r] = inbox[r] /\ \A q \in Prompts \ {r} : Same(q)
  BY <1>2 DEF SInv, Types, Same
<1>9. \A i \in 1 .. Len(u) : (i \in 1 .. Len(s) /\ u[i] = s[i]) \/ u[i] = m
  BY <1>1, <1>3, <1>4
<1>10. \A x \in S : x.request = r => n # 0 /\ x.piece \in Nat /\ x.piece <= n
  BY <1>1, <1>2, <1>5, <1>6 DEF PiecesOK, Places, Place
<1>11. \A c \in inbox[r] : /\ c.kind = "content" => c.piece \in Nat /\ c.piece <= n
                           /\ c.kind \notin {"reply", "failure"}
  <2>1. \A c \in inbox[r] : c.kind = "content"
    BY <1>2 DEF SInv, StreamOK
  <2> QED BY <1>1, <1>6, <2>1 DEF PiecesOK, SInv, Types, Message
<1>12. PiecesOK(S, r)'
  <2>1. \A x \in S : x.request = r =>
          /\ n + 1 # 0 /\ x.piece <= n + 1
          /\ \A c \in inbox[r] : c.kind = "content" => x.piece < c.piece
          /\ \A i \in 1 .. Len(u) : u[i].kind = "content" => x.piece < u[i].piece
    <3>1. \A x \in S : x.request = r => x.piece < m.piece /\ x.piece <= n + 1 /\ n + 1 # 0
      BY <1>3, <1>4, <1>10
    <3> QED BY <1>1, <1>6, <1>9, <3>1 DEF PiecesOK
  <2>2. \A c \in inbox[r] :
          c.kind = "content" =>
            /\ c.piece <= n + 1
            /\ \A i \in 1 .. Len(u) : u[i].kind = "content" => c.piece < u[i].piece
    <3>1. \A c \in inbox[r] : c.kind = "content" => c.piece < m.piece /\ c.piece <= n + 1
      BY <1>3, <1>4, <1>11
    <3> QED BY <1>1, <1>6, <1>9, <3>1 DEF PiecesOK
  <2> QED BY <1>7, <1>8, <1>11, <2>1, <2>2 DEF PiecesOK
<1>13. UNCHANGED <<transcript, index>> /\ transcript \in Seq(Saying)
  BY <1>2 DEF ui, PieceInv
<1>14. \A x \in S : x.request = r => emitted[r] # 0
  BY <1>1, <1>10
<1> QED BY <1>5, <1>8, <1>12, <1>13, <1>14, HiddenStep

LEMMA EndStreamPieces ==
  ASSUME SInv, PieceInv, NEW r \in Prompts, EndStream(r)
  PROVE  PieceInv'
<1>1. PICK kind \in {"done", "error"} : Send(r, Final(kind))
  BY DEF EndStream
<1>2. PICK m, n, s, u : m = Final(kind) /\ n = emitted[r] /\ s = channel[r] /\ u = Append(s, m)
  OBVIOUS
<1>3. /\ conn[r] = "stream" /\ channel' = [channel EXCEPT ![r] = u]
      /\ conn' = [conn EXCEPT ![r] = "ended"]
      /\ UNCHANGED <<ui, emitted, armed, inbox>>
  BY <1>1, <1>2 DEF EndStream, Send
<1>4. n \in Nat /\ s \in Seq(Message)
  BY <1>2 DEF SInv, Types
<1>5. m \in Message /\ m.kind \in {"done", "error"}
  BY <1>2 DEF Final, Message, Kinds
<1>6. PICK S : S = Places(transcript)
  OBVIOUS
<1>7. PiecesOK(S, r)
  BY <1>6 DEF PieceInv
<1>8. ChannelOK(u, n)
  BY <1>2, <1>4, <1>5, <1>7, ChannelAppend DEF PiecesOK
<1>9. /\ conn'[r] = "ended" /\ emitted'[r] = n /\ channel'[r] = u
      /\ inbox'[r] = inbox[r] /\ \A q \in Prompts \ {r} : Same(q)
  BY <1>2, <1>3 DEF SInv, Types, Same
<1>10. \A i \in 1 .. Len(u) : u[i].kind = "content" => i \in 1 .. Len(s) /\ u[i] = s[i]
  BY <1>2, <1>4, <1>5
<1>11. \A x \in S : x.request = r => n # 0
  BY <1>2, <1>3, <1>7 DEF PiecesOK
<1>12. PiecesOK(S, r)'
  BY <1>2, <1>7, <1>8, <1>9, <1>10, <1>11 DEF PiecesOK
<1>13. UNCHANGED <<transcript, index>> /\ transcript \in Seq(Saying)
  BY <1>3 DEF ui, PieceInv
<1> QED BY <1>2, <1>6, <1>9, <1>12, <1>13, HiddenStep

LEMMA EndPlainPieces ==
  ASSUME SInv, PieceInv, NEW r \in Prompts, EndPlain(r)
  PROVE  PieceInv'
<1>1. PICK kind \in {"reply", "failure"} : inbox' = [inbox EXCEPT ![r] = {Final(kind)}]
  BY DEF EndPlain
<1>2. PICK m : m = Final(kind)
  OBVIOUS
<1>3. m.kind \in {"reply", "failure"}
  BY <1>2 DEF Final
<1>4. /\ conn[r] = "plain" /\ conn' = [conn EXCEPT ![r] = "ended"]
      /\ UNCHANGED <<ui, emitted, channel, armed>>
  BY DEF EndPlain
<1>5. emitted[r] = 0 /\ channel[r] = <<>>
  BY <1>4 DEF SInv, StreamOK, Quiet
<1>6. PICK S : S = Places(transcript)
  OBVIOUS
<1>7. PiecesOK(S, r)
  BY <1>6 DEF PieceInv
<1>8. \A x \in S : x.request # r
  BY <1>4, <1>7 DEF PiecesOK
<1>9. /\ conn'[r] = "ended" /\ emitted'[r] = 0 /\ channel'[r] = <<>>
      /\ inbox'[r] = {m} /\ \A q \in Prompts \ {r} : Same(q)
  BY <1>1, <1>2, <1>4, <1>5 DEF SInv, Types, Same
<1>10. PiecesOK(S, r)'
  <2>1. ChannelOK(<<>>, 0)
    BY <1>5, <1>7 DEF PiecesOK
  <2> QED BY <1>3, <1>8, <1>9, <2>1 DEF PiecesOK
<1>11. UNCHANGED <<transcript, index>> /\ transcript \in Seq(Saying)
  BY <1>4 DEF ui, PieceInv
<1> QED BY <1>6, <1>8, <1>9, <1>10, <1>11, HiddenStep

LEMMA WaitPieces ==
  ASSUME SInv, PieceInv, NEW r \in Prompts, WaitForChunk(r)
  PROVE  PieceInv'
<1>1. /\ armed[r] # 0 /\ armed' = [armed EXCEPT ![r] = armed[r] - 1]
      /\ UNCHANGED <<ui, conn, emitted>>
  BY DEF WaitForChunk, SInv, Types
<1>2. armed[r] = 1 /\ inbox[r] = {}
  BY <1>1 DEF SInv, Types, StreamOK
<1>3. PICK S, n, s : S = Places(transcript) /\ n = emitted[r] /\ s = channel[r]
  OBVIOUS
<1>4. PiecesOK(S, r) /\ n \in Nat /\ s \in Seq(Message)
  BY <1>3 DEF PieceInv, SInv, Types
<1>5. \A x \in S : x.request = r => n # 0
  BY <1>1, <1>3, <1>4 DEF PiecesOK, Quiet
<1>6. UNCHANGED <<transcript, index>> /\ transcript \in Seq(Saying)
  BY <1>1 DEF ui, PieceInv
<1>7. conn'[r] = conn[r] /\ emitted'[r] = n
  BY <1>1, <1>3
<1>8. CASE /\ channel[r] # <<>>
           /\ inbox' = [inbox EXCEPT ![r] = @ \cup {Head(channel[r])}]
           /\ channel' = [channel EXCEPT ![r] = Tail(@)]
  <2>1. PICK m, u : m = Head(s) /\ u = Tail(s)
    OBVIOUS
  <2>2. /\ inbox'[r] = {m} /\ channel'[r] = u
        /\ \A q \in Prompts \ {r} : Same(q)
    BY <1>1, <1>2, <1>3, <1>8, <2>1 DEF SInv, Types, Same
  <2>3. /\ m \in Message /\ m.kind \in {"content", "done", "error"}
        /\ m.kind = "content" => m.piece <= n
        /\ ChannelOK(u, n)
        /\ \A i \in 1 .. Len(u) : /\ i + 1 \in 1 .. Len(s) /\ u[i] = s[i + 1]
                                  /\ m.kind = "content" /\ u[i].kind = "content"
                                       => m.piece < u[i].piece
    <3>1. ChannelOK(s, n) /\ s # <<>>
      BY <1>3, <1>4, <1>8 DEF PiecesOK
    <3>2. n \in Nat /\ s \in Seq(Message)
      BY <1>4
    <3> QED BY <2>1, <3>1, <3>2, ChannelTail
  <2>4. 1 \in 1 .. Len(s) /\ m = s[1]
    BY <1>3, <1>4, <1>8, <2>1
  <2>5. \A x \in S : x.request = r =>
          /\ m.kind = "content" => x.piece < m.piece
          /\ \A i \in 1 .. Len(u) : u[i].kind = "content" => x.piece < u[i].piece
    BY <1>3, <1>4, <2>3, <2>4 DEF PiecesOK
  <2>6. PiecesOK(S, r)'
    BY <1>3, <1>4, <1>5, <1>7, <2>2, <2>3, <2>5 DEF PiecesOK
  <2> QED BY <1>3, <1>6, <1>7, <2>2, <2>6, HiddenStep
<1>9. CASE /\ channel[r] = <<>> /\ conn[r] = "ended"
           /\ inbox' = [inbox EXCEPT ![r] = @ \cup {Final("done")}]
           /\ UNCHANGED channel
  <2>1. PICK m : m = Final("done")
    OBVIOUS
  <2>2. m.kind = "done"
    BY <2>1 DEF Final
  <2>3. /\ inbox'[r] = {m} /\ channel'[r] = s
        /\ \A q \in Prompts \ {r} : Same(q)
    BY <1>1, <1>2, <1>3, <1>9, <2>1 DEF SInv, Types, Same
  <2>4. PiecesOK(S, r)'
    BY <1>3, <1>4, <1>5, <1>7, <2>2, <2>3 DEF PiecesOK
  <2> QED BY <1>3, <1>6, <1>7, <2>3, <2>4, HiddenStep
<1> QED BY <1>8, <1>9 DEF WaitForChunk

LEMMA ContentPieces ==
  ASSUME SInv, PieceInv, NEW r \in Prompts, NEW chunk \in inbox[r], ApplyContent(r, chunk)
  PROVE  PieceInv'
<1>1. PICK S, n, s, t, p : /\ S = Places(transcript) /\ n = emitted[r] /\ s = channel[r]
                           /\ t = transcript /\ p = chunk.piece
  OBVIOUS
<1>2. /\ chunk.kind = "content" /\ Take(r, chunk)
      /\ armed' = [armed EXCEPT ![r] = armed[r] + 1]
  BY DEF ApplyContent, Rearmed
<1>3. /\ inbox[r] = {chunk} /\ armed[r] = 0
      /\ inbox' = [inbox EXCEPT ![r] = {}] /\ inbox'[r] = {}
      /\ UNCHANGED <<sent, prompt, conn, stopped, emitted, channel>>
  BY <1>2, Taken
<1>4. \A q \in Prompts \ {r} : Same(q)
  BY <1>2, <1>3 DEF SInv, Types, Same
<1>5. PiecesOK(S, r) /\ PlacesOrdered(S) /\ UpToIndex(S) /\ t \in Seq(Saying) /\ S = Places(t)
  BY <1>1 DEF PieceInv
<1>6. chunk \in Message /\ p \in Nat /\ n \in Nat /\ index \in Int /\ index >= -1
  <2>1. chunk \in Message
    BY DEF SInv, Types
  <2> QED BY <1>1, <2>1 DEF SInv, Types, Message, PieceInv
<1>7. conn[r] \in {"stream", "ended"} /\ n # 0
  BY <1>1, <1>2, <1>3 DEF SInv, StreamOK, Types, States, Quiet
<1>8. \A x \in S : /\ x \in Place /\ x.message \in 1 .. Len(t)
                   /\ x.at \in 1 .. Len(t[x.message].parts)
  BY <1>5, PlacesBound
\* Where the new piece is.
<1>a. PICK m : m = IF AnswerShown THEN index + 1 ELSE Len(t) + 1
  OBVIOUS
<1>b. PICK k : k = IF AnswerShown THEN Len(t[m].parts) + 1 ELSE 1
  OBVIOUS
<1>c. PICK new : new = PlaceOf(m, k, r, p)
  OBVIOUS
<1>9. /\ m \in Nat /\ m # 0 /\ k \in Nat /\ index' = m - 1
      /\ transcript' \in Seq(Saying) /\ Places(transcript') = S \cup {new}
      /\ \A x \in S : /\ index = -1 \/ x.message <= index + 1 => x.message <= m
                      /\ x.message = m => x.at < k
  <2>1. CASE AnswerShown
    <3>1. m = index + 1 /\ k = Len(t[m].parts) + 1
      BY <1>a, <1>b, <2>1
    <3>2. m \in 1 .. Len(t) /\ index >= 0
      BY <1>1, <1>5, <1>6, <2>1, <3>1 DEF AnswerShown
    <3>3. /\ index' = index
          /\ transcript' = [t EXCEPT ![m].parts = Append(@, <<r, p>>)]
      BY <1>1, <2>1, <3>1 DEF ApplyContent
    <3>4. PICK u : u = transcript'
      OBVIOUS
    <3>5. u \in Seq(Saying) /\ Places(u) = S \cup {new}
      <4>1. u = Grown(t, m, r, p)
        BY <3>3, <3>4 DEF Part, Grown
      <4>2. t \in Seq(Saying) /\ p \in Nat
        BY <1>5, <1>6
      <4>3. u \in Seq(Saying) /\ Places(u) = Places(t) \cup {Within(t, m, r, p)}
        BY <3>2, <4>1, <4>2, PlacesGrow
      <4> QED BY <1>5, <1>c, <3>1, <4>3 DEF Within
    <3>6. t[m].parts \in Seq(Prompts \X Nat)
      <4>1. t[m] \in Saying
        BY <1>5, <3>2
      <4> QED BY <4>1 DEF Saying
    <3>7. k \in Nat /\ \A j \in 1 .. Len(t[m].parts) : j < k
      BY <3>1, <3>6
    <3>8. \A x \in S : x.message = m => x.at < k
      BY <1>8, <3>7
    <3>9. m \in Nat /\ m # 0 /\ index' = m - 1 /\ index # -1
      BY <1>5, <1>6, <3>1, <3>2, <3>3
    <3> QED BY <3>1, <3>4, <3>5, <3>7, <3>8, <3>9
  <2>2. CASE ~ AnswerShown
    <3>1. m = Len(t) + 1 /\ k = 1
      BY <1>a, <1>b, <2>2
    <3>2. index' = Len(t) /\ transcript' = Append(t, Said("assistant", <<<<r, p>>>>))
      BY <1>1, <2>2 DEF ApplyContent
    <3>3. transcript' \in Seq(Saying) /\ Places(transcript') = S \cup {new}
      <4>1. PICK u : u = transcript'
        OBVIOUS
      <4>2. u = Append(t, Answer(r, p))
        BY <3>2, <4>1 DEF Part, Answer
      <4>3. u \in Seq(Saying) /\ Places(u) = Places(t) \cup {AtEnd(t, r, p)}
        <5>1. t \in Seq(Saying) /\ p \in Nat
          BY <1>5, <1>6
        <5> QED BY <4>2, <5>1, PlacesAppend
      <4> QED BY <1>5, <1>c, <3>1, <4>1, <4>3 DEF AtEnd
    <3>4. m \in Nat /\ m # 0 /\ index' = m - 1 /\ \A i \in 1 .. Len(t) : i <= m /\ i # m
      BY <1>5, <3>1, <3>2
    <3>5. \A x \in S : x.message <= m /\ x.message # m
      BY <1>8, <3>4
    <3> QED BY <3>1, <3>3, <3>4, <3>5
  <2> QED BY <2>1, <2>2
<1>10. new \in Place /\ new.message = m /\ new.at = k /\ new.request = r /\ new.piece = p
  BY <1>6, <1>9, <1>c DEF Place, PlaceOf
<1>11. \A x \in S : x.request = r => /\ x.piece < p /\ x.message <= m
                                     /\ x.message = m => x.at < k
  <2>1. \A x \in S : x.request = r => x.piece < p
    BY <1>1, <1>2, <1>5 DEF PiecesOK
  <2>2. \A x \in S : x.request = r => index = -1 \/ x.message <= index + 1
    BY <1>1, <1>5, <1>7 DEF UpToIndex
  <2> QED BY <1>9, <2>1, <2>2
<1>12. PICK R : R = S \cup {new}
  OBVIOUS
<1>13. PlacesOrdered(R)
  <2>1. S \subseteq Place
    BY <1>8
  <2>2. \A x \in S : x.request = new.request =>
          /\ x.piece < new.piece /\ x.message <= new.message
          /\ x.message = new.message => x.at < new.at
    BY <1>10, <1>11
  <2>3. PlacesOrdered(S \cup {new})
    BY <1>5, <1>10, <2>1, <2>2, OrderedAdd
  <2> QED BY <1>12, <2>3
<1>14. PiecesOK(R, r)'
  <2>1. p <= n /\ \A i \in 1 .. Len(s) : s[i].kind = "content" => p < s[i].piece
    BY <1>1, <1>2, <1>5 DEF PiecesOK
  <2>2. \A x \in R : x.request = r =>
          /\ x.piece <= n
          /\ \A i \in 1 .. Len(s) : s[i].kind = "content" => x.piece < s[i].piece
    BY <1>1, <1>5, <1>7, <1>10, <1>12, <2>1 DEF PiecesOK
  <2>3. conn'[r] = "ended" \/ conn'[r] = "stream"
    BY <1>3, <1>7
  <2>4. emitted'[r] = n /\ n # 0 /\ channel'[r] = s /\ inbox'[r] = {}
    BY <1>1, <1>3, <1>7
  <2>5. ChannelOK(s, n)
    BY <1>1, <1>5 DEF PiecesOK
  <2> QED BY <2>2, <2>3, <2>4, <2>5 DEF PiecesOK
<1>15. \A q \in Prompts \ {r} : PiecesOK(R, q)'
  <2> SUFFICES ASSUME NEW q \in Prompts \ {r} PROVE PiecesOK(R, q)'
    OBVIOUS
  <2>1. PiecesOK(S, q)
    BY <1>1 DEF PieceInv
  <2>2. PiecesOK(R, q)
    BY <1>10, <1>12, <2>1, FewerPieces
  <2> QED BY <1>4, <2>2, SamePieces
<1>16. UpToIndex(R)' /\ index' >= -1
  <2>1. index' + 1 = m /\ index' >= -1
    BY <1>9
  <2>2. \A x \in S : emitted[x.request] # 0 => x.message <= m
    BY <1>5, <1>9 DEF UpToIndex
  <2>3. \A x \in R : emitted[x.request] # 0 => x.message <= m
    BY <1>9, <1>10, <1>12, <2>2
  <2>4. emitted' = emitted
    BY <1>3
  <2> QED BY <2>1, <2>3, <2>4 DEF UpToIndex
<1>17. Places(transcript)' = R /\ transcript' \in Seq(Saying)
  BY <1>9, <1>12
<1>18. PlacesOrdered(Places(transcript))' /\ UpToIndex(Places(transcript))'
  BY <1>13, <1>16, <1>17
<1>19. (\A q \in Prompts : PiecesOK(Places(transcript), q))'
  BY <1>14, <1>15, <1>17
<1> QED BY <1>16, <1>17, <1>18, <1>19 DEF PieceInv

\* The last message of a request is taken, and shows no piece.
LEMMA EndPieces ==
  ASSUME SInv, PieceInv, NEW r \in Prompts, NEW chunk, Take(r, chunk), armed' = armed,
         index' \in {index, -1},
         transcript' \in Seq(Saying), Places(transcript') = Places(transcript)
  PROVE  PieceInv'
<1>1. PICK S : S = Places(transcript)
  OBVIOUS
<1>2. /\ inbox'[r] = {} /\ armed[r] = 0 /\ inbox' = [inbox EXCEPT ![r] = {}]
      /\ UNCHANGED <<sent, prompt, conn, stopped, emitted, channel>>
  BY Taken
<1>3. \A q \in Prompts \ {r} : Same(q)
  BY <1>2 DEF SInv, Types, Same
<1>4. PiecesOK(S, r)
  BY <1>1 DEF PieceInv
<1>5. PiecesOK(S, r)'
  BY <1>2, <1>4 DEF PiecesOK, Quiet
<1>6. emitted'[r] # 0 => emitted[r] # 0
  BY <1>2
<1> QED BY <1>1, <1>3, <1>5, <1>6, HiddenStep

\* The reply of a plain request.
LEMMA ReplyPieces ==
  ASSUME SInv, PieceInv, NEW r \in Prompts, NEW chunk \in inbox[r], Take(r, chunk),
         chunk.kind = "reply", armed' = armed, index' = index,
         transcript' = Append(transcript, Said("assistant", <<<<r, 1>>>>))
  PROVE  PieceInv'
<1>1. PICK S, t : S = Places(transcript) /\ t = transcript
  OBVIOUS
<1>2. /\ inbox[r] = {chunk} /\ inbox'[r] = {} /\ armed[r] = 0
      /\ inbox' = [inbox EXCEPT ![r] = {}]
      /\ UNCHANGED <<sent, prompt, conn, stopped, emitted, channel>>
  BY Taken
<1>3. \A q \in Prompts \ {r} : Same(q)
  BY <1>2 DEF SInv, Types, Same
<1>4. PiecesOK(S, r) /\ PlacesOrdered(S) /\ UpToIndex(S) /\ t \in Seq(Saying) /\ S = Places(t)
  BY <1>1 DEF PieceInv
<1>5. emitted[r] = 0 /\ conn[r] = "ended" /\ channel[r] = <<>>
  BY <1>2, <1>4 DEF PiecesOK, SInv, StreamOK
<1>6. \A x \in S : x.request # r
  BY <1>2, <1>4, <1>5 DEF PiecesOK, Quiet
<1>7. PICK new : new = PlaceOf(Len(t) + 1, 1, r, 1)
  OBVIOUS
<1>8. transcript' \in Seq(Saying) /\ Places(transcript') = S \cup {new}
  <2>1. PICK u, p : u = transcript' /\ p = 1
    OBVIOUS
  <2>2. u = Append(t, Answer(r, p)) /\ p \in Nat
    BY <1>1, <2>1 DEF Part, Answer
  <2>3. u \in Seq(Saying) /\ Places(u) = Places(t) \cup {AtEnd(t, r, p)}
    BY <1>4, <2>2, PlacesAppend
  <2> QED BY <1>4, <1>7, <2>1, <2>3 DEF AtEnd
<1>9. new \in Place /\ new.request = r
  BY <1>4, <1>7 DEF Place, PlaceOf
<1>10. PICK R : R = S \cup {new}
  OBVIOUS
<1>11. PlacesOrdered(R)
  <2>1. S \subseteq Place
    BY <1>4 DEF Places
  <2> QED BY <1>4, <1>6, <1>9, <1>10, <2>1, OrderedAdd
<1>12. PiecesOK(R, r)'
  <2>1. /\ conn'[r] = "ended" /\ emitted'[r] = 0 /\ channel'[r] = <<>> /\ armed'[r] = 0
        /\ inbox'[r] = {}
    BY <1>2, <1>5
  <2>2. ChannelOK(<<>>, 0)
    BY <1>4, <1>5 DEF PiecesOK
  <2> QED BY <2>1, <2>2 DEF PiecesOK, Quiet
<1>13. \A q \in Prompts \ {r} : PiecesOK(R, q)'
  <2> SUFFICES ASSUME NEW q \in Prompts \ {r} PROVE PiecesOK(R, q)'
    OBVIOUS
  <2>1. PiecesOK(S, q)
    BY <1>1 DEF PieceInv
  <2>2. PiecesOK(R, q)
    BY <1>9, <1>10, <2>1, FewerPieces
  <2> QED BY <1>3, <2>2, SamePieces
<1>14. UpToIndex(R)'
  <2>1. UpToIndex(R)
    BY <1>4, <1>5, <1>9, <1>10 DEF UpToIndex
  <2> QED BY <1>2, <2>1 DEF UpToIndex
<1>15. Places(transcript)' = R /\ index' >= -1
  BY <1>8, <1>10 DEF PieceInv
<1>16. PlacesOrdered(Places(transcript))' /\ UpToIndex(Places(transcript))'
  BY <1>11, <1>14, <1>15
<1>17. (\A q \in Prompts : PiecesOK(Places(transcript), q))'
  BY <1>12, <1>13, <1>15
<1> QED BY <1>8, <1>15, <1>16, <1>17 DEF PieceInv

LEMMA UpdatePieces ==
  ASSUME SInv, PieceInv, NEW r \in Prompts, Update(r)
  PROVE  PieceInv'
<1>1. PICK chunk \in inbox[r] : \/ ApplyContent(r, chunk) \/ ApplyDone(r, chunk)
                                \/ ApplyError(r, chunk) \/ ApplyCompletion(r, chunk)
  BY DEF Update
<1>2. transcript \in Seq(Saying)
  BY DEF PieceInv
<1>3. CASE ApplyContent(r, chunk)
  BY <1>3, ContentPieces
<1>4. CASE ApplyDone(r, chunk)
  <2>1. Take(r, chunk) /\ armed' = armed /\ index' = -1 /\ transcript' = transcript
    BY <1>4 DEF ApplyDone
  <2> QED BY <1>2, <2>1, EndPieces
<1>5. CASE ApplyError(r, chunk)
  <2>1. /\ Take(r, chunk) /\ armed' = armed /\ index' = index
        /\ transcript' = transcript \/ transcript' = Append(transcript, Said("error", <<>>))
    BY <1>5 DEF ApplyError
  <2>2. "error" \in Roles
    BY DEF Roles
  <2>3. transcript' \in Seq(Saying) /\ Places(transcript') = Places(transcript)
    BY <1>2, <2>1, <2>2, PlacesSame
  <2> QED BY <2>1, <2>3, EndPieces
<1>6. CASE ApplyCompletion(r, chunk)
  <2>1. /\ Take(r, chunk) /\ armed' = armed /\ index' = index
        /\ \/ transcript' = transcript
           \/ /\ chunk.kind = "reply"
              /\ transcript' = Append(transcript, Said("assistant", <<<<r, 1>>>>))
    BY <1>6 DEF ApplyCompletion
  <2> QED BY <1>2, <2>1, EndPieces, ReplyPieces
<1> QED BY <1>1, <1>3, <1>4, <1>5, <1>6

LEMMA SubmitPieces ==
  ASSUME SInv, PieceInv, NEW plain \in BOOLEAN, Submit(plain)
  PROVE  PieceInv'
<1>1. sent + 1 \in Prompts
  <2>1. sent < MaxPrompts
    BY DEF Submit
  <2> QED BY <2>1, ChatAssumption DEF SInv, Types, Prompts
<1> PICK r \in Prompts : r = sent + 1
  BY <1>1
<1>2. /\ conn' = [conn EXCEPT ![r] = IF plain THEN "plain" ELSE "stream"]
      /\ armed' = [armed EXCEPT ![r] = IF plain THEN 0 ELSE 1]
      /\ index' = -1 /\ transcript' = Append(transcript, Said("user", <<>>))
      /\ UNCHANGED <<emitted, channel, inbox>>
  BY DEF Submit, Armed
<1>3. r > sent
  BY DEF SInv, Types
<1>4. conn[r] = "none" /\ Quiet(r) /\ emitted[r] = 0
  BY <1>3 DEF SInv, StreamOK
<1>5. PICK S : S = Places(transcript)
  OBVIOUS
<1>6. transcript' \in Seq(Saying) /\ Places(transcript') = S
  <2>1. "user" \in Roles
    BY DEF Roles
  <2> QED BY <1>2, <1>5, <2>1, PlacesSame DEF PieceInv
<1>7. PiecesOK(S, r)
  BY <1>5 DEF PieceInv
<1>8. \A x \in S : x.request # r
  BY <1>4, <1>7 DEF PiecesOK
<1>9. /\ inbox'[r] = {} /\ channel'[r] = <<>> /\ emitted'[r] = 0
      /\ \A q \in Prompts \ {r} : Same(q)
  BY <1>2, <1>4 DEF SInv, Types, Same, Quiet
<1>10. PiecesOK(S, r)'
  <2>1. ChannelOK(<<>>, 0)
    BY <1>4, <1>7 DEF PiecesOK, Quiet
  <2> QED BY <1>8, <1>9, <2>1 DEF PiecesOK
<1> QED BY <1>2, <1>5, <1>6, <1>8, <1>9, <1>10, HiddenStep

LEMMA UserPieces ==
  ASSUME SInv, PieceInv, User
  PROVE  PieceInv'
<1>1. ASSUME NEW text, Type(text)
      PROVE  UNCHANGED transcript
  BY <1>1 DEF Type
<1>2. ASSUME NEW command, runChatCommand(command)
      PROVE  UNCHANGED transcript \/ transcript' = <<>>
  BY <1>2 DEF runChatCommand, Clear, Stop, New, ClosePopup
<1>3. \/ UNCHANGED transcript \/ transcript' = <<>>
      \/ \E plain \in BOOLEAN : Submit(plain)
  BY <1>1, <1>2 DEF User, Enter, Click, CtrlH, ClosePopup, SubmitNoRunner, Clear, New
<1>4. \/ UNCHANGED <<conn, emitted, armed, channel, inbox, index>>
      \/ \E plain \in BOOLEAN : Submit(plain)
  BY UserSteps DEF net, Stop
<1>5. CASE \E plain \in BOOLEAN : Submit(plain)
  BY <1>5, SubmitPieces
<1>6. CASE UNCHANGED transcript \/ transcript' = <<>>
  <2>1. transcript' \in Seq(Saying) /\ Places(transcript') \subseteq Places(transcript)
    <3>1. Places(<<>>) = {} /\ <<>> \in Seq(Saying)
      BY DEF Places
    <3> QED BY <1>6, <3>1 DEF PieceInv
  <2> QED BY <1>4, <1>5, <2>1, QuietStep
<1> QED BY <1>3, <1>5, <1>6

LEMMA PiecesInit == ChatInit => PieceInv
<1> SUFFICES ASSUME ChatInit PROVE PieceInv
  OBVIOUS
<1>1. transcript = <<>> /\ transcript \in Seq(Saying) /\ index = -1
  <2>1. <<>> \in Seq(Saying)
    OBVIOUS
  <2> QED BY <2>1 DEF ChatInit
<1>2. Places(transcript) = {}
  BY <1>1 DEF Places
<1>3. \A r \in Prompts : channel[r] = <<>> /\ inbox[r] = {}
  BY DEF ChatInit
<1>4. \A n : ChannelOK(<<>>, n)
  BY DEF ChannelOK
<1> QED BY <1>1, <1>2, <1>3, <1>4 DEF PieceInv, PlacesOrdered, PiecesOK, UpToIndex

LEMMA PiecesNext == SInv /\ PieceInv /\ [ChatNext]_chatVars => PieceInv'
<1> SUFFICES ASSUME SInv, PieceInv, [ChatNext]_chatVars PROVE PieceInv'
  OBVIOUS
<1>1. CASE User
  BY <1>1, UserPieces
<1>2. ASSUME NEW r \in Prompts, \/ Emit(r) \/ EndStream(r) \/ EndPlain(r)
                                \/ WaitForChunk(r) \/ Update(r)
      PROVE  PieceInv'
  BY <1>2, EmitPieces, EndStreamPieces, EndPlainPieces, WaitPieces, UpdatePieces
<1>3. CASE UNCHANGED chatVars
  BY <1>3, QuietStep DEF chatVars, ui, net, PieceInv
<1> QED BY <1>1, <1>2, <1>3 DEF ChatNext

\* PiecesInOrder of the transcript, for any numbers of prompts, pieces and
\* places in the channel: no prompt, /stop or /clear between the chunks of an
\* answer, and no other answer, makes them appear out of order.
THEOREM AnswersInOrder == ChatSpec => []PiecesInOrder
<1> QED BY InitOK, NextKeeps, PiecesInit, PiecesNext, OrderedShown, PTL DEF ChatSpec
=============================================================================
