----------------------------- MODULE ChatStream -----------------------------
(***************************************************************************)
(* The chat tab of the terminal UI (internal/tui/model.go): the composer,  *)
(* the slash commands and the requests to /v1/chat/completions.            *)
(*                                                                         *)
(* A streaming request is a goroutine, streamChatCompletion, that sends    *)
(* chunks into a channel of its own; the UI loop keeps one command armed   *)
(* that receives the next chunk and hands it to Update.  A plain request   *)
(* is a command that returns one message.  No message says which request   *)
(* it belongs to: it is applied to the prompt that is current when it      *)
(* arrives.  The model knows the request of each message; the code's       *)
(* variables do not.                                                       *)
(*                                                                         *)
(* An answer is a sequence of pieces 1, 2, ... of its request.  A prompt   *)
(* is its text; the texts that are names of commands open the popup.       *)
(***************************************************************************)
EXTENDS Integers, Sequences, FiniteSets, SequencesExt

CONSTANTS MaxPrompts, \* bound on the number of prompts sent
          Pieces,      \* bound on the pieces of all answers
          ChunkBuffer,    \* of the channel of a stream, 16 in the code
          Plain,       \* whether streaming may be switched off
          Typed        \* the texts that the user types

Commands == {"/clear", "/stop", "/new", "/settings"}
Texts    == Commands \cup {"hello"}

ASSUME ChatAssumption == /\ MaxPrompts \in Nat /\ Pieces \in Nat
                         /\ ChunkBuffer \in Nat \ {0} /\ Plain \in BOOLEAN
                         /\ Typed \subseteq Texts

VARIABLES
  draft,    \* chatDraft
  popup,    \* chatCommandPopup
  pending,  \* chatPendingDraft
  busy,     \* chatBusy
  status,   \* chatStatus
  index,    \* chatAssistantIndex, -1 or a 0-based index of transcript
  transcript, \* chatMessages
  cancel,   \* the request that chatCancel cancels, or 0
  sent,     \* number of requests made
  prompt,   \* the prompt of each request
  conn,     \* the goroutine or command of each request
  stopped,  \* requests whose context is cancelled
  emitted,  \* pieces each request has produced
  channel,  \* the channel of each stream
  armed,    \* commands waiting on that channel
  inbox     \* messages of each request on their way to Update

ui == <<draft, popup, pending, busy, status, index, transcript, cancel>>
net == <<sent, prompt, conn, stopped, emitted, channel, armed, inbox>>
chatVars == <<ui, net>>

Prompts == 1 .. MaxPrompts

Chunk == [kind : {"content"}, piece : 1 .. Pieces]
           \cup [kind : {"done", "error", "reply", "failure"}, piece : {0}]
Final(kind) == [kind |-> kind, piece |-> 0]

\* A message of the transcript, with the pieces of answers it holds.
Said(role, parts) == [role |-> role, parts |-> parts]

ChatInit ==
  /\ draft = "" /\ popup = FALSE /\ pending = "" /\ busy = FALSE
  /\ status = "idle" /\ index = -1 /\ transcript = <<>> /\ cancel = 0
  /\ sent = 0 /\ prompt = [r \in Prompts |-> ""]
  /\ conn = [r \in Prompts |-> "none"] /\ stopped = {}
  /\ emitted = [r \in Prompts |-> 0]
  /\ channel = [r \in Prompts |-> <<>>]
  /\ armed = [r \in Prompts |-> 0] /\ inbox = [r \in Prompts |-> {}]

-----------------------------------------------------------------------------
(* The composer *)

\* Keys that change the draft, and keep the popup open while it starts with "/".
Type(text) ==
  /\ text # draft
  /\ draft' = text /\ popup' = (text \in Commands)
  /\ UNCHANGED <<pending, busy, status, index, transcript, cancel, net>>

\* ctrl+h deletes from the draft too, but leaves the popup as it is.
CtrlH ==
  /\ draft # ""
  /\ draft' = ""
  /\ UNCHANGED <<popup, pending, busy, status, index, transcript, cancel, net>>

ClosePopup ==
  /\ popup
  /\ popup' = FALSE
  /\ UNCHANGED <<draft, pending, busy, status, index, transcript, cancel, net>>

\* Mutant: the prompt is not kept until the answer has begun.
XSubmit(plain) ==
  /\ draft # "" /\ ~ busy /\ sent < MaxPrompts
  /\ plain => Plain
  /\ LET r == sent + 1 IN
       /\ sent' = r
       /\ prompt' = [prompt EXCEPT ![r] = draft]
       /\ conn' = [conn EXCEPT ![r] = IF plain THEN "plain" ELSE "stream"]
       /\ armed' = [armed EXCEPT ![r] = IF plain THEN 0 ELSE 1]
       /\ cancel' = r
  /\ draft' = "" /\ popup' = FALSE
  /\ busy' = TRUE /\ status' = "processing" /\ index' = -1
  /\ transcript' = Append(transcript, Said("user", <<>>))
  /\ UNCHANGED <<pending, stopped, emitted, channel, inbox>>

\* Mutant: two commands wait on the channel.
XArmed == 2

\* The commands that a submission arms.
Armed == 1

\* submitChatPrompt with a runner selected, and the command it returns.
Submit(plain) ==
  /\ draft # "" /\ ~ busy /\ sent < MaxPrompts
  /\ plain => Plain
  /\ LET r == sent + 1 IN
       /\ sent' = r
       /\ prompt' = [prompt EXCEPT ![r] = draft]
       /\ conn' = [conn EXCEPT ![r] = IF plain THEN "plain" ELSE "stream"]
       /\ armed' = [armed EXCEPT ![r] = IF plain THEN 0 ELSE Armed]
       /\ cancel' = r
  /\ draft' = "" /\ pending' = draft /\ popup' = FALSE
  /\ busy' = TRUE /\ status' = "processing" /\ index' = -1
  /\ transcript' = Append(transcript, Said("user", <<>>))
  /\ UNCHANGED <<stopped, emitted, channel, inbox>>

\* submitChatPrompt when no runner is configured: the draft stays.
SubmitNoRunner ==
  /\ draft # "" /\ ~ busy
  /\ status' = "error"
  /\ UNCHANGED <<draft, popup, pending, busy, index, transcript, cancel, net>>

\* The command the popup selects: the first that begins with the draft.
Selected == IF draft = "" THEN "/clear" ELSE draft

Clear ==
  /\ transcript' = <<>> /\ popup' = FALSE
  /\ UNCHANGED <<draft, pending, busy, status, index, cancel, net>>

Stop ==
  /\ stopped' = IF cancel = 0 THEN stopped ELSE stopped \cup {cancel}
  /\ cancel' = 0
  /\ busy' = FALSE /\ status' = "idle" /\ popup' = FALSE
  /\ UNCHANGED <<draft, pending, index, transcript, sent, prompt, conn, emitted,
                 channel, armed, inbox>>

\* The store's new session is an action of the command bus.
New ==
  /\ draft' = "" /\ transcript' = <<>> /\ popup' = FALSE
  /\ UNCHANGED <<pending, busy, status, index, cancel, net>>

\* /settings opens a dropdown, which Focus models, and closes the popup.
runChatCommand(command) ==
  \/ command = "/clear" /\ Clear
  \/ command = "/stop" /\ Stop
  \/ command = "/new" /\ New
  \/ command = "/settings" /\ ClosePopup

\* Enter: a command while the popup is open, a prompt otherwise.  Shift+Enter,
\* which adds a line to the draft and leaves the popup, is left out.
Enter ==
  \/ popup /\ Selected \in Commands /\ runChatCommand(Selected)
  \/ ~ popup /\ \E plain \in BOOLEAN : Submit(plain)
  \/ ~ popup /\ SubmitNoRunner

\* A click on Send, on a command, or on the bottom bar's Clear and New.
Click == \/ \E plain \in BOOLEAN : Submit(plain)
         \/ SubmitNoRunner
         \/ popup /\ \E command \in Commands : runChatCommand(command)
         \/ Clear
         \/ New

-----------------------------------------------------------------------------
(* streamChatCompletion and postChatCompletion *)

\* A send to the channel blocks while it is full.
Send(r, chunk) ==
  /\ Len(channel[r]) < ChunkBuffer
  /\ channel' = [channel EXCEPT ![r] = Append(@, chunk)]

\* A piece of the answer; pieces already received are sent even when the
\* context has been cancelled.
Emit(r) ==
  /\ conn[r] = "stream" /\ FoldFunction(+, 0, emitted) < Pieces
  /\ Send(r, [kind |-> "content", piece |-> emitted[r] + 1])
  /\ emitted' = [emitted EXCEPT ![r] = @ + 1]
  /\ UNCHANGED <<ui, sent, prompt, conn, stopped, armed, inbox>>

\* The answer is complete, or sending, reading or decoding has failed.
EndStream(r) ==
  /\ conn[r] = "stream"
  /\ \E kind \in {"done", "error"} : Send(r, Final(kind))
  /\ conn' = [conn EXCEPT ![r] = "ended"]
  /\ UNCHANGED <<ui, sent, prompt, stopped, emitted, armed, inbox>>

EndPlain(r) ==
  /\ conn[r] = "plain"
  /\ \E kind \in {"reply", "failure"} : inbox' = [inbox EXCEPT ![r] = {Final(kind)}]
  /\ conn' = [conn EXCEPT ![r] = "ended"]
  /\ UNCHANGED <<ui, sent, prompt, stopped, emitted, channel, armed>>

\* waitForChatStreamChunk; a closed channel reads as done, which is never needed:
\* every stream sends a last message before it closes its channel.
WaitForChunk(r) ==
  /\ armed[r] > 0
  /\ armed' = [armed EXCEPT ![r] = @ - 1]
  /\ \/ /\ channel[r] # <<>>
        /\ inbox' = [inbox EXCEPT ![r] = @ \cup {Head(channel[r])}]
        /\ channel' = [channel EXCEPT ![r] = Tail(@)]
     \/ /\ channel[r] = <<>> /\ conn[r] = "ended"
        /\ inbox' = [inbox EXCEPT ![r] = @ \cup {Final("done")}]
        /\ UNCHANGED channel
  /\ UNCHANGED <<ui, sent, prompt, conn, stopped, emitted>>

-----------------------------------------------------------------------------
(* Messages applied by Update *)

Take(r, chunk) == /\ chunk \in inbox[r]
                  /\ inbox' = [inbox EXCEPT ![r] = @ \ {chunk}]
                  /\ UNCHANGED <<sent, prompt, conn, stopped, emitted, channel>>

\* chatAssistantIndex denotes a message of the transcript.
AnswerShown == index >= 0 /\ index < Len(transcript)

\* Mutant: the next chunk is not asked for.
XRearmed(r) == armed

\* Mutant: it is not asked for while nothing is awaited.
RearmedIfBusy(r) == IF busy THEN [armed EXCEPT ![r] = @ + 1] ELSE armed

\* The command that waits for the next chunk.
Rearmed(r) == [armed EXCEPT ![r] = @ + 1]

ApplyContent(r, chunk) ==
  /\ chunk.kind = "content" /\ Take(r, chunk)
  /\ status' = "responding"
  /\ index' = IF AnswerShown THEN index ELSE Len(transcript)
  /\ transcript' = LET part == <<r, chunk.piece>> IN
       IF AnswerShown
       THEN [transcript EXCEPT ![index + 1].parts = Append(@, part)]
       ELSE Append(transcript, Said("assistant", <<part>>))
  /\ armed' = Rearmed(r)
  /\ UNCHANGED <<draft, popup, pending, busy, cancel>>

ApplyDone(r, chunk) ==
  /\ chunk.kind = "done" /\ Take(r, chunk)
  /\ busy' = FALSE /\ status' = "idle" /\ index' = -1 /\ cancel' = 0
  /\ pending' = ""
  /\ UNCHANGED <<draft, popup, transcript, armed>>

\* What was typed meanwhile is overwritten by the prompt.
ApplyError(r, chunk) ==
  /\ chunk.kind = "error" /\ Take(r, chunk)
  /\ busy' = FALSE /\ status' = "error" /\ cancel' = 0 /\ pending' = ""
  /\ IF AnswerShown
     THEN UNCHANGED <<draft, transcript>>
     ELSE /\ draft' = pending
          /\ transcript' = Append(transcript, Said("error", <<>>))
  /\ UNCHANGED <<popup, index, armed>>

\* Update on chatCompletionMsg; chatCancel stays set.
ApplyCompletion(r, chunk) ==
  /\ chunk.kind \in {"reply", "failure"} /\ Take(r, chunk)
  /\ busy' = FALSE /\ pending' = ""
  /\ \/ /\ chunk.kind = "failure"
        /\ status' = "error"
        /\ draft' = IF index >= 0 THEN draft
                    ELSE IF pending = "" THEN prompt[r] ELSE pending
        /\ UNCHANGED transcript
     \/ /\ chunk.kind = "reply"
        /\ status' = "idle"
        /\ transcript' = Append(transcript, Said("assistant", <<<<r, 1>>>>))
        /\ UNCHANGED draft
  /\ UNCHANGED <<popup, index, cancel, armed>>

Update(r) == \E chunk \in inbox[r] : \/ ApplyContent(r, chunk) \/ ApplyDone(r, chunk)
                                     \/ ApplyError(r, chunk) \/ ApplyCompletion(r, chunk)

-----------------------------------------------------------------------------
User == \/ \E text \in Typed \cup {""} : Type(text)
        \/ CtrlH \/ ClosePopup \/ Enter \/ Click

ChatNext == \/ User
            \/ \E r \in Prompts : \/ Emit(r) \/ EndStream(r) \/ EndPlain(r)
                                  \/ WaitForChunk(r) \/ Update(r)

ChatSpec == ChatInit /\ [][ChatNext]_chatVars

\* The UI loop runs, and a request whose context is cancelled ends: the HTTP
\* client closes its connection.  Nothing is assumed of the backend.
ChatFairness ==
  \A r \in Prompts : /\ WF_chatVars(WaitForChunk(r)) /\ WF_chatVars(Update(r))
                     /\ WF_chatVars(r \in stopped /\ (EndStream(r) \/ EndPlain(r)))

-----------------------------------------------------------------------------
(* Properties *)

\* Every variable has the values the Go types allow.
ChatTypeOK ==
  /\ draft \in Texts \cup {""} /\ pending \in Texts \cup {""}
  /\ popup \in BOOLEAN /\ busy \in BOOLEAN
  /\ status \in {"idle", "processing", "responding", "error"}
  /\ index \in Int /\ index >= -1
  /\ cancel \in 0 .. MaxPrompts /\ sent \in 0 .. MaxPrompts
  /\ prompt \in [Prompts -> Texts \cup {""}]
  /\ conn \in [Prompts -> {"none", "stream", "plain", "ended"}]
  /\ stopped \subseteq Prompts /\ emitted \in [Prompts -> 0 .. Pieces]
  /\ armed \in [Prompts -> 0 .. 1]
  /\ \A r \in Prompts : /\ Len(channel[r]) <= ChunkBuffer
                         /\ Range(channel[r]) \subseteq Chunk
                         /\ inbox[r] \subseteq Chunk

\* The request has not been answered: a goroutine, its channel or a message
\* on its way to Update holds what is left of it.
Unanswered(r) == conn[r] \in {"stream", "plain"} \/ armed[r] > 0 \/ inbox[r] # {}

\* The composer never waits for nothing: while it is busy, the last request
\* is unanswered, whatever was stopped, cleared and sent again before.
BusyHasRequest == busy => sent > 0 /\ Unanswered(sent)

\* The pieces of each answer appear in the order in which the backend sent
\* them, also when the answers of several requests interleave.
PiecesInOrder ==
  \A i, j \in DOMAIN transcript :
    \A k \in DOMAIN transcript[i].parts, l \in DOMAIN transcript[j].parts :
      LET x == transcript[i].parts[k]
          y == transcript[j].parts[l]
      IN x[1] = y[1] /\ (i < j \/ (i = j /\ k < l)) => x[2] < y[2]

\* A prompt whose request fails before its answer has begun is in the
\* composer again, unless the user has stopped a request.
FailureKeepsPrompt ==
  [][\A r \in Prompts :
       /\ \E c \in inbox[r] \ inbox'[r] : c.kind \in {"error", "failure"}
       /\ emitted[r] = 0 /\ stopped = {}
       => draft' = prompt[r]]_chatVars

\* The goroutine of a stream that the user stops ends sometime, and is not
\* left blocked on a channel that nobody reads.
StoppedStreamEnds == \A r \in Prompts : r \in stopped ~> ~ Unanswered(r)

\* /stop leaves no request running.
StopCancels ==
  [][Stop => \A r \in Prompts : conn[r] \in {"stream", "plain"} => r \in stopped']_chatVars
=============================================================================
