----------------------------- MODULE MCStreams -----------------------------
(***************************************************************************)
(* What flows from the server to its clients, for TLC: the statuses, the   *)
(* log lines and the requests of WebSocket connections, and the chat of    *)
(* the terminal UI.  They share no state: a behaviour moves one of them.   *)
(***************************************************************************)
EXTENDS StatusFeed, LogFeed, ApiRequests, ChatStream

VARIABLE part \* the stream that moves

streamVars == <<part, vars, logVars, apiVars, chatVars>>

StreamsInit == /\ part \in {"status", "logs", "api", "chat"}
               /\ Init /\ LogInit /\ ApiInit /\ ChatInit

StreamsNext ==
  /\ UNCHANGED part
  /\ \/ part = "status" /\ Next /\ UNCHANGED <<logVars, apiVars, chatVars>>
     \/ part = "logs" /\ LogNext /\ UNCHANGED <<vars, apiVars, chatVars>>
     \/ part = "api" /\ ApiNext /\ UNCHANGED <<vars, logVars, chatVars>>
     \/ part = "chat" /\ ChatNext /\ UNCHANGED <<vars, logVars, apiVars>>

StreamsSpec == /\ StreamsInit /\ [][StreamsNext]_streamVars
               /\ Fairness /\ LogFairness /\ ApiFairness /\ ChatFairness
=============================================================================
