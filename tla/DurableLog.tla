----------------------------- MODULE DurableLog -----------------------------
(***************************************************************************)
(* What persisting the command bus promises: revisions are accepted one by *)
(* one, an ever longer prefix of them becomes durable, and a crash falls   *)
(* back to exactly the durable prefix.                                     *)
(***************************************************************************)
EXTENDS Naturals

VARIABLES accepted, \* the revisions 1 .. accepted have been applied
          durable   \* the revision a restart would recover

vars == <<accepted, durable>>

Init == accepted = 0 /\ durable = 0

Accept == accepted' = accepted + 1 /\ UNCHANGED durable

Persist ==
  /\ durable' \in durable + 1 .. accepted
  /\ UNCHANGED accepted

Crash == accepted' = durable /\ UNCHANGED durable

Next == Accept \/ Persist \/ Crash

Spec == Init /\ [][Next]_vars
=============================================================================
