---- MODULE MCEventStore ----
(* Instances of EventStore for TLC. *)
EXTENDS EventStore, TLC
====
