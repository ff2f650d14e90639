---- MODULE MCSupervisor ----
(* Instances of Supervisor for TLC. *)
EXTENDS Supervisor, TLC

\* Processes are interchangeable and so are callers; runner ids are not (one
\* is the default runner).  Used by the safety runs only.
MCSymmetry == Permutations(Procs) \cup Permutations(Threads)
====
