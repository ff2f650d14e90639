--------------------------- MODULE RunnerRegistry ---------------------------
(***************************************************************************)
(* What the supervisor promises, without its mutexes, timers and           *)
(* goroutines: a registry of runners with a role, a route per role, and    *)
(* the processes that serve each runner.  An exclusive runner gets a new   *)
(* process only when it has none that still serves, and it changes its     *)
(* role and leaves the registry only then.  Supervisor implements this     *)
(* with all runners exclusive that runtime.start does not start.           *)
(***************************************************************************)
CONSTANTS RunnerIds, Roles, Procs, None,
          Exclusive \* the runners with one process at most

VARIABLES
  runners, \* the registered runners
  role,    \* the role of each registered runner
  routes,  \* the runner that serves a role
  live     \* the serving processes of each runner: neither signalled nor gone

vars == <<runners, role, routes, live>>

Init ==
  /\ runners \subseteq RunnerIds
  /\ role \in [RunnerIds -> Roles \cup {None}]
  /\ routes \in [Roles -> runners \cup {None}]
  /\ \A r \in Roles : routes[r] # None => role[routes[r]] = r
  /\ live = [i \in RunnerIds |-> {}]

\* An exclusive runner is idle when none of its processes serves; nothing is
\* asked of another one.
Idle(i) == i \in Exclusive => live[i] = {}

Register(i, r) ==
  /\ i \notin runners /\ Idle(i)
  /\ runners' = runners \cup {i}
  /\ role' = [role EXCEPT ![i] = r]
  /\ routes' = [routes EXCEPT ![r] = i]
  /\ UNCHANGED live

\* Only an idle runner may change its role; it takes over the new role.
Rerole(i, r) ==
  /\ i \in runners /\ Idle(i)
  /\ role' = [role EXCEPT ![i] = r]
  /\ routes' = [s \in Roles |-> IF s = r THEN i
                                ELSE IF s = role[i] THEN None ELSE routes[s]]
  /\ UNCHANGED <<runners, live>>

Pin(i) ==
  /\ i \in runners
  /\ routes' = [routes EXCEPT ![role[i]] = i]
  /\ UNCHANGED <<runners, role, live>>

\* A process serves one runner.
Launch(i, p) ==
  /\ i \in runners /\ Idle(i)
  /\ \A j \in RunnerIds : p \notin live[j]
  /\ live' = [live EXCEPT ![i] = @ \cup {p}]
  /\ UNCHANGED <<runners, role, routes>>

\* The process is signalled, or it exits.
Lose(i, p) ==
  /\ p \in live[i]
  /\ live' = [live EXCEPT ![i] = @ \ {p}]
  /\ UNCHANGED <<runners, role, routes>>

Remove(i) ==
  /\ i \in runners /\ Idle(i)
  /\ runners' = runners \ {i}
  /\ role' = [role EXCEPT ![i] = None]
  /\ routes' = [s \in Roles |-> IF routes[s] = i THEN None ELSE routes[s]]
  /\ UNCHANGED live

Next ==
  \E i \in RunnerIds :
    \/ \E r \in Roles : Register(i, r) \/ Rerole(i, r)
    \/ \E p \in Procs : Launch(i, p) \/ Lose(i, p)
    \/ Pin(i)
    \/ Remove(i)

Spec == Init /\ [][Next]_vars
=============================================================================
