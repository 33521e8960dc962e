----------------------------- MODULE Supervisor -----------------------------
(***************************************************************************)
(* The supervisors of the registered workers (crates/flatbed/src/          *)
(* supervisor.rs): one task per worker runs `supervise`, which runs the    *)
(* worker, judges how it ended, restarts it under its policy or fails the  *)
(* process.  They share the health and the shutdown watches, and the table *)
(* of worker states, with the rest of the process (module Lifecycle).      *)
(*                                                                         *)
(* A clock is left out: whether a run lasted as long as the policy's cap is *)
(* a choice made when it has ended, and a back-off may end at any moment.  *)
(* The application's error reporter is called before a failure is shown;   *)
(* its calls are assumed to return.                                        *)
(***************************************************************************)
EXTENDS Naturals

CONSTANTS
  Workers,      \* the registered workers
  MaxRestarts,  \* per worker: RestartPolicy::max_restarts, None without policy
  Checks,       \* per worker: what its enabled check may do
  MaxU32,       \* 2^32 - 1
  None          \* Option::None

ASSUME SupervisorAssumption ==
  /\ MaxU32 \in Nat \ {0}
  /\ MaxRestarts \in [Workers -> 0..MaxU32 \cup {None}]
  /\ None \notin Nat \cup {"Running", "BackingOff", "Failed", "Disabled"}
  /\ Checks \in [Workers -> SUBSET {"on", "off", "panics"}]

VARIABLES
  sup,       \* per worker: where its supervisor is
  states,    \* STATES, the table /healthz and the drains read
  attempt,   \* supervise's count of consecutive restarts
  exit,      \* how the worker's last run ended, until that is dealt with
  healthy,   \* the healthz watch
  shutdown,  \* the shutdown watch
  restarts   \* history: restarts since the start or the last recovery

supervision == <<sup, states, attempt, exit, healthy, shutdown, restarts>>

Exits == {"Completed", "Failed", "Panicked"}
States == {"Running", "BackingOff", "Failed", "Disabled"}
Points == {"unspawned", "check", "start", "running", "ended", "failing",
           "unhealthy", "loud", "backoff", "gone"}

HasPolicy(w) == MaxRestarts[w] # None

SupervisorInit ==
  /\ sup = [w \in Workers |-> "unspawned"]
  /\ states = [w \in Workers |-> None]
  /\ attempt = [w \in Workers |-> 0]
  /\ exit = [w \in Workers |-> None]
  /\ healthy = FALSE /\ shutdown = FALSE
  /\ restarts = [w \in Workers |-> 0]

-----------------------------------------------------------------------------
(* One supervisor *)

At(w, from, to) == sup[w] = from /\ sup' = [sup EXCEPT ![w] = to]

\* set_state
Shows(w, s) == states' = [states EXCEPT ![w] = s]

\* `check_enabled`: a rejected worker is never started; a panic of the check
\* fails it.
Check(w) ==
  /\ \/ "on" \in Checks[w] /\ At(w, "check", "start") /\ UNCHANGED <<states, exit>>
     \/ "off" \in Checks[w] /\ At(w, "check", "gone") /\ Shows(w, "Disabled")
        /\ UNCHANGED exit
     \/ "panics" \in Checks[w] /\ At(w, "check", "failing")
        /\ exit' = [exit EXCEPT ![w] = "Panicked"] /\ UNCHANGED states
  /\ UNCHANGED <<attempt, healthy, shutdown, restarts>>

Start(w) ==
  /\ At(w, "start", "running") /\ Shows(w, "Running")
  /\ UNCHANGED <<attempt, exit, healthy, shutdown, restarts>>

\* `run_once` returns.
Ends(w) ==
  /\ At(w, "running", "ended")
  /\ \E e \in Exits : exit' = [exit EXCEPT ![w] = e]
  /\ UNCHANGED <<states, attempt, healthy, shutdown, restarts>>

\* u32::saturating_add(1)
Bumped(n) == IF n = MaxU32 THEN n ELSE n + 1

\* The exit goes out of scope.
Forgets(w) == exit' = [exit EXCEPT ![w] = None]

\* The shutdown has begun: nothing else is done.
EndsInShutdown(w) ==
  /\ shutdown /\ At(w, "ended", "gone") /\ Forgets(w)
  /\ UNCHANGED <<states, attempt, healthy, shutdown, restarts>>

\* Mutant: a worker that completes is not a failure.
IgnoresCompletion(w) ==
  /\ ~shutdown /\ ~HasPolicy(w)
  /\ IF exit[w] = "Completed" THEN At(w, "ended", "gone") ELSE At(w, "ended", "failing")
  /\ UNCHANGED <<states, attempt, exit, healthy, shutdown, restarts>>

\* Without a policy the first exit is the last.
EndsForGood(w) ==
  /\ ~shutdown /\ ~HasPolicy(w) /\ At(w, "ended", "failing")
  /\ UNCHANGED <<states, attempt, exit, healthy, shutdown, restarts>>

\* Mutant: the last restart is not granted.
ExhaustedEarly(w, n) == n >= MaxRestarts[w]

Exhausted(w, n) == n > MaxRestarts[w]

\* Under a policy: a run as long as the cap resets the count, the exit is
\* counted, and the worker backs off or has exhausted its policy.
EndsUnderPolicy(w) ==
  /\ ~shutdown /\ HasPolicy(w)
  /\ \E recovered \in BOOLEAN :
       /\ restarts' = [restarts EXCEPT ![w] = IF recovered THEN 0 ELSE @]
       /\ attempt' = [attempt EXCEPT ![w] = Bumped(IF recovered THEN 0 ELSE @)]
  /\ IF Exhausted(w, attempt'[w])
     THEN At(w, "ended", "failing") /\ UNCHANGED states
     ELSE At(w, "ended", "backoff") /\ Shows(w, "BackingOff")
  /\ Forgets(w)
  /\ UNCHANGED <<healthy, shutdown>>

\* The back-off ends: by its sleep, also when the shutdown is ready as well (the
\* select is not biased), or by the shutdown.
Restart(w) ==
  /\ At(w, "backoff", "start")
  /\ restarts' = [restarts EXCEPT ![w] = Bumped(@)]
  /\ UNCHANGED <<states, attempt, exit, healthy, shutdown>>

Abandon(w) ==
  /\ shutdown /\ At(w, "backoff", "gone")
  /\ UNCHANGED <<states, attempt, exit, healthy, shutdown, restarts>>

\* `fail`, in its three steps: the state, the health, and the shutdown unless a
\* worker without a policy just completed.
MarkFailed(w) ==
  /\ At(w, "failing", "unhealthy") /\ Shows(w, "Failed")
  /\ UNCHANGED <<attempt, exit, healthy, shutdown, restarts>>

\* Mutant: a panic does not end the process.
QuietPanic(w) == exit[w] # "Failed" /\ ~HasPolicy(w)

Quiet(w) == exit[w] = "Completed" /\ ~HasPolicy(w)

MarkUnhealthy(w) ==
  /\ At(w, "unhealthy", IF Quiet(w) THEN "gone" ELSE "loud")
  /\ healthy' = FALSE /\ Forgets(w)
  /\ UNCHANGED <<states, attempt, shutdown, restarts>>

RaiseShutdown(w) ==
  /\ At(w, "loud", "gone") /\ shutdown' = TRUE
  /\ UNCHANGED <<states, attempt, exit, healthy, restarts>>

\* Everything `supervise` does by itself, the worker's own end excepted.
Supervise(w) ==
  \/ Check(w) \/ Start(w)
  \/ EndsInShutdown(w) \/ EndsForGood(w) \/ EndsUnderPolicy(w)
  \/ Restart(w) \/ Abandon(w)
  \/ MarkFailed(w) \/ MarkUnhealthy(w) \/ RaiseShutdown(w)

-----------------------------------------------------------------------------
(* Properties *)

SupervisorTypeOK ==
  /\ sup \in [Workers -> Points]
  /\ states \in [Workers -> States \cup {None}]
  /\ attempt \in [Workers -> 0..MaxU32]
  /\ exit \in [Workers -> Exits \cup {None}]
  /\ healthy \in BOOLEAN /\ shutdown \in BOOLEAN
  /\ restarts \in [Workers -> 0..MaxU32]

\* The supervisor never leaves a process looking healthy with a dead worker in
\* it: a worker nobody runs any more is disabled, or shown as failed in an
\* unhealthy process, or ended in a shutdown (supervise, fail).
DeadIsVisible ==
  \A w \in Workers : sup[w] = "gone" =>
    \/ states[w] = "Disabled"
    \/ states[w] = "Failed" /\ ~healthy
    \/ states[w] \in {"Running", "BackingOff"} /\ shutdown

\* A policy allows exactly max_restarts restarts in a row: the worker is never
\* restarted once more, and it fails neither before the last one nor without an
\* exit of its own (supervise).
RestartsExact ==
  \A w \in Workers : HasPolicy(w) =>
    /\ restarts[w] <= MaxRestarts[w]
    /\ states[w] = "Failed" /\ attempt[w] > 0 => restarts[w] = MaxRestarts[w]

=============================================================================
