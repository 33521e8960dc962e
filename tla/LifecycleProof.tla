--------------------------- MODULE LifecycleProof ---------------------------
(***************************************************************************)
(* Proofs about Lifecycle, for every set of workers and connections and    *)
(* every policy: what the table of worker states tells is true, policies   *)
(* grant exactly their restarts, and a shutdown that drains drains every   *)
(* worker that was started.                                                *)
(*                                                                         *)
(* SupervisorInv speaks of the supervisors alone; a step of a supervisor   *)
(* keeps it whatever the rest of the process does.  LifecycleInv adds what *)
(* the process owes them.                                                  *)
(***************************************************************************)
EXTENDS Lifecycle, TLAPS

\* What the table shows of a worker, by where its supervisor is.
ShownAt(w) ==
  /\ sup[w] \in {"unspawned", "check"} => states[w] = None
  /\ sup[w] = "start" => states[w] \in {None, "BackingOff"}
  /\ sup[w] \in {"running", "ended"} => states[w] = "Running"
  /\ sup[w] = "backoff" => states[w] = "BackingOff"
  /\ sup[w] = "failing" => states[w] \in {None, "Running"}
  /\ sup[w] \in {"unhealthy", "loud"} => states[w] = "Failed"
  /\ sup[w] = "loud" => ~healthy
  /\ sup[w] = "gone" =>
       \/ states[w] = "Disabled"
       \/ states[w] = "Failed" /\ ~healthy
       \/ states[w] \in {"Running", "BackingOff"} /\ shutdown

\* How far supervise's count is ahead of the restarts, by where it is.
CountedAt(w) ==
  HasPolicy(w) =>
    /\ restarts[w] <= MaxRestarts[w]
    /\ sup[w] \in {"unspawned", "check", "start", "running", "ended"} =>
         attempt[w] = restarts[w]
    /\ sup[w] = "backoff" =>
         attempt[w] = Bumped(restarts[w]) /\ attempt[w] <= MaxRestarts[w]
    /\ sup[w] \in {"failing", "unhealthy", "loud"} \/ states[w] = "Failed" =>
         attempt[w] = 0 \/ restarts[w] = MaxRestarts[w]

\* A worker that has not been spawned has not been counted.
FreshAt(w) == sup[w] \in {"unspawned", "check"} => attempt[w] = 0

SupervisorInv ==
  /\ SupervisorTypeOK
  /\ \A w \in Workers : ShownAt(w) /\ CountedAt(w) /\ FreshAt(w)

\* Supervisors exist only once the latch is set, after the process was marked
\* alive; a worker left out of the drains is disabled for good.
LifecycleInv ==
  /\ TypeOK
  /\ SupervisorInv
  /\ booted => main \in {"awaiting", "over"}
  /\ server = "binding" => spawner = "unspawned"
  /\ \A w \in Workers : sup[w] # "unspawned" => booted /\ spawner = "gone"
  /\ drained => server \in {"draining", "epilogue", "done"}
  /\ server = "context" \/ drained =>
       \A w \in Workers \ chosen : states[w] = "Disabled" /\ sup[w] = "gone"

-----------------------------------------------------------------------------
(* The supervisors *)

\* Every operation of a supervisor keeps what is true of the supervisors.
LEMMA SupervisorStep ==
  ASSUME SupervisorInv, NEW w \in Workers, Supervise(w) \/ Ends(w)
  PROVE  SupervisorInv'
<1> USE SupervisorAssumption DEF SupervisorInv, SupervisorTypeOK, HasPolicy
<1>0. MaxRestarts[w] # None => MaxRestarts[w] \in 0..MaxU32
  OBVIOUS
<1>1. CASE Check(w)
  BY <1>0, <1>1 DEF Check, At, Shows, ShownAt, CountedAt, FreshAt, Points, States, Exits
<1>2. CASE Start(w)
  BY <1>0, <1>2 DEF Start, At, Shows, ShownAt, CountedAt, FreshAt, Points, States
<1>3. CASE Ends(w)
  BY <1>0, <1>3 DEF Ends, At, ShownAt, CountedAt, FreshAt, Points, Exits
<1>4. CASE EndsInShutdown(w)
  BY <1>0, <1>4 DEF EndsInShutdown, At, Forgets, ShownAt, CountedAt, FreshAt, Points, Exits, States
<1>5. CASE EndsForGood(w)
  BY <1>0, <1>5 DEF EndsForGood, At, ShownAt, CountedAt, FreshAt, Points
<1>6. CASE EndsUnderPolicy(w)
  BY <1>0, <1>6 DEF EndsUnderPolicy, At, Shows, Forgets, Exhausted, Bumped, ShownAt, CountedAt, FreshAt, Points, States, Exits
<1>7. CASE Restart(w)
  BY <1>0, <1>7 DEF Restart, At, Bumped, ShownAt, CountedAt, FreshAt, Points
<1>8. CASE Abandon(w)
  BY <1>0, <1>8 DEF Abandon, At, ShownAt, CountedAt, FreshAt, Points, States
<1>9. CASE MarkFailed(w)
  BY <1>0, <1>9 DEF MarkFailed, At, Shows, ShownAt, CountedAt, FreshAt, Points, States
<1>10. CASE MarkUnhealthy(w)
  BY <1>0, <1>10 DEF MarkUnhealthy, At, Forgets, ShownAt, CountedAt, FreshAt, Points, Exits
<1>11. CASE RaiseShutdown(w)
  BY <1>0, <1>11 DEF RaiseShutdown, At, ShownAt, CountedAt, FreshAt, Points
<1>12. QED
  BY <1>1, <1>2, <1>3, <1>4, <1>5, <1>6, <1>7, <1>8, <1>9, <1>10, <1>11 DEF Supervise

-----------------------------------------------------------------------------
(* The process *)

LEMMA InitInv == Init => LifecycleInv
<1> SUFFICES ASSUME Init PROVE LifecycleInv
  OBVIOUS
<1>1. SupervisorTypeOK
  <2>1. 0 \in 0..MaxU32
    BY SupervisorAssumption
  <2> QED
    BY <2>1, Zenon DEF Init, SupervisorInit, SupervisorTypeOK, Points
<1>2. SupervisorInv
  BY <1>1, SupervisorAssumption DEF Init, SupervisorInit, SupervisorInv, ShownAt, CountedAt,
     FreshAt, HasPolicy
<1>3. TypeOK
  BY <1>1 DEF Init, TypeOK, MainPoints, ServerPoints
<1> QED
  BY <1>1, <1>2, <1>3 DEF Init, SupervisorInit, LifecycleInv

\* A step that leaves the supervisors alone keeps what is true of them.
LEMMA SupervisionUnchanged ==
  ASSUME SupervisorInv, UNCHANGED supervision
  PROVE  SupervisorInv'
BY DEF SupervisorInv, SupervisorTypeOK, ShownAt, CountedAt, FreshAt, HasPolicy, supervision

\* A supervisor's step changes neither another worker's supervisor nor, once the
\* worker is disabled, its own; and it spawns none.
LEMMA SupervisorFrame ==
  ASSUME SupervisorInv, NEW w \in Workers, Supervise(w) \/ Ends(w)
  PROVE  /\ sup[w] # "unspawned" /\ sup[w] # "gone"
         /\ \A v \in Workers \ {w} : sup'[v] = sup[v] /\ states'[v] = states[v]
BY DEF SupervisorInv, SupervisorTypeOK, Supervise, Check, Start, Ends, EndsInShutdown,
       EndsForGood, EndsUnderPolicy, Restart, Abandon, MarkFailed, MarkUnhealthy,
       RaiseShutdown, At, Shows

LEMMA StepInv == LifecycleInv /\ [Next]_vars => LifecycleInv'
<1> SUFFICES ASSUME LifecycleInv, [Next]_vars PROVE LifecycleInv'
  OBVIOUS
<1> USE DEF LifecycleInv
<1>1. ASSUME NEW w \in Workers, Supervise(w) \/ Ends(w), UNCHANGED process
      PROVE  LifecycleInv'
  <2>1. SupervisorInv'
    BY <1>1, SupervisorStep
  <2>2. TypeOK'
    BY <1>1, <2>1 DEF SupervisorInv, TypeOK, process
  <2> QED
    BY <1>1, <2>1, <2>2, SupervisorFrame DEF process
<1>2. CASE UNCHANGED vars
  BY <1>2, SupervisionUnchanged DEF vars, process, TypeOK, supervision, SupervisorInv
<1>3. CASE MarkAlive
  <2>1. \A w \in Workers : sup[w] = "unspawned"
    BY <1>3 DEF MarkAlive, MainStep
  <2>2. SupervisorInv'
    BY <1>3, <2>1 DEF MarkAlive, SupervisorInv, SupervisorTypeOK, ShownAt, CountedAt,
       FreshAt, HasPolicy
  <2> QED
    BY <1>3, <2>2 DEF MarkAlive, MainStep, MainPoints, TypeOK, SupervisorInv
<1>4. CASE BootReturns \/ StoreContext \/ SetLatch \/ Return
  <2>1. UNCHANGED supervision
    BY <1>4 DEF BootReturns, StoreContext, SetLatch, Return
  <2>2. SupervisorInv'
    BY <2>1, SupervisionUnchanged
  <2>3. TypeOK'
    BY <1>4, <2>1, <2>2 DEF BootReturns, StoreContext, SetLatch, Return, MainStep,
       MainPoints, TypeOK, SupervisorInv
  <2> QED
    BY <1>4, <2>1, <2>2, <2>3 DEF BootReturns, StoreContext, SetLatch, Return, MainStep,
       TypeOK, supervision
<1>5. CASE Signal
  <2>1. SupervisorInv'
    BY <1>5 DEF Signal, SupervisorInv, SupervisorTypeOK, ShownAt, CountedAt, FreshAt,
       HasPolicy
  <2> QED
    BY <1>5, <2>1 DEF Signal, TypeOK, SupervisorInv, process
<1>6. CASE SpawnWorkers
  <2>1. \A w \in Workers : sup[w] = "unspawned"
    BY <1>6 DEF SpawnWorkers
  <2>2. (~drained /\ server # "context") \/ chosen = Workers
    BY <2>1, <1>6 DEF SpawnWorkers, TypeOK
  <2>3. SupervisorInv'
    BY <1>6, <2>1 DEF SpawnWorkers, SupervisorInv, SupervisorTypeOK, ShownAt, CountedAt,
       FreshAt, HasPolicy, Points
  <2> QED
    BY <1>6, <2>1, <2>2, <2>3 DEF SpawnWorkers, TypeOK, SupervisorInv
<1>7. CASE Bind \/ StopAccepting \/ DrainsEnd \/ EpilogueEnds \/ AcceptFails
  <2>1. UNCHANGED <<supervision, main, booted, chosen, drained>>
    BY <1>7 DEF Bind, StopAccepting, DrainsEnd, EpilogueEnds, AcceptFails
  <2>2. SupervisorInv'
    BY <2>1, SupervisionUnchanged
  <2>3. TypeOK'
    BY <1>7, <2>1, <2>2 DEF Bind, StopAccepting, DrainsEnd, EpilogueEnds, AcceptFails,
       ServerStep, ServerPoints, TypeOK, SupervisorInv
  <2>4. drained => server' \in {"draining", "epilogue", "done"}
    BY <1>7 DEF Bind, StopAccepting, DrainsEnd, EpilogueEnds, AcceptFails, ServerStep
  <2>5. server' # "context"
    BY <1>7 DEF Bind, StopAccepting, DrainsEnd, EpilogueEnds, AcceptFails, ServerStep
  <2>6. /\ server' # "binding"
        /\ spawner = "gone" => spawner' = "gone"
    BY <1>7 DEF Bind, StopAccepting, DrainsEnd, EpilogueEnds, AcceptFails, ServerStep
  <2> QED
    BY <2>1, <2>2, <2>3, <2>4, <2>5, <2>6 DEF supervision
<1>8. CASE ChooseDrains
  <2>1. SupervisorInv'
    BY <1>8, SupervisionUnchanged DEF ChooseDrains
  <2>2. \A w \in Workers : states[w] = "Disabled" => sup[w] = "gone"
    BY SupervisorAssumption DEF SupervisorInv, SupervisorTypeOK, ShownAt, Points
  <2> QED
    BY <1>8, <2>1, <2>2 DEF ChooseDrains, ServerStep, ServerPoints, TypeOK, SupervisorInv,
       supervision
<1>9. CASE StartDrains
  <2>1. SupervisorInv'
    BY <1>9, SupervisionUnchanged DEF StartDrains
  <2>2. TypeOK'
    BY <1>9, <2>1 DEF StartDrains, ServerStep, ServerPoints, TypeOK, SupervisorInv
  <2>3. CASE stored
    BY <1>9, <2>1, <2>2, <2>3 DEF StartDrains, ServerStep, supervision
  <2>4. CASE ~stored
    BY <1>9, <2>1, <2>2, <2>4 DEF StartDrains, ServerStep, TypeOK, supervision
  <2> QED
    BY <2>3, <2>4
<1>10. ASSUME NEW c \in Conns, Accept(c) \/ Answers(c) \/ Drops(c) PROVE LifecycleInv'
  <2>1. UNCHANGED supervision
    BY <1>10 DEF Accept, Answers, Drops
  <2>2. SupervisorInv'
    BY <2>1, SupervisionUnchanged
  <2> QED
    BY <1>10, <2>1, <2>2 DEF Accept, Answers, Drops, TypeOK, SupervisorInv, supervision
<1> QED
  BY <1>1, <1>2, <1>3, <1>4, <1>5, <1>6, <1>7, <1>8, <1>9, <1>10 DEF Next, Main, Server

LEMMA SpecInv == Spec => []LifecycleInv
<1>1. Init => LifecycleInv
  BY InitInv
<1>2. LifecycleInv /\ [Next]_vars => LifecycleInv'
  BY StepInv
<1> QED
  BY <1>1, <1>2, PTL DEF Spec

-----------------------------------------------------------------------------
(* The theorems *)

\* Every variable keeps its type; no count of restarts leaves 32 bits, whatever a
\* policy allows (supervise's saturating_add).
THEOREM TypeCorrect == Spec => []TypeOK
<1>1. LifecycleInv => TypeOK
  BY DEF LifecycleInv
<1> QED
  BY <1>1, SpecInv, PTL

\* A worker nobody runs any more is always disabled, failed in an unhealthy
\* process, or ended in a shutdown (supervise, fail).
THEOREM NoDeadWorkerHidden == Spec => []DeadIsVisible
<1>1. LifecycleInv => DeadIsVisible
  BY DEF LifecycleInv, SupervisorInv, ShownAt, DeadIsVisible
<1> QED
  BY <1>1, SpecInv, PTL

\* A policy grants exactly max_restarts restarts in a row, for every max_restarts
\* a u32 holds (supervise).
THEOREM PolicyIsExact == Spec => []RestartsExact
<1>1. LifecycleInv => RestartsExact
  BY SupervisorAssumption
  DEF LifecycleInv, SupervisorInv, SupervisorTypeOK, CountedAt, RestartsExact
<1> QED
  BY <1>1, SpecInv, PTL

\* A shutdown that drains drains every worker that was ever started
\* (run_worker_drains).
THEOREM StartedWorkersDrained == Spec => []DrainsReachWorkers
<1>1. LifecycleInv => DrainsReachWorkers
  BY DEF LifecycleInv, DrainsReachWorkers
<1> QED
  BY <1>1, SpecInv, PTL

=============================================================================
