------------------------------ MODULE LocalQueue ------------------------------
(***************************************************************************)
(* A local queue worker (crates/flatbed/src/local_queue.rs): the bounded,  *)
(* keyed, in-process queue that producers fill through LocalQueueSender,   *)
(* and the executor (`serve`, `handle_messages`) that handles one message  *)
(* at a time while the process leads.                                      *)
(*                                                                         *)
(* Every section of the code that runs under the queue's mutex is one step.*)
(* A producer notifies after it has left the mutex, so its push and its    *)
(* notification are two steps; so are the executor's look at an empty line *)
(* and its wait for the notification.  `Notify` (tokio) keeps one permit   *)
(* when nobody waits.                                                      *)
(***************************************************************************)
EXTENDS KeyedLine

CONSTANTS
  Keys,          \* the coalescing keys
  Payloads,      \* what tells two messages of one key apart
  Producers,     \* tasks of the process that hold a LocalQueueSender
  Capacity,      \* CAPACITY
  DeadCapacity,  \* DEAD_LETTER_CAPACITY
  MaxAttempts,   \* MAX_ATTEMPTS, with 0 for None
  MaxU32,        \* the largest attempt count the code can hold (2^32 - 1)
  HasTimeout,    \* whether HANDLE_TIMEOUT is set
  HaModes,       \* the values ha_enabled() may have
  MaxCrashes,    \* bound: how often the worker task unwinds and is restarted
  None           \* Option::None

ASSUME QueueAssumption ==
  /\ Capacity \in Nat
  /\ DeadCapacity \in Nat
  /\ MaxU32 \in Nat \ {0}
  /\ MaxAttempts \in 0..MaxU32
  /\ HasTimeout \in BOOLEAN
  /\ HaModes \subseteq BOOLEAN
  /\ MaxCrashes \in Nat
  /\ None \notin Payloads

VARIABLES
  queued,     \* State::queued, the line
  inFlight,   \* State::in_flight
  dead,       \* State::dead, oldest first
  permit,     \* the permit stored in Shared::wake
  prod,       \* per producer: "idle", or "notify" between unlock and notify_one
  pc,         \* where the executor is
  msg,        \* handle_messages' local copy of the message being handled
  crashes,    \* how often the worker task has unwound
  ha,         \* ha_enabled(), fixed for the life of the process
  leader,     \* the value of the is_leader watch
  chanOpen,   \* whether the is_leader sender is alive
  runs        \* history: runs of `handle` for a key since its count was cleared

line == <<queued, inFlight, dead>>
election == <<ha, leader, chanOpen>>
vars == <<queued, inFlight, dead, permit, prod, pc, msg, crashes, ha, leader,
          chanOpen, runs>>

-----------------------------------------------------------------------------
(* Data *)

\* last_reason, by the outcome that left it
Reasons == {"none", "retry", "failed"}
Causes == {"Exhausted", "TimedOut", "Failed"}

Entry == [key : Keys, msg : Payloads, attempts : 0..MaxU32, reason : Reasons]
InHand == [key : Keys, attempts : 1..MaxU32, reason : Reasons]
Aside == [key : Keys, msg : Payloads, cause : Causes, attempts : 1..MaxU32,
          reason : Reasons]

ASSUME NoHandAssumption == None \notin InHand

Fresh(k, m) == [key |-> k, msg |-> m, attempts |-> 0, reason |-> "none"]

InHandKey(k) == inFlight # None /\ inFlight.key = k

Held == Len(queued) + (IF inFlight = None THEN 0 ELSE 1)

\* Mutant: the message in hand takes no room.
HasRoomForQueued == Len(queued) < Capacity

HasRoom == Held < Capacity

\* u32::saturating_add(1)
Bumped(n) == IF n = MaxU32 THEN n ELSE n + 1

Cleared(r, k) == [r EXCEPT ![k] = 0]

Status(k) ==
  CASE InHandKey(k) -> "InHand"
    [] ~InHandKey(k) /\ HasKey(queued, k) -> "Queued"
    [] ~InHandKey(k) /\ ~HasKey(queued, k) /\ HasKey(dead, k) -> "DeadLettered"
    [] OTHER -> "Absent"

StatusOf == [k \in Keys |-> Status(k)]

\* What a producer can observe.
Lifecycle == INSTANCE KeyLifecycle WITH status <- StatusOf

-----------------------------------------------------------------------------
(* Executor control points.  The executor yields to the runtime, and can   *)
(* be cancelled by a leadership loss, only at an await point.              *)

AwaitPoints == {"settle", "parked", "woken", "handling", "retryDelay", "hook"}
ControlPoints ==
  AwaitPoints \cup {"new", "down", "ended", "follower", "look", "listen"}

Init ==
  /\ queued = <<>> /\ inFlight = None /\ dead = <<>>
  /\ permit = FALSE
  /\ prod = [p \in Producers |-> "idle"]
  /\ pc = "new" /\ msg = None /\ crashes = 0
  /\ ha \in HaModes
  /\ leader = FALSE /\ chanOpen = TRUE
  /\ runs = [k \in Keys |-> 0]

-----------------------------------------------------------------------------
(* Producers *)

\* Mutant: a dead key is admitted again.
AdmitsDead(k) == ~HasKey(queued, k) /\ HasRoom

\* `send`: refused for a dead key and for a new key without room, and without
\* effect on a key already queued.
Admits(k) == ~HasKey(dead, k) /\ ~HasKey(queued, k) /\ HasRoom

Send(p, k, m) ==
  /\ prod[p] = "idle"
  /\ \/ /\ Admits(k)
        /\ queued' = Append(queued, Fresh(k, m))
        /\ prod' = [prod EXCEPT ![p] = "notify"]
     \/ /\ ~Admits(k)
        /\ UNCHANGED <<queued, prod>>
  /\ UNCHANGED <<inFlight, dead, permit, pc, msg, crashes, election, runs>>

\* `requeue`: without room the key stays set aside.
Requeue(p, k) ==
  /\ prod[p] = "idle"
  /\ HasKey(dead, k) /\ HasRoom
  /\ queued' = Append(queued, Fresh(k, dead[IndexOfKey(dead, k)].msg))
  /\ dead' = WithoutKey(dead, k)
  /\ prod' = [prod EXCEPT ![p] = "notify"]
  /\ UNCHANGED <<inFlight, permit, pc, msg, crashes, election, runs>>

\* `forget`
Forget(p, k) ==
  /\ prod[p] = "idle"
  /\ HasKey(dead, k)
  /\ dead' = WithoutKey(dead, k)
  /\ UNCHANGED <<queued, inFlight, permit, prod, pc, msg, crashes, election, runs>>

\* Mutant: notify_waiters, which leaves no permit.
NotifyWaiters(p) ==
  /\ prod[p] = "notify"
  /\ prod' = [prod EXCEPT ![p] = "idle"]
  /\ pc' = IF pc = "parked" THEN "woken" ELSE pc
  /\ UNCHANGED <<permit, line, msg, crashes, election, runs>>

\* `notify_one`: wakes the waiting executor, or leaves the permit.
Notify(p) ==
  /\ prod[p] = "notify"
  /\ prod' = [prod EXCEPT ![p] = "idle"]
  /\ IF pc = "parked"
     THEN pc' = "woken" /\ UNCHANGED permit
     ELSE permit' = TRUE /\ UNCHANGED pc
  /\ UNCHANGED <<line, msg, crashes, election, runs>>

-----------------------------------------------------------------------------
(* The executor *)

\* Mutant: a restarted worker leaves the old message in hand.
ServeKeepsHand ==
  /\ pc \in {"new", "down", "ended"}
  /\ pc' = IF ha THEN "follower" ELSE "settle"
  /\ UNCHANGED <<line, permit, prod, msg, crashes, election, runs>>

\* `serve` starts, the first time or when the supervisor restarts a worker that
\* unwound or returned: the message that was in hand is dropped, the line and the
\* dead letters stay.
Serve ==
  /\ pc \in {"new", "down", "ended"}
  /\ pc' = IF ha THEN "follower" ELSE "settle"
  /\ inFlight' = None
  /\ runs' = IF inFlight = None THEN runs ELSE Cleared(runs, inFlight.key)
  /\ UNCHANGED <<queued, dead, permit, prod, msg, crashes, election>>

\* `wait_for_leadership` returns true.
SeesLeadership ==
  /\ pc = "follower" /\ leader
  /\ pc' = "settle"
  /\ UNCHANGED <<line, permit, prod, msg, crashes, election, runs>>

\* `wait_for_leadership` returns false: the election is gone, `serve` returns.
ServeReturns ==
  /\ pc = "follower" /\ ~leader /\ ~chanOpen
  /\ pc' = "ended"
  /\ UNCHANGED <<line, permit, prod, msg, crashes, election, runs>>

\* The SETTLE pause, and the RETRY_DELAY pause, end.
PauseEnds ==
  /\ pc \in {"settle", "retryDelay"}
  /\ pc' = "look"
  /\ UNCHANGED <<line, permit, prod, msg, crashes, election, runs>>

\* `next` takes the head of the line in hand.
Take ==
  /\ pc \in {"look", "woken"} /\ queued # <<>>
  /\ LET e == Head(queued) IN
       /\ inFlight' = [key |-> e.key, attempts |-> Bumped(e.attempts),
                       reason |-> e.reason]
       /\ msg' = e.msg
       /\ runs' = [runs EXCEPT ![e.key] = Bumped(@)]
  /\ queued' = Tail(queued)
  /\ pc' = "handling"
  /\ UNCHANGED <<dead, permit, prod, crashes, election>>

\* `next` finds the line empty.
FindsNothing ==
  /\ pc \in {"look", "woken"} /\ queued = <<>>
  /\ pc' = "listen"
  /\ UNCHANGED <<line, permit, prod, msg, crashes, election, runs>>

\* The first poll of `notified()` uses up the permit or registers as waiting.
Listen ==
  /\ pc = "listen"
  /\ pc' = IF permit THEN "look" ELSE "parked"
  /\ permit' = FALSE
  /\ UNCHANGED <<line, prod, msg, crashes, election, runs>>

\* The attempt is over and nothing more happens to the message: Done.
HandleDone ==
  /\ pc = "handling"
  /\ inFlight' = None /\ msg' = None
  /\ runs' = Cleared(runs, inFlight.key)
  /\ pc' = "look"
  /\ UNCHANGED <<queued, dead, permit, prod, crashes, election>>

\* Mutant: one attempt too many.
IsPastLastAttempt == MaxAttempts # 0 /\ inFlight.attempts > MaxAttempts

IsLastAttempt == MaxAttempts # 0 /\ inFlight.attempts >= MaxAttempts

\* Mutants: the resend keeps its own count; the resend is overwritten by the
\* message that failed.
RetryResendAsIs ==
  /\ pc = "handling" /\ ~IsLastAttempt
  /\ LET k == inFlight.key IN
       queued' = IF HasKey(queued, k) THEN queued
                 ELSE Append(queued, [key |-> k, msg |-> msg, reason |-> "retry",
                                      attempts |-> inFlight.attempts])
  /\ inFlight' = None /\ msg' = None
  /\ pc' = "retryDelay"
  /\ UNCHANGED <<dead, permit, prod, crashes, election, runs>>

RetryOverResend ==
  /\ pc = "handling" /\ ~IsLastAttempt
  /\ LET k == inFlight.key
         back == [key |-> k, msg |-> msg, attempts |-> inFlight.attempts,
                  reason |-> "retry"]
     IN queued' = IF HasKey(queued, k)
                  THEN ReplaceAt(queued, IndexOfKey(queued, k), back)
                  ELSE Append(queued, back)
  /\ inFlight' = None /\ msg' = None
  /\ pc' = "retryDelay"
  /\ UNCHANGED <<dead, permit, prod, crashes, election, runs>>

\* `retry` below the limit: a resend of the key that was queued meanwhile takes
\* over the count and keeps its place and payload; else the message goes to the
\* back of the line, in the room it held while in hand.
HandleRetry ==
  /\ pc = "handling" /\ ~IsLastAttempt
  /\ LET k == inFlight.key
         back(m) == [key |-> k, msg |-> m, attempts |-> inFlight.attempts,
                     reason |-> "retry"]
         i == IndexOfKey(queued, k)
     IN queued' = IF HasKey(queued, k)
                  THEN ReplaceAt(queued, i, back(queued[i].msg))
                  ELSE Append(queued, back(msg))
  /\ inFlight' = None /\ msg' = None
  /\ pc' = "retryDelay"
  /\ UNCHANGED <<dead, permit, prod, crashes, election, runs>>

\* `set_aside`, then the dead_letter hook starts.
SetAside(cause, reason) ==
  LET k == inFlight.key
      letter == [key |-> k, msg |-> msg, cause |-> cause,
                 attempts |-> inFlight.attempts, reason |-> reason]
  IN /\ queued' = WithoutKey(queued, k)
     /\ dead' = Newest(Append(dead, letter), DeadCapacity)
     /\ inFlight' = None /\ msg' = None
     /\ runs' = Cleared(runs, k)
     /\ pc' = "hook"
     /\ UNCHANGED <<permit, prod, crashes, election>>

HandleExhausted ==
  pc = "handling" /\ IsLastAttempt /\ SetAside("Exhausted", "retry")

\* An Err, or a panic of the future `handle` returned.
HandleFailed == pc = "handling" /\ SetAside("Failed", "failed")

HandleTimedOut ==
  pc = "handling" /\ HasTimeout /\ SetAside("TimedOut", inFlight.reason)

\* `handle` and `dead_letter` are called before `catch_unwind` wraps the future
\* they return: a panic in the call itself unwinds the worker's task.
WorkerUnwinds ==
  /\ pc \in {"handling", "hook"} /\ crashes < MaxCrashes
  /\ crashes' = crashes + 1
  /\ pc' = "down" /\ msg' = None
  /\ UNCHANGED <<line, permit, prod, election, runs>>

\* The hook returns, panics or times out.
HookEnds ==
  /\ pc = "hook"
  /\ pc' = "look"
  /\ UNCHANGED <<line, permit, prod, msg, crashes, election, runs>>

\* Mutant: the dead letters outlive the term.
LossKeepsDead ==
  /\ ha /\ pc \in AwaitPoints /\ (~leader \/ ~chanOpen)
  /\ queued' = <<>> /\ inFlight' = None
  /\ permit' = (permit \/ pc = "woken")
  /\ runs' = [k \in Keys |-> 0]
  /\ msg' = None
  /\ pc' = "follower"
  /\ UNCHANGED <<dead, prod, crashes, election>>

\* `wait_for_leadership_loss` returns: handle_messages is dropped (a wake-up it
\* has not seen yet goes back to the Notify) and `clear` empties the queue.
LossNoticed ==
  /\ ha /\ pc \in AwaitPoints /\ (~leader \/ ~chanOpen)
  /\ queued' = <<>> /\ inFlight' = None /\ dead' = <<>>
  /\ permit' = (permit \/ pc = "woken")
  /\ runs' = [k \in Keys |-> 0]
  /\ msg' = None
  /\ pc' = "follower"
  /\ UNCHANGED <<prod, crashes, election>>

HandleEnds ==
  HandleDone \/ HandleRetry \/ HandleExhausted \/ HandleFailed \/ HandleTimedOut

Executor ==
  \/ Serve \/ SeesLeadership \/ ServeReturns \/ PauseEnds
  \/ Take \/ FindsNothing \/ Listen
  \/ HandleEnds \/ HookEnds \/ LossNoticed

-----------------------------------------------------------------------------
(* The election: external, known through the is_leader watch.  A watch     *)
(* keeps only its last value.                                              *)

ElectionChanges ==
  /\ ha /\ chanOpen
  /\ \/ leader' = ~leader /\ UNCHANGED chanOpen
     \/ chanOpen' = FALSE /\ UNCHANGED leader
  /\ UNCHANGED <<line, permit, prod, pc, msg, crashes, ha, runs>>

Next ==
  \/ \E p \in Producers, k \in Keys :
       (\E m \in Payloads : Send(p, k, m)) \/ Requeue(p, k) \/ Forget(p, k)
  \/ \E p \in Producers : Notify(p)
  \/ Executor \/ WorkerUnwinds
  \/ ElectionChanges

Spec == Init /\ [][Next]_vars

\* The runtime polls a task that can run; a select polls its loss branch at
\* every await point, so a loss that lasts is seen although handle_messages
\* goes on in between; handle and the hook return or run into HANDLE_TIMEOUT.
Fairness ==
  /\ WF_vars(Executor)
  /\ SF_vars(LossNoticed)
  /\ \A p \in Producers : WF_vars(Notify(p))

FairSpec == Spec /\ Fairness

-----------------------------------------------------------------------------
(* Properties *)

\* Every variable holds a value the code's types allow.
TypeOK ==
  /\ queued \in Seq(Entry)
  /\ inFlight \in InHand \cup {None}
  /\ dead \in Seq(Aside)
  /\ permit \in BOOLEAN
  /\ prod \in [Producers -> {"idle", "notify"}]
  /\ pc \in ControlPoints
  /\ msg \in Payloads \cup {None}
  /\ crashes \in 0..MaxCrashes
  /\ ha \in BOOLEAN /\ leader \in BOOLEAN /\ chanOpen \in BOOLEAN
  /\ runs \in [Keys -> 0..MaxU32]

\* A key has one place: at most once in the line, at most once among the dead
\* letters, and a key set aside is neither in the line nor in hand, whatever
\* resends, requeues and retries meet (send, requeue, retry, set_aside).
OnePlacePerKey ==
  /\ KeysDistinct(queued)
  /\ KeysDistinct(dead)
  /\ \A k \in Keys : HasKey(dead, k) => ~HasKey(queued, k) /\ ~InHandKey(k)

\* At most CAPACITY messages are held, the one in hand included, although a
\* retry re-enters the line without asking for room; at most
\* DEAD_LETTER_CAPACITY are set aside (has_room, retry, set_aside).
WithinCapacity == Held <= Capacity /\ Len(dead) <= DeadCapacity

\* The attempts recorded for a key are the runs of `handle` since its count was
\* last cleared; a resend queued during the key's own handling starts at 0 until
\* a retry hands it the count (next, retry, set_aside).
AttemptsCounted ==
  /\ inFlight # None => inFlight.attempts = runs[inFlight.key]
  /\ \A i \in 1..Len(queued) :
       queued[i].attempts =
         IF InHandKey(queued[i].key) THEN 0 ELSE runs[queued[i].key]
  /\ \A k \in Keys : ~HasKey(queued, k) /\ ~InHandKey(k) => runs[k] = 0

\* `handle` runs at most MAX_ATTEMPTS times for a key before its count is
\* cleared, and a letter says Exhausted only after exactly that many.
AttemptsBounded ==
  MaxAttempts # 0 =>
    /\ \A k \in Keys : runs[k] <= MaxAttempts
    /\ \A i \in 1..Len(dead) :
         /\ dead[i].attempts <= MaxAttempts
         /\ dead[i].cause = "Exhausted" => dead[i].attempts = MaxAttempts

\* While a message is handled the queue has it in hand, so `retry` and `fail`
\* never meet an empty in_flight and lose the message; in hand without being
\* handled is only what a stopped worker left behind.
HandledIsInHand ==
  /\ pc = "handling" => inFlight # None /\ msg # None
  /\ inFlight # None => pc \in {"handling", "down"}

\* The executor never sleeps on a line with messages unless a producer is about
\* to notify it (send, requeue, next).
NoLostWakeup ==
  pc = "parked" /\ queued # <<>> => \E p \in Producers : prod[p] = "notify"

\* Nobody overtakes: a message that stays in the line keeps its payload and only
\* moves forward, through resends, retries of its key and set-asides of others.
LineKept ==
  [][\A k \in Keys : HasKey(queued, k) /\ HasKey(queued', k) =>
       LET i == IndexOfKey(queued, k)
           j == IndexOfKey(queued', k)
       IN j <= i /\ queued'[j].msg = queued[i].msg]_queued

\* A message set aside is kept as the youngest letter, and when the dead letters
\* are full it costs the oldest one only (set_aside).
OldestEvictedFirst ==
  [][pc = "handling" /\ pc' = "hook" /\ DeadCapacity > 0 =>
       /\ dead' # <<>> /\ Last(dead').key = inFlight.key
       /\ \A i \in 2..Len(dead) : HasKey(dead', dead[i].key)]_vars

\* As `status` tells it, each key lives the life KeyLifecycle describes: one key
\* in hand at a time, in hand only from the line, set aside only from the hand,
\* back only through requeue, forget, eviction or a lost leadership.
ImplementsLifecycle == Lifecycle!Spec

-----------------------------------------------------------------------------
(* Liveness *)

Serving == ~ha \/ (leader /\ chanOpen)
Following == ha /\ ~leader /\ chanOpen
NothingOfTheTerm == dead = <<>> /\ inFlight = None

\* While the process leads for good, or needs no leader, every queued message is
\* taken in the end, or gives way to the set-aside of its key: no wake-up is
\* lost, no retry starves the others, no restart strands the line.
QueuedIsTaken ==
  <>[]Serving => \A k \in Keys : HasKey(queued, k) ~> ~HasKey(queued, k)

\* A worker that never unwinds discards, once leadership is lost for good, what
\* the ended term left in hand or set aside (serve, clear).
UnbrokenWorkerDiscards ==
  [](crashes = 0) /\ <>[]Following => <>[]NothingOfTheTerm

\* The documentation's promise on outcomes: an Err, a panic or a timeout sets the
\* message aside, and none of these stop the worker.
PanicKeepsWorker == [][(pc \in {"handling", "hook"}) => (pc' # "down")]_vars

=============================================================================
