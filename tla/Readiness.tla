------------------------------ MODULE Readiness ------------------------------
(***************************************************************************)
(* Runtime readiness (crates/flatbed/src/readiness.rs) and the requests    *)
(* that ask for it (hyper/service.rs).  The registry is a list of gates,   *)
(* each an atomic flag, and one atomic count of the gates that are not     *)
(* ready.  Every atomic operation is one step: a task that flips a gate    *)
(* owes the count a correction between the swap and the fetch_add or       *)
(* fetch_sub, and a request reads the latch, the count and the flags one   *)
(* after the other.                                                        *)
(***************************************************************************)
EXTENDS Integers, Sequences, FiniteSets, SequencesExt

CONSTANTS
  Gates,     \* the dependencies that are registered as gates
  Owners,    \* tasks that hold handles of gates
  Holds,     \* the gates whose handle each owner holds
  Requests,  \* HTTP requests under way at once
  Modulus,   \* 2^64: the count is a usize
  None

ASSUME ReadinessAssumption ==
  /\ IsFiniteSet(Gates) /\ IsFiniteSet(Owners)
  /\ Holds \in [Owners -> SUBSET Gates]
  /\ Modulus \in Nat
  /\ Cardinality(Gates) + Cardinality(Owners) < Modulus

VARIABLES
  registry,  \* Readiness::gates, in registration order
  counted,   \* the gates whose registration has added to the count
  ready,     \* GateState::ready
  blocking,  \* Readiness::blocking
  flip,      \* per owner: the flip it has swapped in and not yet counted
  booted,    \* the boot latch
  request    \* per request: where it is, what it read of the latch, and the
             \* gates named so far

vars == <<registry, counted, ready, blocking, flip, booted, request>>

-----------------------------------------------------------------------------
(* Data *)

Listed == ToSet(registry)

Flips == [gate : Gates, to : BOOLEAN]

ASSUME NoFlipAssumption == None \notin Flips

\* fetch_add(1) and fetch_sub(1) wrap around.
Plus(n) == IF n = Modulus - 1 THEN 0 ELSE n + 1
Minus(n) == IF n = 0 THEN Modulus - 1 ELSE n - 1

Answers == {"served", "BOOTING", "NOT_READY"}
Points == {"latch", "count", "why"} \cup Answers

New == [at |-> "latch", walked |-> None, named |-> FALSE]

Init ==
  /\ registry = <<>> /\ counted = {}
  /\ ready = [g \in Gates |-> FALSE]
  /\ blocking = 0
  /\ flip = [o \in Owners |-> None]
  /\ booted = FALSE
  /\ request = [r \in Requests |-> New]

-----------------------------------------------------------------------------
(* Gates *)

\* `blocked_on` holds the registry's lock while it walks the gates.
Locked == \E r \in Requests : request[r].walked # None

\* Mutant: the gate is listed before it is counted.
ListFirst(g) ==
  /\ g \notin Listed /\ ~Locked
  /\ registry' = Append(registry, g)
  /\ UNCHANGED <<counted, ready, blocking, flip, booted, request>>

\* `gate`: the gate is counted, then listed, and only then handed out.
Count(g) ==
  /\ g \notin counted
  /\ counted' = counted \cup {g}
  /\ blocking' = Plus(blocking)
  /\ UNCHANGED <<registry, ready, flip, booted, request>>

List(g) ==
  /\ g \in counted /\ g \notin Listed /\ ~Locked
  /\ registry' = Append(registry, g)
  /\ UNCHANGED <<counted, ready, blocking, flip, booted, request>>

\* Mutant: a value that changes nothing is counted as well.
SetReadyUnchecked(o, g, to) ==
  /\ flip[o] = None /\ g \in Holds[o] /\ g \in Listed
  /\ ready' = [ready EXCEPT ![g] = to]
  /\ flip' = [flip EXCEPT ![o] = [gate |-> g, to |-> to]]
  /\ UNCHANGED <<registry, counted, blocking, booted, request>>

\* `set_ready`: the swap; a value that changes nothing returns.
SetReady(o, g, to) ==
  /\ flip[o] = None /\ g \in Holds[o] /\ g \in Listed
  /\ ready[g] # to
  /\ ready' = [ready EXCEPT ![g] = to]
  /\ flip' = [flip EXCEPT ![o] = [gate |-> g, to |-> to]]
  /\ UNCHANGED <<registry, counted, blocking, booted, request>>

\* `set_ready`: the correction of the count.
Correct(o) ==
  /\ flip[o] # None
  /\ blocking' = IF flip[o].to THEN Minus(blocking) ELSE Plus(blocking)
  /\ flip' = [flip EXCEPT ![o] = None]
  /\ UNCHANGED <<registry, counted, ready, booted, request>>

\* The boot function has returned a context.
Boot ==
  /\ ~booted
  /\ booted' = TRUE
  /\ UNCHANGED <<registry, counted, ready, blocking, flip, request>>

-----------------------------------------------------------------------------
(* Requests *)

Moves(r, to) ==
  /\ request' = [request EXCEPT ![r] = to]
  /\ UNCHANGED <<registry, counted, ready, blocking, flip, booted>>

\* `ServiceContext::is_ready`: the latch, and if it is set the count.
ReadLatch(r) ==
  /\ request[r].at = "latch"
  /\ Moves(r, [request[r] EXCEPT !.at = IF booted THEN "count" ELSE "why"])

ReadCount(r) ==
  /\ request[r].at = "count"
  /\ Moves(r, [request[r] EXCEPT !.at = IF blocking = 0 THEN "served" ELSE "why"])

\* `blocked_gates`: the latch again; `blocked_on` takes the registry's lock.
ReadLatchAgain(r) ==
  /\ request[r].at = "why" /\ request[r].walked = None
  /\ \/ ~booted /\ Moves(r, [request[r] EXCEPT !.at = "BOOTING"])
     \/ booted /\ ~Locked /\ Moves(r, [request[r] EXCEPT !.walked = 0])

\* The walk reads one gate after the other, then lets go of the lock.
ReadGate(r) ==
  /\ request[r].walked # None /\ request[r].walked < Len(registry)
  /\ LET i == request[r].walked + 1 IN
       Moves(r, [request[r] EXCEPT !.walked = i, !.named = @ \/ ~ready[registry[i]]])

Answer(r) ==
  /\ request[r].walked = Len(registry)
  /\ Moves(r, [request[r] EXCEPT !.at = IF request[r].named THEN "NOT_READY" ELSE "BOOTING",
                                 !.walked = None])

\* The answer is sent and another request arrives.
Arrive(r) ==
  /\ request[r].at \in Answers
  /\ Moves(r, New)

Request(r) ==
  \/ ReadLatch(r) \/ ReadCount(r) \/ ReadLatchAgain(r) \/ ReadGate(r)
  \/ Answer(r) \/ Arrive(r)

Next ==
  \/ \E g \in Gates : Count(g) \/ List(g)
  \/ \E o \in Owners :
       (\E g \in Gates, to \in BOOLEAN : SetReady(o, g, to)) \/ Correct(o)
  \/ Boot
  \/ \E r \in Requests : Request(r)

Spec == Init /\ [][Next]_vars

\* A task inside set_ready is not stopped between its two atomic operations.
Fairness == \A o \in Owners : WF_vars(Correct(o))

FairSpec == Spec /\ Fairness

-----------------------------------------------------------------------------
(* Properties *)

TypeOK ==
  /\ registry \in Seq(Gates) /\ counted \subseteq Gates
  /\ ready \in [Gates -> BOOLEAN]
  /\ blocking \in 0..(Modulus - 1)
  /\ flip \in [Owners -> Flips \cup {None}]
  /\ booted \in BOOLEAN
  /\ request \in [Requests -> [at : Points, named : BOOLEAN,
                               walked : 0..Len(registry) \cup {None}]]

Down == {g \in counted : ~ready[g]}

\* Who has still to take one from the count, and who to add one to it.
Taking == {o \in Owners : flip[o] # None /\ flip[o].to}
Adding == {o \in Owners : flip[o] # None /\ ~flip[o].to}

Owed == Cardinality(Down) + Cardinality(Taking) - Cardinality(Adding)

\* The count is the number of gates that are not ready, give or take exactly the
\* flips not yet counted, however many owners flip the same gate at once; it may
\* wrap below zero in between (gate, set_ready).
CountExact == blocking = IF Owed < 0 THEN Owed + Modulus ELSE Owed

Settled(g) == \A o \in Owners : flip[o] = None \/ flip[o].gate # g

Sole(g) == \A o, p \in Owners : g \in Holds[o] /\ g \in Holds[p] => o = p

\* The count never hides a gate that is down and at rest, unless a clone of some
\* other gate is between its swap and its correction: gates that have one owner
\* each, however fast they flip, hide nothing (is_ready, set_ready).
HiddenOnlyByClones ==
  blocking = 0 =>
    \/ \A g \in Listed : Settled(g) => ready[g]
    \/ \E o \in Adding : ~Sole(flip[o].gate)

\* Once every gate is up for good the server becomes ready and stays so: the
\* corrections under way cancel out, with no flip lost or counted twice.
RecoveryShows == <>[](Down = {}) => <>[](blocking = 0)

=============================================================================
