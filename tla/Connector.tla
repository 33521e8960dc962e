------------------------------ MODULE Connector ------------------------------
(***************************************************************************)
(* The managed NATS connection (crates/flatbed/src/nats_connect.rs) and    *)
(* the readiness gate it drives.  The task that boots the service dials    *)
(* until an attempt succeeds or the deadline has passed, and marks the     *)
(* gate; from the moment the client exists its event task sets the same    *)
(* gate, through a clone of its own, as the link comes and goes.  Both go  *)
(* through the two atomic operations of module Readiness.                  *)
(*                                                                         *)
(* Time is a clock of whole units that starts with the first attempt.      *)
(***************************************************************************)
EXTENDS Integers, Sequences, FiniteSets

CONSTANTS
  Gates, Owners, Holds, Modulus, None,  \* see Readiness
  Nats,            \* the gate given to the connector
  BootTask,        \* the owner that runs connect_with_retry
  EventTask,       \* the owner that runs the client's event callback
  Errors,          \* what a connect attempt can report
  MinBackoff, MaxBackoff,
  Deadline,        \* Connector::deadline
  AttemptTimeout,  \* Connector::attempt_timeout
  MaxShift,        \* MAX_BACKOFF_SHIFT
  MaxLinkChanges   \* bound: how often the link of a client changes

ASSUME ConnectorAssumption ==
  /\ Nats \in Gates
  /\ BootTask \in Owners /\ EventTask \in Owners /\ BootTask # EventTask
  /\ Nats \in Holds[BootTask] /\ Nats \in Holds[EventTask]
  \* The application hands its clone over, and keeps none.
  /\ \A o \in Owners \ {BootTask, EventTask} : Nats \notin Holds[o]
  /\ None \notin Errors
  /\ MinBackoff \in Nat /\ MaxBackoff \in Nat /\ MinBackoff <= MaxBackoff
  /\ Deadline \in Nat /\ AttemptTimeout \in Nat
  /\ MaxShift \in Nat /\ MaxLinkChanges \in Nat

VARIABLES
  registry, counted, ready, blocking, flip, booted,  \* see Readiness
  clock,      \* started.elapsed()
  at,         \* where connect_with_retry is
  due,        \* when the attempt is cut, or the pause ends
  attempts,
  lastError,
  finished,   \* what every attempt so far ended with, None for a timeout
  failure,    \* the error connect_with_retry has returned
  link,       \* the client's connection
  changes,    \* how often it has changed
  inbox,      \* events the client has sent and its event task has not taken
  lastWord    \* whether the mark or an event has spoken last about the gate

gateVars == <<registry, counted, ready, blocking, flip, booted>>
dialVars == <<clock, at, due, attempts, lastError, finished, failure>>
linkVars == <<link, changes, inbox, lastWord>>
vars == <<gateVars, dialVars, linkVars>>

R == INSTANCE Readiness WITH Requests <- {}, request <- <<>>

-----------------------------------------------------------------------------
(* Back-off *)

Least(m, n) == IF m <= n THEN m ELSE n

\* `backoff`: half of a doubling ramp and a spread over the other half.
Ramp(attempt) ==
  Least(MinBackoff * 2^Least(attempt - 1, MaxShift), MaxBackoff)

Delays(attempt) ==
  LET half == Ramp(attempt) \div 2 IN
  IF half = 0 THEN {0} ELSE half .. (2 * half - 1)

-----------------------------------------------------------------------------
(* The first connect *)

Places == {"start", "loop", "dialing", "sleeping", "marking", "correcting",
           "connected", "failed"}
Kinds == {"CredentialsUnreadable", "CredentialsInvalid", "Unreachable"}
Or(source, other) == IF source # None THEN source ELSE other

Init ==
  /\ R!Init
  /\ clock = 0 /\ at = "start" /\ due = 0
  /\ attempts = 0 /\ lastError = None /\ finished = <<>> /\ failure = None
  /\ link = "none" /\ changes = 0 /\ inbox = <<>> /\ lastWord = "none"

Fail(kind, source) ==
  /\ at' = "failed"
  /\ failure' = [kind |-> kind, source |-> source]

\* `read_credentials`: an unreadable file ends the connect before it starts.
\* The application has been handed the gate before it dials.
ReadCredentials ==
  /\ at = "start" /\ Nats \in R!Listed
  /\ \/ Fail("CredentialsUnreadable", None)
     \/ at' = "loop" /\ UNCHANGED failure
  /\ UNCHANGED <<gateVars, linkVars, clock, due, attempts, lastError, finished>>

\* `options`: credentials that do not parse are found before the first attempt.
RejectCredentials ==
  /\ at = "loop" /\ clock < Deadline /\ attempts = 0
  /\ Fail("CredentialsInvalid", None)
  /\ UNCHANGED <<gateVars, linkVars, clock, due, attempts, lastError, finished>>

\* Mutant: only the attempt's own timeout cuts it.
DialUncut ==
  /\ at = "loop" /\ clock < Deadline
  /\ attempts' = attempts + 1
  /\ due' = clock + AttemptTimeout
  /\ at' = "dialing"
  /\ UNCHANGED <<gateVars, linkVars, clock, lastError, finished, failure>>

Dial ==
  /\ at = "loop" /\ clock < Deadline
  /\ attempts' = attempts + 1
  /\ due' = clock + Least(Deadline - clock, AttemptTimeout)
  /\ at' = "dialing"
  /\ UNCHANGED <<gateVars, linkVars, clock, lastError, finished, failure>>

\* The budget has run out at the head of the loop.
RunOut ==
  /\ at = "loop" /\ clock >= Deadline
  /\ Fail("Unreachable", lastError)
  /\ UNCHANGED <<gateVars, linkVars, clock, due, attempts, lastError, finished>>

\* Mutant: a timeout forgets the failure reported before it.
DialEndsForgets(source) ==
  /\ at = "dialing"
  /\ finished' = Append(finished, source)
  /\ \E delay \in Delays(attempts) :
       \/ /\ clock + delay >= Deadline
          /\ Fail("Unreachable", source)
          /\ UNCHANGED <<due, lastError>>
       \/ /\ clock + delay < Deadline
          /\ lastError' = source
          /\ due' = clock + delay /\ at' = "sleeping"
          /\ UNCHANGED failure
  /\ UNCHANGED <<gateVars, linkVars, clock, attempts>>

\* An attempt fails or is cut: give up if the pause would reach the deadline.
DialEnds(source) ==
  /\ at = "dialing"
  /\ finished' = Append(finished, source)
  /\ \E delay \in Delays(attempts) :
       \/ /\ clock + delay >= Deadline
          /\ Fail("Unreachable", Or(source, lastError))
          /\ UNCHANGED <<due, lastError>>
       \/ /\ clock + delay < Deadline
          /\ lastError' = Or(source, lastError)
          /\ due' = clock + delay /\ at' = "sleeping"
          /\ UNCHANGED failure
  /\ UNCHANGED <<gateVars, linkVars, clock, attempts>>

DialFails == \E e \in Errors : DialEnds(e)
DialTimesOut == clock = due /\ DialEnds(None)

Wake ==
  /\ at = "sleeping" /\ clock = due
  /\ at' = "loop"
  /\ UNCHANGED <<gateVars, linkVars, clock, due, attempts, lastError, finished,
                 failure>>

\* The client exists and has sent its first event.
DialSucceeds ==
  /\ at = "dialing"
  /\ at' = "marking"
  /\ link' = "up" /\ inbox' = <<"Connected">>
  /\ UNCHANGED <<gateVars, clock, due, attempts, lastError, finished, failure,
                 changes, lastWord>>

\* `mark_connected`: set_ready by the task that boots.
Mark ==
  /\ at = "marking"
  /\ \/ ready[Nats] /\ at' = "connected" /\ UNCHANGED gateVars
     \/ R!SetReady(BootTask, Nats, TRUE) /\ at' = "correcting"
  /\ lastWord' = "mark"
  /\ UNCHANGED <<clock, due, attempts, lastError, finished, failure,
                 link, changes, inbox>>

MarkCounted ==
  /\ at = "correcting"
  /\ R!Correct(BootTask)
  /\ at' = "connected"
  /\ UNCHANGED <<linkVars, clock, due, attempts, lastError, finished, failure>>

\* Timers fire when they are due; between attempts the task may be kept waiting.
Tick ==
  /\ \/ at \in {"dialing", "sleeping"} /\ clock < due
     \/ at = "loop" /\ clock < Deadline
  /\ clock' = clock + 1
  /\ UNCHANGED <<gateVars, linkVars, at, due, attempts, lastError, finished,
                 failure>>

-----------------------------------------------------------------------------
(* The client and its events *)

Events == {"Connected", "Disconnected", "Draining", "Closed", "Other"}

Says(event, to) ==
  /\ changes < MaxLinkChanges
  /\ link' = to /\ changes' = changes + 1
  /\ inbox' = Append(inbox, event)
  /\ UNCHANGED <<gateVars, dialVars, lastWord>>

LinkChanges ==
  \/ link = "up" /\ Says("Disconnected", "down")
  \/ link = "down" /\ Says("Connected", "up")
  \/ link \in {"up", "down"} /\ \E e \in {"Draining", "Closed"} : Says(e, "ended")
  \/ link = "up" /\ Says("Other", "up")

\* Mutant: a client that is drained or closed leaves the gate alone.
TellsOpenOnly(event) ==
  CASE event = "Connected" -> {TRUE}
    [] event = "Disconnected" -> {FALSE}
    [] OTHER -> {}

\* `on_event`: what an event says about the gate, if it says anything.
Tells(event) ==
  CASE event = "Connected" -> {TRUE}
    [] event \in {"Disconnected", "Draining", "Closed"} -> {FALSE}
    [] OTHER -> {}

\* Mutant: the event task sets the flag and does not correct the count.
HandleUncounted ==
  /\ inbox # <<>> /\ flip[EventTask] = None
  /\ inbox' = Tail(inbox)
  /\ \E to \in Tells(Head(inbox)) : ready' = [ready EXCEPT ![Nats] = to]
  /\ UNCHANGED <<registry, counted, blocking, flip, booted, dialVars,
                 link, changes, lastWord>>

\* The event task takes the next event once it is done with the one before.
HandleEvent ==
  /\ inbox # <<>> /\ flip[EventTask] = None
  /\ inbox' = Tail(inbox)
  /\ LET told == Tells(Head(inbox)) IN
       /\ lastWord' = IF told = {} THEN lastWord ELSE "event"
       /\ IF \E to \in told : to # ready[Nats]
          THEN \E to \in told : R!SetReady(EventTask, Nats, to)
          ELSE UNCHANGED gateVars
  /\ UNCHANGED <<dialVars, link, changes>>

EventCounted ==
  /\ R!Correct(EventTask)
  /\ UNCHANGED <<dialVars, linkVars>>

-----------------------------------------------------------------------------
(* The rest of the application: registers gates and flips its own *)

Application ==
  /\ \/ \E g \in Gates : R!Count(g) \/ R!List(g)
     \/ \E o \in Owners \ {BootTask, EventTask} :
          (\E g \in Gates, to \in BOOLEAN : R!SetReady(o, g, to)) \/ R!Correct(o)
     \/ at = "connected" /\ R!Boot
  /\ UNCHANGED <<dialVars, linkVars>>

Next ==
  \/ ReadCredentials \/ RejectCredentials \/ Dial \/ RunOut
  \/ DialFails \/ DialTimesOut \/ Wake \/ DialSucceeds \/ Mark \/ MarkCounted
  \/ Tick \/ LinkChanges \/ HandleEvent \/ EventCounted \/ Application

Spec == Init /\ [][Next]_vars

-----------------------------------------------------------------------------
(* Properties *)

TypeOK ==
  /\ clock \in 0..Deadline /\ due \in 0..Deadline /\ attempts \in Nat
  /\ at \in Places
  /\ lastError \in Errors \cup {None}
  /\ finished \in Seq(Errors \cup {None})
  /\ failure \in [kind : Kinds, source : Errors \cup {None}] \cup {None}
  /\ link \in {"none", "up", "down", "ended"}
  /\ changes \in 0..MaxLinkChanges
  /\ inbox \in Seq(Events)
  /\ lastWord \in {"none", "mark", "event"}

\* The deadline is hard: whatever the attempts do and however long the pauses
\* get, no attempt runs and no pause ends past it (connect_deadline,
\* connect_with_retry).
WithinDeadline == at \in {"dialing", "sleeping", "marking"} => clock <= Deadline

\* The error handed to the operator is what the last attempt to finish said, and
\* it says that every attempt timed out only when every attempt did
\* (ConnectorError::Unreachable, connect_with_retry).
SourceIsLastFinished ==
  LET said == {i \in DOMAIN finished : finished[i] # None} IN
  (failure # None /\ failure.kind = "Unreachable") =>
    /\ Len(finished) = attempts
    /\ IF said = {} THEN failure.source = None
       ELSE \E i \in said : failure.source = finished[i] /\ \A j \in said : j <= i

Quiet == inbox = <<>> /\ at = "connected" /\ \A o \in Owners : flip[o] = None

\* When every event has been handled the gate tells the state of the link, but
\* for one case: the mark of the task that boots came after the event task had
\* already seen the link go (mark_connected, on_event).
GateTellsLink ==
  Quiet => \/ ready[Nats] <=> link = "up"
           \/ lastWord = "mark" /\ ready[Nats]

\* All that the boot task, the event task and the application do to the gates are
\* steps of Readiness, whose count is exact whoever flips them.
ImplementsReadiness == R!Spec

=============================================================================
