---------------------------- MODULE ConnectorProof ----------------------------
(***************************************************************************)
(* Proofs about the NATS connector: its deadline is hard, the error it     *)
(* gives up with is what the last attempt that finished said, all it does  *)
(* to the gates are steps of Readiness, and its gate tells the state of    *)
(* the link; for every deadline, attempt timeout, back-off, set of errors  *)
(* and number of changes of the link.                                      *)
(***************************************************************************)
EXTENDS Connector, SequenceTheorems, TLAPS

-----------------------------------------------------------------------------
(* The deadline. *)

\* What is due is due by the deadline.
OnTime ==
  /\ clock \in Int /\ due \in Int
  /\ clock <= Deadline
  /\ at \in {"dialing", "sleeping"} => due <= Deadline

LEMMA DelaysAreIntegers ==
  ASSUME NEW attempt, NEW delay \in Delays(attempt)
  PROVE  delay \in Int
BY DEF Delays

LEMMA DialEndsOnTime ==
  ASSUME OnTime, NEW source, DialEnds(source)
  PROVE  OnTime'
<1>1. clock' = clock
  BY DEF DialEnds
<1>2. PICK delay \in Delays(attempts) :
        \/ /\ clock + delay >= Deadline
           /\ Fail("Unreachable", Or(source, lastError))
           /\ UNCHANGED <<due, lastError>>
        \/ /\ clock + delay < Deadline
           /\ lastError' = Or(source, lastError)
           /\ due' = clock + delay /\ at' = "sleeping"
           /\ UNCHANGED failure
  BY DEF DialEnds
<1>3. delay \in Int
  BY DelaysAreIntegers
<1> QED BY <1>1, <1>2, <1>3, ConnectorAssumption DEF OnTime, Fail

LEMMA OnTimeStep == OnTime /\ [Next]_vars => OnTime'
<1> SUFFICES ASSUME OnTime, [Next]_vars PROVE OnTime'
  OBVIOUS
<1> USE ConnectorAssumption DEF OnTime
<1>1. CASE ReadCredentials \/ RejectCredentials \/ RunOut \/ Wake \/ MarkCounted
  BY <1>1 DEF ReadCredentials, RejectCredentials, RunOut, Wake, MarkCounted, Fail
<1>2. CASE Dial
  BY <1>2 DEF Dial, Least
<1>3. CASE DialFails \/ DialTimesOut
  BY <1>3, DialEndsOnTime DEF DialFails, DialTimesOut
<1>4. CASE DialSucceeds \/ Mark
  BY <1>4 DEF DialSucceeds, Mark
<1>5. CASE Tick
  BY <1>5 DEF Tick
<1>6. CASE LinkChanges \/ HandleEvent \/ EventCounted \/ Application
  BY <1>6 DEF LinkChanges, Says, HandleEvent, EventCounted, Application, dialVars
<1>7. CASE UNCHANGED vars
  BY <1>7 DEF vars, dialVars
<1> QED BY <1>1, <1>2, <1>3, <1>4, <1>5, <1>6, <1>7 DEF Next

\* No attempt runs and no pause ends past the deadline.
THEOREM DeadlineIsHard == Spec => []WithinDeadline
<1>1. Init => OnTime
  BY ConnectorAssumption DEF Init, OnTime
<1>2. OnTime => WithinDeadline
  BY DEF OnTime, WithinDeadline
<1> QED BY <1>1, <1>2, OnTimeStep, PTL DEF Spec

-----------------------------------------------------------------------------
(* The error. *)

Reports == Seq(Errors \cup {None})

\* `said` is what the last attempt that said anything said, None if none did.
IsLastSaid(reports, said) ==
  LET spoke == {i \in DOMAIN reports : reports[i] # None} IN
  IF spoke = {} THEN said = None
  ELSE \E i \in spoke : said = reports[i] /\ \A j \in spoke : j <= i

\* A report is kept from the end of its attempt to the end of the connect.
Remembered ==
  /\ attempts \in Nat /\ finished \in Reports
  /\ Len(finished) =
       IF at \in {"dialing", "marking", "correcting", "connected"}
       THEN attempts - 1 ELSE attempts
  /\ IF at = "failed"
     THEN failure.kind = "Unreachable" => IsLastSaid(finished, failure.source)
     ELSE failure = None /\ IsLastSaid(finished, lastError)

LEMMA AppendIsLastSaid ==
  ASSUME NEW reports \in Reports, NEW said, IsLastSaid(reports, said),
         NEW source \in Errors \cup {None}
  PROVE  IsLastSaid(Append(reports, source), Or(source, said))
<1> DEFINE more == Append(reports, source)
           spoke == {i \in DOMAIN reports : reports[i] # None}
           spokeMore == {i \in DOMAIN more : more[i] # None}
<1>1. /\ Len(reports) \in Nat /\ DOMAIN reports = 1..Len(reports)
      /\ DOMAIN more = 1..(Len(reports) + 1)
      /\ more[Len(reports) + 1] = source
      /\ \A i \in 1..Len(reports) : more[i] = reports[i]
  BY AppendProperties DEF Reports
<1> HIDE DEF more
<1>2. CASE source = None
  <2>1. spokeMore = spoke /\ Or(source, said) = said
    BY <1>1, <1>2 DEF Or
  <2>2. \A i \in spoke : more[i] = reports[i]
    BY <1>1
  <2> QED BY <2>1, <2>2 DEF IsLastSaid, more
<1>3. CASE source # None
  <2>1. Len(reports) + 1 \in spokeMore /\ Or(source, said) = source
    BY <1>1, <1>3 DEF Or
  <2>2. \A j \in spokeMore : j <= Len(reports) + 1
    BY <1>1
  <2> QED BY <1>1, <2>1, <2>2 DEF IsLastSaid, more
<1> QED BY <1>2, <1>3

LEMMA DialEndsRemembers ==
  ASSUME Remembered, NEW source \in Errors \cup {None}, DialEnds(source)
  PROVE  Remembered'
<1>1. /\ at = "dialing" /\ finished' = Append(finished, source)
      /\ attempts' = attempts
      /\ \/ /\ at' = "failed"
            /\ failure' = [kind |-> "Unreachable", source |-> Or(source, lastError)]
         \/ /\ at' = "sleeping" /\ lastError' = Or(source, lastError)
            /\ failure' = failure
  BY DEF DialEnds, Fail
<1>2. IsLastSaid(finished', Or(source, lastError))
  BY <1>1, AppendIsLastSaid DEF Remembered
<1>3. finished' \in Reports /\ Len(finished') = Len(finished) + 1
  BY <1>1, AppendProperties DEF Remembered, Reports
<1>4. Len(finished') = attempts'
  BY <1>1, <1>3 DEF Remembered
<1> QED BY <1>1, <1>2, <1>3, <1>4 DEF Remembered

LEMMA RememberedStep == Remembered /\ [Next]_vars => Remembered'
<1> SUFFICES ASSUME Remembered, [Next]_vars PROVE Remembered'
  OBVIOUS
<1>1. CASE ReadCredentials \/ RejectCredentials
  BY <1>1 DEF ReadCredentials, RejectCredentials, Fail, Remembered
<1>2. CASE Dial
  BY <1>2 DEF Dial, Remembered
<1>3. CASE RunOut
  BY <1>3 DEF RunOut, Fail, Remembered
<1>4. CASE DialFails \/ DialTimesOut
  BY <1>4, DialEndsRemembers DEF DialFails, DialTimesOut
<1>5. CASE Wake \/ DialSucceeds
  BY <1>5 DEF Wake, DialSucceeds, Remembered
<1>6. CASE Mark \/ MarkCounted
  <2>1. /\ at \in {"marking", "correcting"} /\ at' \in {"correcting", "connected"}
        /\ UNCHANGED <<attempts, lastError, finished, failure>>
    BY <1>6 DEF Mark, MarkCounted
  <2> QED BY <2>1 DEF Remembered
<1>7. CASE Tick \/ LinkChanges \/ HandleEvent \/ EventCounted \/ Application
  <2>1. UNCHANGED <<at, attempts, lastError, finished, failure>>
    BY <1>7 DEF Tick, LinkChanges, Says, HandleEvent, EventCounted, Application,
                dialVars
  <2> QED BY <2>1 DEF Remembered
<1>8. CASE UNCHANGED vars
  BY <1>8 DEF vars, dialVars, Remembered
<1> QED BY <1>1, <1>2, <1>3, <1>4, <1>5, <1>6, <1>7, <1>8 DEF Next

\* A connect that gives up reports what the last attempt to finish said, and that
\* all timed out only when all did.
THEOREM SourceIsKept == Spec => []SourceIsLastFinished
<1>1. Init => Remembered
  BY DEF Init, Remembered, Reports, IsLastSaid
<1>2. Remembered => SourceIsLastFinished
  BY DEF Remembered, SourceIsLastFinished, IsLastSaid
<1> QED BY <1>1, <1>2, RememberedStep, PTL DEF Spec

-----------------------------------------------------------------------------
(* The gates. *)

LEMMA ConnectorStepIsReadinessStep == [Next]_vars => [R!Next]_(R!vars)
<1> SUFFICES ASSUME [Next]_vars PROVE R!Next \/ UNCHANGED R!vars
  OBVIOUS
<1>1. ASSUME UNCHANGED gateVars PROVE UNCHANGED R!vars
  BY <1>1 DEF gateVars, R!vars
<1>2. ASSUME NEW o \in Owners,
             (\E g \in Gates, to \in BOOLEAN : R!SetReady(o, g, to)) \/ R!Correct(o)
      PROVE  R!Next
  BY <1>2 DEF R!Next
<1>3. BootTask \in Owners /\ EventTask \in Owners /\ Nats \in Gates
  BY ConnectorAssumption
<1>4. CASE ReadCredentials \/ RejectCredentials \/ Dial \/ RunOut
  BY <1>1, <1>4 DEF ReadCredentials, RejectCredentials, Dial, RunOut
<1>5. CASE DialFails \/ DialTimesOut \/ Wake \/ DialSucceeds \/ Tick \/ LinkChanges
  BY <1>1, <1>5 DEF DialFails, DialTimesOut, DialEnds, Wake, DialSucceeds, Tick,
                    LinkChanges, Says
<1>6. CASE Mark
  BY <1>1, <1>2, <1>3, <1>6 DEF Mark
<1>7. CASE MarkCounted
  BY <1>2, <1>3, <1>7 DEF MarkCounted
<1>8. CASE HandleEvent
  <2>1. \A to \in Tells(Head(inbox)) : to \in BOOLEAN
    BY DEF Tells
  <2> QED BY <1>1, <1>2, <1>3, <1>8, <2>1 DEF HandleEvent
<1>9. CASE EventCounted
  BY <1>2, <1>3, <1>9 DEF EventCounted
<1>10. CASE Application
  BY <1>2, <1>10 DEF Application, R!Next
<1>11. CASE UNCHANGED vars
  BY <1>1, <1>11 DEF vars
<1> QED BY <1>4, <1>5, <1>6, <1>7, <1>8, <1>9, <1>10, <1>11 DEF Next

\* The boot task, the event task and the application do to the gates only what
\* Readiness allows: swaps and corrections, each by one owner.
THEOREM ConnectorImplementsReadiness == Spec => ImplementsReadiness
<1>1. Init => R!Init
  BY DEF Init
<1> QED BY <1>1, ConnectorStepIsReadinessStep, PTL DEF Spec, ImplementsReadiness, R!Spec

-----------------------------------------------------------------------------
(* The gate and the link. *)

\* Whoever spoke last: an event that waits in the inbox, the mark, or an event that
\* has been handled.  What waits last is true of the link; what was handled last
\* is, when nothing waits.
WordInv ==
  /\ ready \in [Gates -> BOOLEAN]
  /\ inbox \in Seq(Events)
  /\ at \notin {"marking", "correcting", "connected"} => inbox = <<>> /\ link = "none"
  /\ at \in {"correcting", "connected"} => lastWord \in {"mark", "event"}
  /\ lastWord = "mark" => ready[Nats]
  /\ \A i \in 1..Len(inbox) :
       inbox[i] # "Other" /\ (\A j \in 1..Len(inbox) : j > i => inbox[j] = "Other")
         => (inbox[i] = "Connected" <=> link = "up")
  /\ (\A i \in 1..Len(inbox) : inbox[i] = "Other") /\ lastWord = "event"
       => (ready[Nats] <=> link = "up")

LEMMA NobodyElseFlips ==
  ASSUME Application
  PROVE  UNCHANGED <<dialVars, linkVars>> /\ ready'[Nats] = ready[Nats]
         /\ (ready \in [Gates -> BOOLEAN] => ready' \in [Gates -> BOOLEAN])
<1>1. UNCHANGED <<dialVars, linkVars>>
  BY DEF Application
<1>2. CASE UNCHANGED ready
  BY <1>1, <1>2
<1>3. CASE \E o \in Owners \ {BootTask, EventTask}, g \in Gates, to \in BOOLEAN :
             R!SetReady(o, g, to)
  <2>1. PICK o \in Owners \ {BootTask, EventTask}, g \in Gates, to \in BOOLEAN :
               R!SetReady(o, g, to)
    BY <1>3
  <2>2. g \in Holds[o] /\ ready' = [ready EXCEPT ![g] = to]
    BY <2>1 DEF R!SetReady
  <2>3. g # Nats
    BY <2>2, ConnectorAssumption
  <2>4. ready'[Nats] = ready[Nats]
    BY <2>2, <2>3
  <2>5. ready \in [Gates -> BOOLEAN] => ready' \in [Gates -> BOOLEAN]
    BY <2>2
  <2> QED BY <1>1, <2>4, <2>5
<1>4. \/ UNCHANGED ready
      \/ \E o \in Owners \ {BootTask, EventTask}, g \in Gates, to \in BOOLEAN :
           R!SetReady(o, g, to)
  <2>1. CASE \E g \in Gates : R!Count(g) \/ R!List(g)
    BY <2>1 DEF R!Count, R!List
  <2>2. CASE \E o \in Owners \ {BootTask, EventTask} : R!Correct(o)
    BY <2>2 DEF R!Correct
  <2>3. CASE R!Boot
    BY <2>3 DEF R!Boot
  <2>4. CASE \E o \in Owners \ {BootTask, EventTask} :
               \E g \in Gates, to \in BOOLEAN : R!SetReady(o, g, to)
    BY <2>4
  <2> QED BY <2>1, <2>2, <2>3, <2>4 DEF Application
<1> QED BY <1>2, <1>3, <1>4

\* What an event that is handled makes of the gate.
LEMMA HandledIsTold ==
  ASSUME WordInv, HandleEvent
  PROVE  /\ ready' \in [Gates -> BOOLEAN]
         /\ Head(inbox) = "Other" => ready' = ready /\ lastWord' = lastWord
         /\ Head(inbox) # "Other" =>
              /\ lastWord' = "event"
              /\ ready'[Nats] <=> Head(inbox) = "Connected"
<1> DEFINE e == Head(inbox)
<1>1. e \in Events /\ Nats \in Gates /\ ready \in [Gates -> BOOLEAN]
  BY HeadTailProperties, ConnectorAssumption DEF WordInv, HandleEvent
<1>2. CASE e = "Other"
  <2>1. Tells(e) = {}
    BY <1>2 DEF Tells
  <2>2. UNCHANGED gateVars /\ lastWord' = lastWord
    BY <2>1 DEF HandleEvent
  <2> QED BY <1>1, <1>2, <2>2 DEF gateVars
<1>3. CASE e = "Connected"
  <2>1. Tells(e) = {TRUE}
    BY <1>3 DEF Tells
  <2>2. lastWord' = "event" /\ (R!SetReady(EventTask, Nats, TRUE) \/ (ready[Nats] = TRUE /\ UNCHANGED gateVars))
    BY <2>1 DEF HandleEvent
  <2>3. ready' \in [Gates -> BOOLEAN] /\ ready'[Nats] = TRUE
    BY <1>1, <2>2 DEF R!SetReady, gateVars
  <2> QED BY <1>3, <2>2, <2>3
<1>4. CASE e \in {"Disconnected", "Draining", "Closed"}
  <2>1. Tells(e) = {FALSE}
    BY <1>4 DEF Tells
  <2>2. lastWord' = "event" /\ (R!SetReady(EventTask, Nats, FALSE) \/ (ready[Nats] = FALSE /\ UNCHANGED gateVars))
    BY <2>1, <1>1 DEF HandleEvent
  <2>3. ready' \in [Gates -> BOOLEAN] /\ ready'[Nats] = FALSE
    BY <1>1, <2>2 DEF R!SetReady, gateVars
  <2> QED BY <1>4, <2>2, <2>3
<1> QED BY <1>1, <1>2, <1>3, <1>4 DEF Events

LEMMA HandleKeepsWord ==
  ASSUME WordInv, HandleEvent
  PROVE  WordInv'
<1> DEFINE n == Len(inbox)
<1>1. /\ inbox # <<>> /\ inbox' = Tail(inbox) /\ UNCHANGED <<at, link>>
  BY DEF HandleEvent, dialVars
<1>2. /\ n \in Nat /\ n >= 1 /\ Len(inbox') = n - 1 /\ inbox' \in Seq(Events)
      /\ Head(inbox) = inbox[1]
      /\ \A i \in 1..(n - 1) : inbox'[i] = inbox[i + 1]
  BY <1>1, HeadTailProperties, EmptySeq, LenProperties DEF WordInv
<1>3. \A i \in 1..Len(inbox') :
        inbox'[i] # "Other" /\ (\A j \in 1..Len(inbox') : j > i => inbox'[j] = "Other")
          => (inbox'[i] = "Connected" <=> link' = "up")
  <2> SUFFICES ASSUME NEW i \in 1..(n - 1), inbox[i + 1] # "Other",
                      \A j \in 1..(n - 1) : j > i => inbox[j + 1] = "Other"
               PROVE  inbox[i + 1] = "Connected" <=> link = "up"
    BY <1>1, <1>2
  <2>1. i + 1 \in 1..n
    BY <1>2
  <2>2. ASSUME NEW j \in 1..n, j > i + 1 PROVE inbox[j] = "Other"
    <3>1. j - 1 \in 1..(n - 1) /\ j - 1 > i /\ (j - 1) + 1 = j
      BY <1>2, <2>2
    <3> QED BY <3>1
  <2> QED BY <2>1, <2>2 DEF WordInv
<1>4. ASSUME \A i \in 1..Len(inbox') : inbox'[i] = "Other", lastWord' = "event"
      PROVE  ready'[Nats] <=> link' = "up"
  <2>1. ASSUME NEW j \in 1..n, j > 1 PROVE inbox[j] = "Other"
    <3>1. j - 1 \in 1..(n - 1) /\ (j - 1) + 1 = j
      BY <1>2, <2>1
    <3> QED BY <1>2, <1>4, <3>1
  <2>2. CASE inbox[1] = "Other"
    <3>1. \A i \in 1..n : inbox[i] = "Other"
      BY <1>2, <2>1, <2>2
    <3>2. ready' = ready /\ lastWord' = lastWord
      BY <1>2, <2>2, HandledIsTold
    <3> QED BY <1>1, <1>4, <3>1, <3>2 DEF WordInv
  <2>3. CASE inbox[1] # "Other"
    <3>1. ready'[Nats] <=> inbox[1] = "Connected"
      BY <1>2, <2>3, HandledIsTold
    <3>2. 1 \in 1..n
      BY <1>2
    <3>3. inbox[1] = "Connected" <=> link = "up"
      BY <2>1, <2>3, <3>2 DEF WordInv
    <3> QED BY <1>1, <3>1, <3>3
  <2> QED BY <2>2, <2>3
<1>5. /\ at' \in {"correcting", "connected"} => lastWord' \in {"mark", "event"}
      /\ lastWord' = "mark" => ready'[Nats]
      /\ at' \in {"marking", "correcting", "connected"}
      /\ ready' \in [Gates -> BOOLEAN]
  BY <1>1, HandledIsTold DEF WordInv
<1> QED BY <1>2, <1>3, <1>4, <1>5 DEF WordInv

LEMMA LinkKeepsWord ==
  ASSUME WordInv, LinkChanges
  PROVE  WordInv'
<1>1. PICK event \in Events, to \in {"up", "down", "ended"} :
        /\ Says(event, to)
        /\ link # "none"
        /\ event # "Other" => (event = "Connected" <=> to = "up")
        /\ event = "Other" => to = link
  BY DEF LinkChanges, Events
<1> DEFINE n == Len(inbox)
<1>2. /\ link' = to /\ inbox' = Append(inbox, event)
      /\ UNCHANGED <<at, ready, lastWord>>
  BY <1>1 DEF Says, gateVars, dialVars
<1>3. /\ n \in Nat /\ Len(inbox') = n + 1 /\ inbox' \in Seq(Events)
      /\ inbox'[n + 1] = event
      /\ \A i \in 1..n : inbox'[i] = inbox[i]
  BY <1>2, AppendProperties, LenProperties DEF WordInv
<1>4. CASE event = "Other"
  <2>1. link' = link
    BY <1>1, <1>2, <1>4
  <2>2. ASSUME NEW i \in 1..(n + 1), inbox'[i] # "Other",
               \A j \in 1..(n + 1) : j > i => inbox'[j] = "Other"
        PROVE  inbox'[i] = "Connected" <=> link' = "up"
    <3>1. i \in 1..n
      BY <1>3, <1>4, <2>2
    <3>2. \A j \in 1..n : j > i => inbox[j] = "Other"
      BY <1>3, <2>2
    <3> QED BY <1>3, <2>1, <2>2, <3>1, <3>2 DEF WordInv
  <2>3. (\A i \in 1..(n + 1) : inbox'[i] = "Other") => \A i \in 1..n : inbox[i] = "Other"
    BY <1>3
  <2> QED BY <1>1, <1>2, <1>3, <2>1, <2>2, <2>3 DEF WordInv
<1>5. CASE event # "Other"
  <2>1. ASSUME NEW i \in 1..(n + 1), inbox'[i] # "Other",
               \A j \in 1..(n + 1) : j > i => inbox'[j] = "Other"
        PROVE  i = n + 1
    BY <1>3, <1>5, <2>1
  <2>2. ~ \A i \in 1..(n + 1) : inbox'[i] = "Other"
    BY <1>3, <1>5
  <2> QED BY <1>1, <1>2, <1>3, <1>5, <2>1, <2>2 DEF WordInv
<1> QED BY <1>4, <1>5

LEMMA MarkKeepsWord ==
  ASSUME WordInv, Mark
  PROVE  WordInv'
<1>1. /\ at = "marking" /\ at' \in {"correcting", "connected"} /\ lastWord' = "mark"
      /\ UNCHANGED <<inbox, link>>
  BY DEF Mark
<1>2. ready' \in [Gates -> BOOLEAN] /\ ready'[Nats]
  BY ConnectorAssumption DEF Mark, WordInv, gateVars, R!SetReady
<1> QED BY <1>1, <1>2 DEF WordInv

LEMMA WordStep == WordInv /\ [Next]_vars => WordInv'
<1> SUFFICES ASSUME WordInv, [Next]_vars PROVE WordInv'
  OBVIOUS
<1>1. CASE ReadCredentials \/ RejectCredentials \/ Dial \/ RunOut \/ Wake
  BY <1>1 DEF ReadCredentials, RejectCredentials, Dial, RunOut, Wake, Fail, gateVars,
              linkVars, WordInv
<1>2. CASE DialFails \/ DialTimesOut
  BY <1>2 DEF DialFails, DialTimesOut, DialEnds, Fail, gateVars, linkVars, WordInv
<1>3. CASE DialSucceeds
  <2>1. /\ at' = "marking" /\ link' = "up" /\ inbox' = <<"Connected">>
        /\ UNCHANGED <<ready, lastWord>>
    BY <1>3 DEF DialSucceeds, gateVars
  <2>2. inbox' \in Seq(Events) /\ Len(inbox') = 1 /\ inbox'[1] = "Connected"
    BY <2>1 DEF Events
  <2> QED BY <2>1, <2>2 DEF WordInv
<1>4. CASE Mark
  BY <1>4, MarkKeepsWord
<1>5. CASE MarkCounted \/ EventCounted
  <2>1. /\ UNCHANGED <<linkVars, ready>>
        /\ at' = at \/ (at = "correcting" /\ at' = "connected")
    BY <1>5 DEF MarkCounted, EventCounted, R!Correct, dialVars
  <2> QED BY <2>1 DEF WordInv, linkVars
<1>6. CASE Tick
  BY <1>6 DEF Tick, gateVars, linkVars, WordInv
<1>7. CASE LinkChanges
  BY <1>7, LinkKeepsWord
<1>8. CASE HandleEvent
  BY <1>8, HandleKeepsWord
<1>9. CASE Application
  BY <1>9, NobodyElseFlips DEF WordInv, dialVars, linkVars
<1>10. CASE UNCHANGED vars
  BY <1>10 DEF vars, gateVars, dialVars, linkVars, WordInv
<1> QED BY <1>1, <1>2, <1>3, <1>4, <1>5, <1>6, <1>7, <1>8, <1>9, <1>10 DEF Next

\* When nothing is under way the gate tells the state of the link, or the mark of the
\* task that boots came last; however the link and the event task run.
THEOREM GateFollowsLink == Spec => []GateTellsLink
<1>1. Init => WordInv
  BY ConnectorAssumption DEF Init, R!Init, WordInv
<1>2. WordInv => GateTellsLink
  BY EmptySeq DEF WordInv, GateTellsLink, Quiet
<1> QED BY <1>1, <1>2, WordStep, PTL DEF Spec

-----------------------------------------------------------------------------
(* What the connector remembers. *)

LEMMA DelaysAreNatural ==
  ASSUME NEW attempt \in Nat \ {0}, NEW delay \in Delays(attempt)
  PROVE  delay \in Nat
<1> DEFINE shift == Least(attempt - 1, MaxShift)
           half == Ramp(attempt) \div 2
<1>1. shift \in Nat
  BY ConnectorAssumption DEF Least
<1> HIDE DEF shift
<1>2. 2^shift \in Int
  BY <1>1
<1>3. MinBackoff * 2^shift \in Int /\ MaxBackoff \in Int
  BY <1>2, ConnectorAssumption
<1>4. Ramp(attempt) = Least(MinBackoff * 2^shift, MaxBackoff)
  BY DEF Ramp, shift
<1>5. Ramp(attempt) \in Int
  BY <1>3, <1>4 DEF Least
<1>6. half \in Int
  BY <1>5
<1>7. delay \in IF half = 0 THEN {0} ELSE half .. (2 * half - 1)
  BY DEF Delays
<1> HIDE DEF half
<1> QED BY <1>6, <1>7

Within == clock \in 0..Deadline /\ due \in 0..Deadline

Said == Errors \cup {None}

DialTypes ==
  /\ Within
  /\ at \in Places /\ lastError \in Said
  /\ failure \in [kind : Kinds, source : Said] \cup {None}
  /\ link \in {"none", "up", "down", "ended"}
  /\ changes \in 0..MaxLinkChanges
  /\ lastWord \in {"none", "mark", "event"}

LEMMA DialEndsKeepsTypes ==
  ASSUME DialTypes, Remembered, NEW source \in Said, DialEnds(source)
  PROVE  DialTypes'
<1>1. attempts \in Nat \ {0} /\ at = "dialing"
  BY LenProperties DEF DialEnds, Remembered, Reports
<1>2. PICK delay \in Delays(attempts) :
        \/ /\ clock + delay >= Deadline
           /\ Fail("Unreachable", Or(source, lastError))
           /\ UNCHANGED <<due, lastError>>
        \/ /\ clock + delay < Deadline
           /\ lastError' = Or(source, lastError)
           /\ due' = clock + delay /\ at' = "sleeping"
           /\ UNCHANGED failure
  BY DEF DialEnds
<1>3. delay \in Nat /\ Or(source, lastError) \in Said
  BY <1>1, DelaysAreNatural DEF Or, DialTypes
<1>4. UNCHANGED <<clock, linkVars>>
  BY DEF DialEnds
<1>5. Within'
  BY <1>2, <1>3, <1>4, ConnectorAssumption DEF DialTypes, Within
<1>6. /\ at' \in Places /\ lastError' \in Said
      /\ failure' \in [kind : Kinds, source : Said] \cup {None}
  BY <1>2, <1>3 DEF Fail, DialTypes, Places, Kinds
<1> QED BY <1>4, <1>5, <1>6 DEF DialTypes, linkVars

LEMMA DialTypesStep == DialTypes /\ Remembered /\ [Next]_vars => DialTypes'
<1> SUFFICES ASSUME DialTypes, Remembered, [Next]_vars PROVE DialTypes'
  OBVIOUS
<1> USE DEF DialTypes
<1>1. CASE ReadCredentials \/ RejectCredentials \/ RunOut
  BY <1>1 DEF ReadCredentials, RejectCredentials, RunOut, Fail, linkVars, Within, Places,
              Kinds, Said
<1>2. CASE Dial
  <2>1. due' \in 0..Deadline
    BY <1>2, ConnectorAssumption DEF Dial, Least, Within
  <2> QED BY <1>2, <2>1 DEF Dial, linkVars, Within, Places
<1>3. CASE DialFails \/ DialTimesOut
  BY <1>3, DialEndsKeepsTypes DEF DialFails, DialTimesOut, Said
<1>4. CASE Wake \/ DialSucceeds
  BY <1>4 DEF Wake, DialSucceeds, linkVars, Within, Places
<1>5. CASE Mark \/ MarkCounted
  BY <1>5 DEF Mark, MarkCounted, linkVars, Within, Places
<1>6. CASE Tick
  <2>1. clock' \in 0..Deadline
    BY <1>6, ConnectorAssumption DEF Tick, Within
  <2> QED BY <1>6, <2>1 DEF Tick, linkVars, Within
<1>7. CASE LinkChanges
  <2>1. PICK to \in {"up", "down", "ended"} : \E event : Says(event, to)
    BY <1>7 DEF LinkChanges
  <2>2. changes' \in 0..MaxLinkChanges
    BY <2>1, ConnectorAssumption DEF Says
  <2> QED BY <2>1, <2>2 DEF Says, dialVars, Within
<1>8. CASE HandleEvent
  BY <1>8 DEF HandleEvent, dialVars, Within
<1>9. CASE EventCounted \/ Application \/ UNCHANGED vars
  <2>1. UNCHANGED <<dialVars, linkVars>>
    BY <1>9 DEF EventCounted, Application, vars
  <2> QED BY <2>1 DEF dialVars, linkVars, Within
<1> QED BY <1>1, <1>2, <1>3, <1>4, <1>5, <1>6, <1>7, <1>8, <1>9 DEF Next

\* Whatever the back-off comes to, a pause is of no negative length and nothing is due
\* past the deadline.
THEOREM TypeCorrect == Spec => []TypeOK
<1>1. Init => DialTypes
  BY ConnectorAssumption DEF Init, DialTypes, Within, Places, Said
<1>2. Init => Remembered
  BY DEF Init, Remembered, Reports, IsLastSaid
<1>3. Init => WordInv
  BY ConnectorAssumption DEF Init, R!Init, WordInv
<1>4. DialTypes /\ Remembered /\ WordInv => TypeOK
  BY DEF DialTypes, Within, Said, Remembered, Reports, WordInv, TypeOK
<1> QED BY <1>1, <1>2, <1>3, <1>4, DialTypesStep, RememberedStep, WordStep, PTL DEF Spec

=============================================================================
