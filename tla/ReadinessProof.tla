---------------------------- MODULE ReadinessProof ----------------------------
(***************************************************************************)
(* Proof that the readiness count is exact, for every set of gates, every  *)
(* set of owners and every distribution of the handles.                    *)
(***************************************************************************)
EXTENDS Readiness, FiniteSetTheorems, SequenceTheorems, TLAPS

GateTypes ==
  /\ registry \in Seq(Gates) /\ counted \subseteq Gates
  /\ ready \in [Gates -> BOOLEAN]
  /\ blocking \in 0..(Modulus - 1)
  /\ flip \in [Owners -> Flips \cup {None}]

\* A gate is counted before it can be listed, and listed before an owner can flip
\* it, so that a flip moves a gate the count knows.
CountedFirst ==
  /\ Listed \subseteq counted
  /\ \A g \in Gates : ready[g] => g \in counted

CountInv == GateTypes /\ CountedFirst /\ CountExact

-----------------------------------------------------------------------------
(* The three sets that make up the count. *)

LEMMA FewerThan ==
  ASSUME NEW D \in SUBSET Gates, NEW T \in SUBSET Owners, NEW A \in SUBSET Owners
  PROVE  /\ IsFiniteSet(D) /\ IsFiniteSet(T) /\ IsFiniteSet(A)
         /\ Cardinality(D) \in Nat /\ Cardinality(T) \in Nat /\ Cardinality(A) \in Nat
         /\ Cardinality(D) + Cardinality(T) < Modulus
         /\ Cardinality(A) < Modulus
<1>1. /\ IsFiniteSet(D) /\ Cardinality(D) \in Nat
      /\ Cardinality(D) <= Cardinality(Gates)
  BY ReadinessAssumption, FS_Subset, FS_CardinalityType
<1>2. /\ IsFiniteSet(T) /\ Cardinality(T) \in Nat
      /\ Cardinality(T) <= Cardinality(Owners)
  BY ReadinessAssumption, FS_Subset, FS_CardinalityType
<1>3. /\ IsFiniteSet(A) /\ Cardinality(A) \in Nat
      /\ Cardinality(A) <= Cardinality(Owners)
  BY ReadinessAssumption, FS_Subset, FS_CardinalityType
<1>4. Cardinality(Gates) \in Nat /\ Cardinality(Owners) \in Nat
  BY ReadinessAssumption, FS_CardinalityType
<1> QED BY <1>1, <1>2, <1>3, <1>4, ReadinessAssumption

LEMMA OwedType ==
  ASSUME GateTypes
  PROVE  /\ IsFiniteSet(Down) /\ IsFiniteSet(Taking) /\ IsFiniteSet(Adding)
         /\ Cardinality(Down) \in Nat /\ Cardinality(Taking) \in Nat
         /\ Cardinality(Adding) \in Nat
         /\ Cardinality(Down) + Cardinality(Taking) < Modulus
         /\ Cardinality(Adding) < Modulus
<1>1. Down \in SUBSET Gates /\ Taking \in SUBSET Owners /\ Adding \in SUBSET Owners
  BY DEF GateTypes, Down, Taking, Adding
<1> QED BY <1>1, FewerThan

\* The same of the state after a step.
LEMMA OwedTypeNext ==
  ASSUME GateTypes'
  PROVE  /\ Cardinality(Down') \in Nat /\ Cardinality(Taking') \in Nat
         /\ Cardinality(Adding') \in Nat
         /\ Cardinality(Down') + Cardinality(Taking') < Modulus
         /\ Cardinality(Adding') < Modulus
<1>1. Down' \in SUBSET Gates /\ Taking' \in SUBSET Owners /\ Adding' \in SUBSET Owners
  BY DEF GateTypes, Down, Taking, Adding
<1> QED BY <1>1, FewerThan

\* The count follows what is owed, one up, one down or not at all, across the wrap.
LEMMA CountFollows ==
  ASSUME GateTypes, GateTypes', CountExact,
         \/ /\ blocking' = Plus(blocking)
            /\ \/ /\ Cardinality(Down') = Cardinality(Down) + 1
                  /\ Taking' = Taking /\ Adding' = Adding
               \/ /\ Cardinality(Adding') = Cardinality(Adding) - 1
                  /\ Down' = Down /\ Taking' = Taking
         \/ /\ blocking' = Minus(blocking)
            /\ Cardinality(Taking') = Cardinality(Taking) - 1
            /\ Down' = Down /\ Adding' = Adding
         \/ /\ blocking' = blocking
            /\ \/ Down' = Down /\ Taking' = Taking /\ Adding' = Adding
               \/ /\ Cardinality(Down') = Cardinality(Down) - 1
                  /\ Cardinality(Taking') = Cardinality(Taking) + 1
                  /\ Adding' = Adding
               \/ /\ Cardinality(Down') = Cardinality(Down) + 1
                  /\ Cardinality(Adding') = Cardinality(Adding) + 1
                  /\ Taking' = Taking
  PROVE  CountExact'
<1> DEFINE d == Cardinality(Down)     dd == Cardinality(Down')
           t == Cardinality(Taking)   tt == Cardinality(Taking')
           a == Cardinality(Adding)   aa == Cardinality(Adding')
<1>1. d \in Nat /\ t \in Nat /\ a \in Nat /\ d + t < Modulus /\ a < Modulus
  BY OwedType
<1>2. dd \in Nat /\ tt \in Nat /\ aa \in Nat /\ dd + tt < Modulus /\ aa < Modulus
  BY OwedTypeNext
<1>3. Modulus \in Nat /\ blocking \in 0..(Modulus - 1)
  BY ReadinessAssumption DEF GateTypes
<1>4. blocking = IF d + t - a < 0 THEN d + t - a + Modulus ELSE d + t - a
  BY DEF CountExact, Owed
<1>5. \/ /\ blocking' = Plus(blocking)
         /\ \/ dd = d + 1 /\ tt = t /\ aa = a
            \/ dd = d /\ tt = t /\ aa = a - 1
      \/ blocking' = Minus(blocking) /\ dd = d /\ tt = t - 1 /\ aa = a
      \/ /\ blocking' = blocking
         /\ \/ dd = d /\ tt = t /\ aa = a
            \/ dd = d - 1 /\ tt = t + 1 /\ aa = a
            \/ dd = d + 1 /\ tt = t /\ aa = a + 1
  OBVIOUS
<1> HIDE DEF d, t, a, dd, tt, aa
<1>6. blocking' = IF dd + tt - aa < 0 THEN dd + tt - aa + Modulus ELSE dd + tt - aa
  BY <1>1, <1>2, <1>3, <1>4, <1>5 DEF Plus, Minus
<1> QED BY <1>6 DEF CountExact, Owed, dd, tt, aa

-----------------------------------------------------------------------------
(* The steps. *)

LEMMA CountInvInit == Init => CountInv
<1> SUFFICES ASSUME Init PROVE CountInv
  OBVIOUS
<1>1. /\ registry = <<>> /\ counted = {} /\ ready = [g \in Gates |-> FALSE]
      /\ blocking = 0 /\ flip = [o \in Owners |-> None]
  BY DEF Init
<1>2. Cardinality(Gates) \in Nat /\ Cardinality(Owners) \in Nat
  BY ReadinessAssumption, FS_CardinalityType
<1>3. GateTypes
  BY <1>1, <1>2, ReadinessAssumption DEF GateTypes
<1>4. CountedFirst
  BY <1>1 DEF CountedFirst, Listed, ToSet
<1>5. Down = {} /\ Taking = {} /\ Adding = {}
  BY <1>1 DEF Down, Taking, Adding
<1>6. Cardinality(Down) = 0 /\ Cardinality(Taking) = 0 /\ Cardinality(Adding) = 0
  BY <1>5, FS_EmptySet
<1>7. Owed = 0
  BY <1>6 DEF Owed
<1> QED BY <1>1, <1>3, <1>4, <1>7 DEF CountInv, CountExact

LEMMA CountKeepsCountInv ==
  ASSUME CountInv, NEW g \in Gates, Count(g)
  PROVE  CountInv'
<1>1. /\ g \notin counted /\ counted' = counted \cup {g}
      /\ blocking' = Plus(blocking)
      /\ UNCHANGED <<registry, ready, flip>>
  BY DEF Count
<1>2. Down' = Down \cup {g} /\ g \notin Down
  BY <1>1 DEF CountInv, CountedFirst, GateTypes, Down
<1>3. Cardinality(Down') = Cardinality(Down) + 1
  BY <1>2, OwedType, FS_AddElement DEF CountInv
<1>4. Taking' = Taking /\ Adding' = Adding
  BY <1>1 DEF Taking, Adding
<1>5. blocking' \in 0..(Modulus - 1)
  BY <1>1, ReadinessAssumption DEF Plus, CountInv, GateTypes
<1>6. GateTypes'
  BY <1>1, <1>5 DEF CountInv, GateTypes
<1>7. CountExact'
  BY <1>1, <1>3, <1>4, <1>6, CountFollows DEF CountInv
<1>8. CountedFirst'
  BY <1>1 DEF CountInv, CountedFirst, Listed
<1> QED BY <1>6, <1>7, <1>8 DEF CountInv

LEMMA ListKeepsCountInv ==
  ASSUME CountInv, NEW g \in Gates, List(g)
  PROVE  CountInv'
<1>1. /\ registry' = Append(registry, g) /\ g \in counted
      /\ UNCHANGED <<counted, ready, blocking, flip>>
  BY DEF List
<1>2. GateTypes'
  BY <1>1, AppendProperties DEF CountInv, GateTypes
<1>3. Down' = Down /\ Taking' = Taking /\ Adding' = Adding
  BY <1>1 DEF Down, Taking, Adding
<1>4. CountExact'
  BY <1>1, <1>2, <1>3, CountFollows DEF CountInv
<1>5. CountedFirst'
  <2>1. \A h \in Listed' : h \in Listed \cup {g}
    BY <1>1, AppendProperties DEF Listed, ToSet, CountInv, GateTypes
  <2> QED BY <1>1, <2>1 DEF CountInv, CountedFirst
<1> QED BY <1>2, <1>4, <1>5 DEF CountInv

LEMMA SetReadyKeepsCountInv ==
  ASSUME CountInv, NEW o \in Owners, NEW g \in Gates, NEW to \in BOOLEAN,
         SetReady(o, g, to)
  PROVE  CountInv'
<1> DEFINE new == [gate |-> g, to |-> to]
<1>1. /\ flip[o] = None /\ g \in Listed /\ ready[g] # to
      /\ ready' = [ready EXCEPT ![g] = to]
      /\ flip' = [flip EXCEPT ![o] = new]
      /\ UNCHANGED <<registry, counted, blocking>>
  BY DEF SetReady
<1>2. g \in counted /\ ready[g] \in BOOLEAN
  BY <1>1 DEF CountInv, CountedFirst, GateTypes
<1>3. new \in Flips /\ new # None /\ new.to = to
  BY NoFlipAssumption DEF Flips
<1> HIDE DEF new
<1>4. GateTypes'
  BY <1>1, <1>3 DEF CountInv, GateTypes
<1>5. /\ flip'[o] = new /\ \A p \in Owners : p # o => flip'[p] = flip[p]
      /\ ready'[g] = to /\ \A h \in Gates : h # g => ready'[h] = ready[h]
  BY <1>1 DEF CountInv, GateTypes
<1>6. ASSUME to = TRUE PROVE CountExact'
  <2>1. Down' = Down \ {g} /\ g \in Down
    BY <1>1, <1>2, <1>5, <1>6 DEF Down, CountInv, GateTypes
  <2>2. Taking' = Taking \cup {o} /\ o \notin Taking /\ Adding' = Adding
    BY <1>1, <1>3, <1>5, <1>6 DEF Taking, Adding
  <2>3. /\ Cardinality(Down') = Cardinality(Down) - 1
        /\ Cardinality(Taking') = Cardinality(Taking) + 1
    BY <2>1, <2>2, OwedType, FS_AddElement, FS_RemoveElement DEF CountInv
  <2> QED BY <1>1, <1>4, <2>2, <2>3, CountFollows DEF CountInv
<1>7. ASSUME to = FALSE PROVE CountExact'
  <2>1. Down' = Down \cup {g} /\ g \notin Down
    BY <1>1, <1>2, <1>5, <1>7 DEF Down, CountInv, GateTypes
  <2>2. Adding' = Adding \cup {o} /\ o \notin Adding /\ Taking' = Taking
    BY <1>1, <1>3, <1>5, <1>7 DEF Taking, Adding
  <2>3. /\ Cardinality(Down') = Cardinality(Down) + 1
        /\ Cardinality(Adding') = Cardinality(Adding) + 1
    BY <2>1, <2>2, OwedType, FS_AddElement DEF CountInv
  <2> QED BY <1>1, <1>4, <2>2, <2>3, CountFollows DEF CountInv
<1>8. CountExact'
  BY <1>6, <1>7
<1>9. CountedFirst'
  BY <1>1, <1>2, <1>5 DEF CountInv, CountedFirst, Listed
<1> QED BY <1>4, <1>8, <1>9 DEF CountInv

LEMMA CorrectKeepsCountInv ==
  ASSUME CountInv, NEW o \in Owners, Correct(o)
  PROVE  CountInv'
<1>1. /\ flip[o] # None
      /\ blocking' = IF flip[o].to THEN Minus(blocking) ELSE Plus(blocking)
      /\ flip' = [flip EXCEPT ![o] = None]
      /\ UNCHANGED <<registry, counted, ready>>
  BY DEF Correct
<1>2. blocking' \in 0..(Modulus - 1)
  BY <1>1, ReadinessAssumption DEF Plus, Minus, CountInv, GateTypes
<1>3. GateTypes'
  BY <1>1, <1>2 DEF CountInv, GateTypes
<1>4. flip'[o] = None /\ \A p \in Owners : p # o => flip'[p] = flip[p]
  BY <1>1 DEF CountInv, GateTypes
<1>5. Down' = Down
  BY <1>1 DEF Down
<1>6. ASSUME flip[o].to PROVE CountExact'
  <2>1. Taking' = Taking \ {o} /\ o \in Taking /\ Adding' = Adding
    BY <1>1, <1>4, <1>6 DEF Taking, Adding
  <2>2. Cardinality(Taking') = Cardinality(Taking) - 1
    BY <2>1, OwedType, FS_RemoveElement DEF CountInv
  <2> QED BY <1>1, <1>3, <1>5, <1>6, <2>1, <2>2, CountFollows DEF CountInv
<1>7. ASSUME ~flip[o].to PROVE CountExact'
  <2>1. Adding' = Adding \ {o} /\ o \in Adding /\ Taking' = Taking
    BY <1>1, <1>4, <1>7 DEF Taking, Adding
  <2>2. Cardinality(Adding') = Cardinality(Adding) - 1
    BY <2>1, OwedType, FS_RemoveElement DEF CountInv
  <2> QED BY <1>1, <1>3, <1>5, <1>7, <2>1, <2>2, CountFollows DEF CountInv
<1>8. CountExact'
  BY <1>6, <1>7
<1>9. CountedFirst'
  BY <1>1 DEF CountInv, CountedFirst, Listed
<1> QED BY <1>3, <1>8, <1>9 DEF CountInv

\* The boot latch and the requests leave the gates alone.
LEMMA GatesUntouched ==
  ASSUME CountInv, UNCHANGED <<registry, counted, ready, blocking, flip>>
  PROVE  CountInv'
BY DEF CountInv, GateTypes, CountedFirst, CountExact, Owed, Down, Taking, Adding,
       Listed

LEMMA CountInvStep == CountInv /\ [Next]_vars => CountInv'
<1> SUFFICES ASSUME CountInv, [Next]_vars PROVE CountInv'
  OBVIOUS
<1>1. ASSUME NEW g \in Gates, Count(g) \/ List(g)
      PROVE  CountInv'
  BY <1>1, CountKeepsCountInv, ListKeepsCountInv
<1>2. ASSUME NEW o \in Owners,
             (\E g \in Gates, to \in BOOLEAN : SetReady(o, g, to)) \/ Correct(o)
      PROVE  CountInv'
  BY <1>2, SetReadyKeepsCountInv, CorrectKeepsCountInv
<1>3. CASE Boot
  BY <1>3, GatesUntouched DEF Boot
<1>4. ASSUME NEW r \in Requests, Request(r)
      PROVE  CountInv'
  <2>1. UNCHANGED <<registry, counted, ready, blocking, flip>>
    BY <1>4 DEF Request, ReadLatch, ReadCount, ReadLatchAgain, ReadGate, Answer,
                Arrive, Moves
  <2> QED BY <2>1, GatesUntouched
<1>5. CASE UNCHANGED vars
  BY <1>5, GatesUntouched DEF vars
<1> QED BY <1>1, <1>2, <1>3, <1>4, <1>5 DEF Next

\* The count is exactly the gates that are down, corrected by the flips under way,
\* for any number of gates and of owners that flip them at once, shared or not, as
\* long as gates and owners together are fewer than a usize can count.
THEOREM CountIsExact == Spec => []CountExact
<1>1. Init => CountInv
  BY CountInvInit
<1>2. CountInv /\ [Next]_vars => CountInv'
  BY CountInvStep
<1>3. CountInv => CountExact
  BY DEF CountInv
<1> QED BY <1>1, <1>2, <1>3, PTL DEF Spec

\* Between flips the count is zero exactly when every counted gate is ready: what
\* the test concurrent_flips_leave_readiness_consistent samples.
QuietIsExact ==
  (\A o \in Owners : flip[o] = None) => (blocking = 0 <=> Down = {})

THEOREM QuietCountIsExact == Spec => []QuietIsExact
<1>1. CountInv => QuietIsExact
  <2> SUFFICES ASSUME CountInv, \A o \in Owners : flip[o] = None
               PROVE  blocking = 0 <=> Down = {}
    BY DEF QuietIsExact
  <2>1. Taking = {} /\ Adding = {}
    BY DEF Taking, Adding
  <2>2. Cardinality(Taking) = 0 /\ Cardinality(Adding) = 0
    BY <2>1, FS_EmptySet
  <2>3. Cardinality(Down) \in Nat /\ IsFiniteSet(Down)
    BY OwedType DEF CountInv
  <2>4. blocking = Cardinality(Down)
    BY <2>2, <2>3 DEF CountInv, CountExact, Owed
  <2> QED BY <2>3, <2>4, FS_EmptySet
<1>2. Init => CountInv
  BY CountInvInit
<1>3. CountInv /\ [Next]_vars => CountInv'
  BY CountInvStep
<1> QED BY <1>1, <1>2, <1>3, PTL DEF Spec

-----------------------------------------------------------------------------
(* What the count may hide. *)

\* A flip under way is of a counted gate its owner holds; and when nobody else holds it,
\* the gate still has the value it was given.
FlipsStand ==
  \A o \in Owners : flip[o] # None =>
    /\ flip[o].gate \in Holds[o] /\ flip[o].gate \in counted
    /\ Sole(flip[o].gate) => ready[flip[o].gate] = flip[o].to

StandInv == CountInv /\ FlipsStand

LEMMA SetReadyKeepsFlips ==
  ASSUME StandInv, NEW o \in Owners, NEW g \in Gates, NEW to \in BOOLEAN,
         SetReady(o, g, to)
  PROVE  FlipsStand'
<1> DEFINE new == [gate |-> g, to |-> to]
<1>1. /\ flip[o] = None /\ g \in Holds[o] /\ g \in counted
      /\ ready' = [ready EXCEPT ![g] = to]
      /\ flip' = [flip EXCEPT ![o] = new] /\ counted' = counted
  BY DEF SetReady, StandInv, CountInv, CountedFirst
<1>2. /\ flip'[o] = new /\ \A p \in Owners : p # o => flip'[p] = flip[p]
      /\ ready'[g] = to /\ \A h \in Gates : h # g => ready'[h] = ready[h]
  BY <1>1 DEF StandInv, CountInv, GateTypes
<1>3. new.gate = g /\ new.to = to
  OBVIOUS
<1> HIDE DEF new
<1> SUFFICES ASSUME NEW p \in Owners, flip'[p] # None
             PROVE  /\ flip'[p].gate \in Holds[p] /\ flip'[p].gate \in counted'
                    /\ Sole(flip'[p].gate) => ready'[flip'[p].gate] = flip'[p].to
  BY DEF FlipsStand, Sole
<1>4. CASE p = o
  <2>1. flip'[p].gate = g /\ flip'[p].to = to
    BY <1>2, <1>3, <1>4
  <2> QED BY <1>1, <1>2, <1>4, <2>1
<1>5. CASE p # o
  <2>1. flip'[p] = flip[p] /\ flip[p] \in Flips
    BY <1>2, <1>5 DEF StandInv, CountInv, GateTypes
  <2>2. /\ flip[p].gate \in Gates /\ flip[p].gate \in Holds[p]
        /\ flip[p].gate \in counted'
    BY <1>1, <2>1 DEF Flips, StandInv, FlipsStand
  <2>3. Sole(flip[p].gate) => flip[p].gate # g
    BY <1>1, <1>5, <2>2 DEF Sole
  <2> QED BY <1>2, <2>1, <2>2, <2>3 DEF StandInv, FlipsStand
<1> QED BY <1>4, <1>5

LEMMA CorrectKeepsFlips ==
  ASSUME StandInv, NEW o \in Owners, Correct(o)
  PROVE  FlipsStand'
<1>1. /\ flip' = [flip EXCEPT ![o] = None]
      /\ ready' = ready /\ counted' = counted
  BY DEF Correct
<1>2. flip'[o] = None /\ \A p \in Owners : p # o => flip'[p] = flip[p]
  BY <1>1 DEF StandInv, CountInv, GateTypes
<1> QED BY <1>1, <1>2 DEF StandInv, FlipsStand, Sole

LEMMA StandInvStep == StandInv /\ [Next]_vars => StandInv'
<1> SUFFICES ASSUME StandInv, [Next]_vars PROVE FlipsStand'
  BY CountInvStep DEF StandInv
<1>1. ASSUME UNCHANGED <<ready, flip>>, counted \subseteq counted' PROVE FlipsStand'
  BY <1>1 DEF StandInv, FlipsStand, Sole
<1>2. ASSUME NEW g \in Gates, Count(g) \/ List(g) PROVE FlipsStand'
  BY <1>1, <1>2 DEF Count, List
<1>3. ASSUME NEW o \in Owners,
             (\E g \in Gates, to \in BOOLEAN : SetReady(o, g, to)) \/ Correct(o)
      PROVE  FlipsStand'
  BY <1>3, SetReadyKeepsFlips, CorrectKeepsFlips
<1>4. CASE Boot
  BY <1>1, <1>4 DEF Boot
<1>5. ASSUME NEW r \in Requests, Request(r) PROVE FlipsStand'
  BY <1>1, <1>5 DEF Request, ReadLatch, ReadCount, ReadLatchAgain, ReadGate, Answer,
                    Arrive, Moves
<1>6. CASE UNCHANGED vars
  BY <1>1, <1>6 DEF vars
<1> QED BY <1>2, <1>3, <1>4, <1>5, <1>6 DEF Next

\* A gate that is down and at rest makes the gates that are down more than the
\* flips that have still to be added, when these flips are each of another gate.
LEMMA RestingGateIsCounted ==
  ASSUME StandInv, NEW g \in Listed, Settled(g), ~ready[g],
         \A o \in Adding : Sole(flip[o].gate)
  PROVE  blocking # 0
<1> DEFINE f == [o \in Adding |-> flip[o].gate]
<1>1. g \in Down
  BY DEF StandInv, CountInv, CountedFirst, Down
<1>2. \A o \in Adding : flip[o].gate \in Down \ {g}
  <2> TAKE o \in Adding
  <2>1. /\ o \in Owners /\ flip[o] # None /\ ~flip[o].to /\ flip[o] \in Flips
    BY DEF Adding, StandInv, CountInv, GateTypes
  <2>2. flip[o].gate \in Gates /\ flip[o].to \in BOOLEAN /\ ~ready[flip[o].gate]
    BY <2>1 DEF Flips, StandInv, FlipsStand
  <2> QED BY <2>1, <2>2 DEF Settled, StandInv, CountInv, CountedFirst, Down, FlipsStand
<1>3. \A o, p \in Adding : flip[o].gate = flip[p].gate => o = p
  BY DEF Adding, StandInv, FlipsStand, Sole
<1>4. f \in Injection(Adding, Down \ {g})
  BY <1>2, <1>3 DEF Injection, IsInjective
<1>5. /\ IsFiniteSet(Down) /\ IsFiniteSet(Adding)
      /\ Cardinality(Down) \in Nat /\ Cardinality(Adding) \in Nat
      /\ Cardinality(Taking) \in Nat
  BY OwedType DEF StandInv, CountInv
<1>6. /\ IsFiniteSet(Down \ {g})
      /\ Cardinality(Down \ {g}) = Cardinality(Down) - 1
  BY <1>1, <1>5, FS_RemoveElement
<1>7. Cardinality(Adding) <= Cardinality(Down) - 1
  BY <1>4, <1>6, FS_Injection
<1> QED BY <1>5, <1>7 DEF StandInv, CountInv, CountExact, Owed

\* Gates that have one owner each hide nothing from the count, whatever the number
\* of gates and owners: only a clone can.
THEOREM OnlyClonesHide == Spec => []HiddenOnlyByClones
<1>1. Init => StandInv
  <2> SUFFICES ASSUME Init PROVE FlipsStand
    BY CountInvInit DEF StandInv
  <2> QED BY DEF Init, FlipsStand
<1>2. StandInv /\ [Next]_vars => StandInv'
  BY StandInvStep
<1>3. StandInv => HiddenOnlyByClones
  BY RestingGateIsCounted DEF HiddenOnlyByClones
<1> QED BY <1>1, <1>2, <1>3, PTL DEF Spec

-----------------------------------------------------------------------------
(* What a request reads. *)

Walks == 0..Len(registry) \cup {None}
Reading == [at : Points, named : BOOLEAN, walked : Walks]

\* A walk is of the gates listed, which nobody adds to while the lock is held.
RequestTypes == request \in [Requests -> Reading]

LEMMA MovesAre ==
  ASSUME RequestTypes, NEW r \in Requests, NEW to \in Reading, Moves(r, to)
  PROVE  RequestTypes'
<1>1. UNCHANGED registry /\ request' = [request EXCEPT ![r] = to]
  BY DEF Moves
<1> QED BY <1>1 DEF RequestTypes, Reading, Walks

LEMMA RequestKeepsTypes ==
  ASSUME RequestTypes, registry \in Seq(Gates), NEW r \in Requests, Request(r)
  PROVE  RequestTypes'
<1>1. request[r] \in Reading
  BY DEF RequestTypes
<1>2. Len(registry) \in Nat
  BY LenProperties
<1>3. CASE ReadLatch(r) \/ ReadCount(r)
  <2>1. \E at \in Points : Moves(r, [request[r] EXCEPT !.at = at])
    BY <1>3 DEF ReadLatch, ReadCount, Points, Answers
  <2>2. \A at \in Points : [request[r] EXCEPT !.at = at] \in Reading
    BY <1>1 DEF Reading
  <2> QED BY <2>1, <2>2, MovesAre
<1>4. CASE ReadLatchAgain(r)
  <2>1. \/ Moves(r, [request[r] EXCEPT !.at = "BOOTING"])
        \/ Moves(r, [request[r] EXCEPT !.walked = 0])
    BY <1>4 DEF ReadLatchAgain
  <2>2. 0 \in Walks /\ "BOOTING" \in Points
    BY <1>2 DEF Walks, Points, Answers
  <2>3. /\ [request[r] EXCEPT !.at = "BOOTING"] \in Reading
        /\ [request[r] EXCEPT !.walked = 0] \in Reading
    BY <1>1, <2>2 DEF Reading
  <2> QED BY <2>1, <2>3, MovesAre
<1>5. CASE ReadGate(r)
  <2> DEFINE i == request[r].walked + 1
             named == request[r].named \/ ~ready[registry[i]]
  <2>1. Moves(r, [request[r] EXCEPT !.walked = i, !.named = named])
    BY <1>5 DEF ReadGate
  <2>2. i \in 1..Len(registry)
    BY <1>1, <1>2, <1>5 DEF ReadGate, Reading, Walks
  <2>3. i \in Walks /\ named \in BOOLEAN
    BY <2>2 DEF Walks
  <2> HIDE DEF i, named
  <2>4. [request[r] EXCEPT !.walked = i, !.named = named] \in Reading
    BY <1>1, <2>3 DEF Reading
  <2> QED BY <2>1, <2>4, MovesAre
<1>6. CASE Answer(r)
  <2>1. PICK at \in Points : Moves(r, [request[r] EXCEPT !.at = at, !.walked = None])
    BY <1>6 DEF Answer, Points, Answers
  <2>2. [request[r] EXCEPT !.at = at, !.walked = None] \in Reading
    BY <1>1 DEF Reading, Walks
  <2> QED BY <2>1, <2>2, MovesAre
<1>7. CASE Arrive(r)
  <2>1. New \in Reading
    BY DEF New, Reading, Points, Walks
  <2> QED BY <1>7, <2>1, MovesAre DEF Arrive
<1> QED BY <1>3, <1>4, <1>5, <1>6, <1>7 DEF Request

ReadInv == CountInv /\ RequestTypes /\ booted \in BOOLEAN

LEMMA RequestTypesStep == CountInv /\ RequestTypes /\ [Next]_vars => RequestTypes'
<1> SUFFICES ASSUME CountInv, RequestTypes, [Next]_vars PROVE RequestTypes'
  OBVIOUS
<1>1. registry \in Seq(Gates)
  BY DEF CountInv, GateTypes
<1>2. ASSUME UNCHANGED <<registry, request>> PROVE RequestTypes'
  BY <1>2 DEF RequestTypes, Reading, Walks
<1>3. ASSUME NEW g \in Gates, List(g) PROVE RequestTypes'
  <2>1. \A r \in Requests : request[r].walked = None
    BY <1>3 DEF List, Locked
  <2>2. request \in [Requests -> [at : Points, named : BOOLEAN, walked : {None}]]
    BY <2>1 DEF RequestTypes, Reading
  <2>3. UNCHANGED request
    BY <1>3 DEF List
  <2> QED BY <2>2, <2>3 DEF RequestTypes, Reading, Walks
<1>4. ASSUME NEW r \in Requests, Request(r) PROVE RequestTypes'
  BY <1>1, <1>4, RequestKeepsTypes
<1>5. ASSUME NEW o \in Owners,
             (\E g \in Gates, to \in BOOLEAN : SetReady(o, g, to)) \/ Correct(o)
      PROVE  RequestTypes'
  BY <1>2, <1>5 DEF SetReady, Correct
<1>6. CASE (\E g \in Gates : Count(g)) \/ Boot \/ UNCHANGED vars
  BY <1>2, <1>6 DEF Count, Boot, vars
<1> QED BY <1>3, <1>4, <1>5, <1>6 DEF Next

\* A walk never leaves the gates listed, since registration waits for the lock it
\* holds: the gate it reads next is there (gate, blocked_on).
THEOREM WalksStayListed == Spec => []TypeOK
<1>1. Init => ReadInv
  <2> SUFFICES ASSUME Init PROVE RequestTypes /\ booted \in BOOLEAN
    BY CountInvInit DEF ReadInv
  <2>1. New \in Reading
    BY DEF New, Reading, Points, Walks
  <2> QED BY <2>1 DEF Init, RequestTypes
<1>2. ReadInv /\ [Next]_vars => ReadInv'
  <2> SUFFICES ASSUME ReadInv, [Next]_vars PROVE booted' \in BOOLEAN
    BY CountInvStep, RequestTypesStep DEF ReadInv
  <2> QED BY DEF ReadInv, Next, Count, List, SetReady, Correct, Boot, Request, ReadLatch, ReadCount,
         ReadLatchAgain, ReadGate, Answer, Arrive, Moves, vars
<1>3. ReadInv => TypeOK
  BY DEF ReadInv, CountInv, GateTypes, RequestTypes, Reading, Walks, TypeOK
<1> QED BY <1>1, <1>2, <1>3, PTL DEF Spec

=============================================================================
