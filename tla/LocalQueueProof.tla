--------------------------- MODULE LocalQueueProof ---------------------------
(***************************************************************************)
(* Proofs about LocalQueue, for every set of keys, payloads and producers, *)
(* and every capacity and limit: what its operations do to a line, the     *)
(* invariants under its mutex, the refinement of KeyLifecycle, the order   *)
(* of service and of eviction, and how often a message is handled.        *)
(***************************************************************************)
EXTENDS LocalQueue, SequenceTheorems, FiniteSetTheorems, TLAPS

\* Removing one element closes the gap and moves nothing else.
LEMMA RemoveAtLine ==
  ASSUME NEW S, NEW s \in Seq(S), NEW i \in 1..Len(s)
  PROVE  /\ RemoveAt(s, i) \in Seq(S)
         /\ Len(RemoveAt(s, i)) = Len(s) - 1
         /\ \A j \in 1..(Len(s) - 1) :
              RemoveAt(s, i)[j] = IF j < i THEN s[j] ELSE s[j + 1]
<1> DEFINE a == SubSeq(s, 1, i - 1)
           b == SubSeq(s, i + 1, Len(s))
<1>0. Len(s) \in Nat /\ i \in Nat /\ 1 <= i /\ i <= Len(s)
  BY LenProperties
<1>1. /\ a \in Seq(S) /\ Len(a) = i - 1
      /\ \A j \in 1..(i - 1) : a[j] = s[j]
  <2>1. \A j \in 1..(i - 1) : s[j] \in S
    BY <1>0, ElementOfSeq
  <2> QED BY <1>0, <2>1, SubSeqProperties
<1>2. /\ b \in Seq(S) /\ Len(b) = Len(s) - i
      /\ \A j \in 1..(Len(s) - i) : b[j] = s[i + j]
  <2>1. \A j \in (i + 1)..Len(s) : s[j] \in S
    BY <1>0, ElementOfSeq
  <2> QED BY <1>0, <2>1, SubSeqProperties
<1> HIDE DEF a, b
<1>3. /\ a \o b \in Seq(S) /\ Len(a \o b) = Len(s) - 1
      /\ \A j \in 1..(Len(s) - 1) :
           (a \o b)[j] = IF j <= i - 1 THEN a[j] ELSE b[j - (i - 1)]
  <2>1. /\ a \o b \in Seq(S) /\ Len(a \o b) = Len(a) + Len(b)
        /\ \A j \in 1..(Len(a) + Len(b)) :
             (a \o b)[j] = IF j <= Len(a) THEN a[j] ELSE b[j - Len(a)]
    BY <1>1, <1>2, ConcatProperties
  <2>2. Len(a) = i - 1 /\ Len(a) + Len(b) = Len(s) - 1
    BY <1>0, <1>1, <1>2
  <2> QED BY <2>1, <2>2
<1>4. \A j \in 1..(Len(s) - 1) :
        (a \o b)[j] = IF j < i THEN s[j] ELSE s[j + 1]
  BY <1>0, <1>1, <1>2, <1>3
<1> QED BY <1>3, <1>4 DEF RemoveAt, a, b

\* The position of a key that is in the line.
LEMMA IndexFound ==
  ASSUME NEW S, NEW s \in Seq(S), NEW k, HasKey(s, k)
  PROVE  IndexOfKey(s, k) \in 1..Len(s) /\ s[IndexOfKey(s, k)].key = k
BY DEF HasKey, IndexOfKey

\* A line without one of its keys: that key is gone, the others stay, and
\* distinct keys stay distinct.
LEMMA WithoutKeyLine ==
  ASSUME NEW S, NEW s \in Seq(S), NEW k, KeysDistinct(s)
  PROVE  /\ WithoutKey(s, k) \in Seq(S)
         /\ Len(WithoutKey(s, k)) = IF HasKey(s, k) THEN Len(s) - 1 ELSE Len(s)
         /\ KeysDistinct(WithoutKey(s, k))
         /\ ~HasKey(WithoutKey(s, k), k)
         /\ \A j \in 1..Len(WithoutKey(s, k)) :
              \E i \in 1..Len(s) : WithoutKey(s, k)[j] = s[i]
         /\ \A h : h # k => (HasKey(WithoutKey(s, k), h) <=> HasKey(s, h))
<1>1. CASE ~HasKey(s, k)
  BY <1>1 DEF WithoutKey, HasKey
<1>2. CASE HasKey(s, k)
  <2> DEFINE i == IndexOfKey(s, k)
             t == RemoveAt(s, i)
  <2>1. i \in 1..Len(s) /\ s[i].key = k
    BY <1>2, IndexFound
  <2> HIDE DEF i
  <2>2. /\ t \in Seq(S) /\ Len(t) = Len(s) - 1
        /\ \A j \in 1..(Len(s) - 1) : t[j] = IF j < i THEN s[j] ELSE s[j + 1]
    BY <2>1, RemoveAtLine
  <2> HIDE DEF t
  <2>3. WithoutKey(s, k) = t
    BY <1>2 DEF WithoutKey, i, t
  <2>4. \A j \in 1..Len(t) : \E n \in 1..Len(s) : t[j] = s[n] /\ n # i
    <3> SUFFICES ASSUME NEW j \in 1..Len(t)
                 PROVE  \E n \in 1..Len(s) : t[j] = s[n] /\ n # i
      OBVIOUS
    <3> Len(s) \in Nat
      OBVIOUS
    <3>1. CASE j < i
      BY <3>1, <2>1, <2>2
    <3>2. CASE ~(j < i)
      <4>1. j + 1 \in 1..Len(s) /\ t[j] = s[j + 1] /\ j + 1 # i
        BY <3>2, <2>1, <2>2
      <4> QED BY <4>1
    <3> QED BY <3>1, <3>2
  <2>5. KeysDistinct(t)
    <3> SUFFICES ASSUME NEW j \in 1..Len(t), NEW n \in 1..Len(t),
                        t[j].key = t[n].key
                 PROVE  j = n
      BY DEF KeysDistinct
    <3> Len(s) \in Nat
      OBVIOUS
    <3> DEFINE up(x) == IF x < i THEN x ELSE x + 1
    <3>1. up(j) \in 1..Len(s) /\ up(n) \in 1..Len(s)
      BY <2>1, <2>2
    <3>2. s[up(j)].key = s[up(n)].key
      BY <2>2
    <3>3. up(j) = up(n)
      BY <3>1, <3>2 DEF KeysDistinct
    <3> QED BY <3>3, <2>1, <2>2
  <2>6. ~HasKey(t, k)
    <3> SUFFICES ASSUME NEW j \in 1..Len(t), t[j].key = k
                 PROVE  FALSE
      BY DEF HasKey
    <3>1. PICK n \in 1..Len(s) : t[j] = s[n] /\ n # i
      BY <2>4
    <3> QED BY <3>1, <2>1 DEF KeysDistinct
  <2>7. ASSUME NEW h, h # k
        PROVE  HasKey(t, h) <=> HasKey(s, h)
    <3>1. ASSUME HasKey(t, h)
          PROVE  HasKey(s, h)
      BY <3>1, <2>4 DEF HasKey
    <3>2. ASSUME HasKey(s, h)
          PROVE  HasKey(t, h)
      <4> Len(s) \in Nat
        OBVIOUS
      <4>1. PICK n \in 1..Len(s) : s[n].key = h
        BY <3>2 DEF HasKey
      <4>2. n # i
        BY <4>1, <2>1, <2>7
      <4> DEFINE j == IF n < i THEN n ELSE n - 1
      <4>3. j \in 1..Len(t) /\ t[j] = s[n]
        BY <4>2, <2>1, <2>2
      <4> QED BY <4>1, <4>3 DEF HasKey
    <3> QED BY <3>1, <3>2
  <2> QED
    BY <1>2, <2>2, <2>3, <2>4, <2>5, <2>6, <2>7
<1> QED BY <1>1, <1>2
\* A new key at the end of a line.
LEMMA AppendLine ==
  ASSUME NEW S, NEW s \in Seq(S), NEW e \in S,
         KeysDistinct(s), ~HasKey(s, e.key)
  PROVE  /\ Append(s, e) \in Seq(S)
         /\ Len(Append(s, e)) = Len(s) + 1
         /\ KeysDistinct(Append(s, e))
         /\ \A j \in 1..(Len(s) + 1) :
              Append(s, e)[j] = IF j <= Len(s) THEN s[j] ELSE e
         /\ \A h : HasKey(Append(s, e), h) <=> HasKey(s, h) \/ h = e.key
<1> DEFINE t == Append(s, e)
<1>1. /\ t \in Seq(S) /\ Len(t) = Len(s) + 1
      /\ \A j \in 1..(Len(s) + 1) : t[j] = IF j <= Len(s) THEN s[j] ELSE e
  BY AppendProperties, LenProperties
<1>2. Len(s) \in Nat
  BY LenProperties
<1> HIDE DEF t
<1>3. KeysDistinct(t)
  BY <1>1, <1>2 DEF KeysDistinct, HasKey
<1>4. ASSUME NEW h
      PROVE  HasKey(t, h) <=> HasKey(s, h) \/ h = e.key
  BY <1>1, <1>2 DEF HasKey
<1> QED BY <1>1, <1>3, <1>4 DEF t

\* Taking the head of a line.
LEMMA TailLine ==
  ASSUME NEW S, NEW s \in Seq(S), s # <<>>, KeysDistinct(s)
  PROVE  /\ Head(s) \in S /\ Head(s) = s[1]
         /\ Tail(s) \in Seq(S)
         /\ Len(Tail(s)) = Len(s) - 1
         /\ KeysDistinct(Tail(s))
         /\ \A j \in 1..(Len(s) - 1) : Tail(s)[j] = s[j + 1]
         /\ ~HasKey(Tail(s), Head(s).key)
         /\ \A h : h # Head(s).key => (HasKey(Tail(s), h) <=> HasKey(s, h))
<1> DEFINE t == Tail(s)
<1>1. /\ Head(s) \in S /\ t \in Seq(S) /\ Len(t) = Len(s) - 1
      /\ \A j \in 1..(Len(s) - 1) : t[j] = s[j + 1]
      /\ Head(s) = s[1]
  BY HeadTailProperties
<1>2. Len(s) \in Nat \ {0}
  BY EmptySeq
<1> HIDE DEF t
<1>3. KeysDistinct(t)
  BY <1>1, <1>2 DEF KeysDistinct
<1>4. ~HasKey(t, s[1].key)
  BY <1>1, <1>2 DEF KeysDistinct, HasKey
<1>5. ASSUME NEW h, h # s[1].key
      PROVE  HasKey(t, h) <=> HasKey(s, h)
  <2>1. ASSUME NEW j \in 1..Len(s), s[j].key = h
        PROVE  HasKey(t, h)
    <3>1. j - 1 \in 1..Len(t) /\ t[j - 1] = s[j]
      BY <2>1, <1>1, <1>2, <1>5
    <3> QED BY <3>1, <2>1 DEF HasKey
  <2>2. ASSUME NEW j \in 1..Len(t), t[j].key = h
        PROVE  HasKey(s, h)
    <3>1. j + 1 \in 1..Len(s) /\ t[j] = s[j + 1]
      BY <1>1, <1>2
    <3> QED BY <3>1, <2>2 DEF HasKey
  <2> QED BY <2>1, <2>2 DEF HasKey
<1> QED BY <1>1, <1>3, <1>4, <1>5 DEF t

\* Keeping the newest n of a line.
LEMMA NewestLine ==
  ASSUME NEW S, NEW s \in Seq(S), NEW n \in Nat, KeysDistinct(s)
  PROVE  /\ Newest(s, n) \in Seq(S)
         /\ Len(Newest(s, n)) = IF Len(s) > n THEN n ELSE Len(s)
         /\ KeysDistinct(Newest(s, n))
         /\ \A j \in 1..Len(Newest(s, n)) :
              \E i \in 1..Len(s) : Newest(s, n)[j] = s[i]
         /\ \A h : HasKey(Newest(s, n), h) => HasKey(s, h)
<1>1. Len(s) \in Nat
  BY LenProperties
<1>2. CASE Len(s) > n
  <2> DEFINE d == Len(s) - n
             t == SubSeq(s, d + 1, Len(s))
  <2>1. d \in Nat /\ d + 1 \in Int
    BY <1>1, <1>2
  <2>2. \A j \in (d + 1)..Len(s) : s[j] \in S
    BY <1>1, <2>1, ElementOfSeq
  <2>3. /\ t \in Seq(S) /\ Len(t) = n
        /\ \A j \in 1..n : t[j] = s[d + j]
    BY <1>1, <1>2, <2>1, <2>2, SubSeqProperties
  <2>4. Newest(s, n) = t
    BY <1>1, <1>2 DEF Newest
  <2> HIDE DEF t
  <2>5. \A j \in 1..n : d + j \in 1..Len(s)
    BY <1>1, <1>2
  <2> HIDE DEF d
  <2>6. \A i, j \in 1..n : d + i = d + j => i = j
    BY <2>1
  <2>7. KeysDistinct(t)
    BY <2>3, <2>5, <2>6 DEF KeysDistinct
  <2> QED BY <1>2, <2>3, <2>4, <2>5, <2>7 DEF HasKey
<1>3. CASE ~(Len(s) > n)
  BY <1>1, <1>3 DEF Newest
<1> QED BY <1>2, <1>3

\* An entry replaced by one of its own key.
LEMMA ReplaceLine ==
  ASSUME NEW S, NEW s \in Seq(S), NEW i \in 1..Len(s), NEW e \in S,
         e.key = s[i].key, KeysDistinct(s)
  PROVE  /\ ReplaceAt(s, i, e) \in Seq(S) /\ Len(ReplaceAt(s, i, e)) = Len(s)
         /\ \A j \in 1..Len(s) : ReplaceAt(s, i, e)[j] = IF j = i THEN e ELSE s[j]
         /\ KeysDistinct(ReplaceAt(s, i, e))
         /\ \A h : HasKey(ReplaceAt(s, i, e), h) <=> HasKey(s, h)
<1> DEFINE r == ReplaceAt(s, i, e)
<1>1. r \in Seq(S) /\ Len(r) = Len(s)
  BY ExceptSeq DEF ReplaceAt
<1>2. \A j \in 1..Len(s) : r[j] = IF j = i THEN e ELSE s[j]
  BY ExceptSeq DEF ReplaceAt
<1> HIDE DEF r
<1>3. \A j \in 1..Len(s) : r[j].key = s[j].key
  BY <1>2
<1>4. KeysDistinct(r)
  BY <1>1, <1>3 DEF KeysDistinct
<1>5. \A h : HasKey(r, h) <=> HasKey(s, h)
  BY <1>1, <1>3 DEF HasKey
<1> QED BY <1>1, <1>2, <1>4, <1>5 DEF r

-----------------------------------------------------------------------------

\* The part of the state that the queue's mutex guards is sound: the strengthening
\* under which TypeOK, OnePlacePerKey and WithinCapacity are inductive.  set_aside
\* and retry read in_flight, so they need HandledIsInHand.
QueueInv == TypeOK /\ HandledIsInHand /\ OnePlacePerKey /\ WithinCapacity

LEMMA QueueInvInit == Init => QueueInv
<1> SUFFICES ASSUME Init PROVE QueueInv
  OBVIOUS
<1>1. queued = <<>> /\ dead = <<>> /\ inFlight = None /\ pc = "new"
  BY DEF Init
<1>2. TypeOK
  <2>1. queued \in Seq(Entry) /\ dead \in Seq(Aside)
    BY <1>1, EmptySeq
  <2>2. runs \in [Keys -> 0..MaxU32] /\ crashes \in 0..MaxCrashes
    BY QueueAssumption DEF Init
  <2>3. prod \in [Producers -> {"idle", "notify"}]
    BY DEF Init
  <2>4. /\ pc \in ControlPoints /\ msg \in Payloads \cup {None}
        /\ inFlight \in InHand \cup {None} /\ permit \in BOOLEAN
        /\ leader \in BOOLEAN /\ chanOpen \in BOOLEAN
    BY DEF Init, ControlPoints
  <2>5. ha \in BOOLEAN
    BY QueueAssumption DEF Init
  <2> QED BY <2>1, <2>2, <2>3, <2>4, <2>5 DEF TypeOK
<1>3. OnePlacePerKey
  BY <1>1 DEF OnePlacePerKey, KeysDistinct, HasKey, InHandKey
<1>4. WithinCapacity
  BY <1>1, QueueAssumption DEF WithinCapacity, Held
<1>5. HandledIsInHand
  BY <1>1 DEF HandledIsInHand
<1> QED BY <1>2, <1>3, <1>4, <1>5 DEF QueueInv

-----------------------------------------------------------------------------
(* A step that leaves the queue alone. *)

LEMMA LineUntouched ==
  ASSUME QueueInv, UNCHANGED line, TypeOK', HandledIsInHand'
  PROVE  QueueInv'
BY DEF QueueInv, line, OnePlacePerKey, WithinCapacity, KeysDistinct, HasKey,
       InHandKey, Held

LEMMA HeldType ==
  ASSUME TypeOK PROVE Held \in Nat /\ Len(queued) \in Nat /\ Len(dead) \in Nat
BY LenProperties DEF TypeOK, Held

-----------------------------------------------------------------------------
(* Producers *)

\* A fresh entry of a key that has no place in the line yet and is not dead.
LEMMA FreshEntry ==
  ASSUME NEW k \in Keys, NEW m \in Payloads
  PROVE  Fresh(k, m) \in Entry /\ Fresh(k, m).key = k
BY QueueAssumption DEF Fresh, Entry, Reasons

LEMMA SendKeepsQueueInv ==
  ASSUME QueueInv, NEW p \in Producers, NEW k \in Keys, NEW m \in Payloads,
         Send(p, k, m)
  PROVE  QueueInv'
<1> USE DEF QueueInv
<1>1. CASE Admits(k)
  <2>1. /\ queued' = Append(queued, Fresh(k, m))
        /\ prod' = [prod EXCEPT ![p] = "notify"]
        /\ UNCHANGED <<inFlight, dead, permit, pc, msg, crashes, election, runs>>
    BY <1>1 DEF Send
  <2>2. ~HasKey(dead, k) /\ ~HasKey(queued, k) /\ HasRoom
    BY <1>1 DEF Admits
  <2>3. /\ queued' \in Seq(Entry) /\ Len(queued') = Len(queued) + 1
        /\ KeysDistinct(queued')
        /\ \A h : HasKey(queued', h) <=> HasKey(queued, h) \/ h = k
    BY <2>1, <2>2, FreshEntry, AppendLine DEF TypeOK, OnePlacePerKey
  <2>4. TypeOK'
    BY <2>1, <2>3 DEF TypeOK, election
  <2>5. OnePlacePerKey'
    BY <2>1, <2>2, <2>3 DEF OnePlacePerKey, InHandKey
  <2>6. WithinCapacity'
    BY <2>1, <2>2, <2>3, HeldType, QueueAssumption DEF WithinCapacity, Held, HasRoom
  <2>7. HandledIsInHand'
    BY <2>1 DEF HandledIsInHand
  <2> QED BY <2>4, <2>5, <2>6, <2>7
<1>2. CASE ~Admits(k)
  <2>1. UNCHANGED vars
    BY <1>2 DEF Send, vars, election
  <2>2. TypeOK' /\ HandledIsInHand'
    BY <2>1 DEF vars, TypeOK, HandledIsInHand
  <2> QED BY <2>1, <2>2, LineUntouched DEF vars, line
<1> QED BY <1>1, <1>2

\* A key leaves the dead letters.
LEMMA DeadWithout ==
  ASSUME TypeOK, KeysDistinct(dead), NEW k
  PROVE  /\ WithoutKey(dead, k) \in Seq(Aside)
         /\ Len(WithoutKey(dead, k)) \in Nat
         /\ Len(WithoutKey(dead, k)) <= Len(dead)
         /\ KeysDistinct(WithoutKey(dead, k))
         /\ ~HasKey(WithoutKey(dead, k), k)
         /\ \A h : h # k => (HasKey(WithoutKey(dead, k), h) <=> HasKey(dead, h))
<1>1. dead \in Seq(Aside) /\ Len(dead) \in Nat
  BY HeldType DEF TypeOK
<1>2. Len(WithoutKey(dead, k)) = IF HasKey(dead, k) THEN Len(dead) - 1 ELSE Len(dead)
  BY <1>1, WithoutKeyLine
<1>3. WithoutKey(dead, k) \in Seq(Aside)
  BY <1>1, WithoutKeyLine
<1>4. Len(WithoutKey(dead, k)) \in Nat
  BY <1>3, LenProperties
<1>5. /\ KeysDistinct(WithoutKey(dead, k))
      /\ ~HasKey(WithoutKey(dead, k), k)
      /\ \A h : h # k => (HasKey(WithoutKey(dead, k), h) <=> HasKey(dead, h))
  BY <1>1, WithoutKeyLine
<1> QED BY <1>1, <1>2, <1>3, <1>4, <1>5

LEMMA RequeueKeepsQueueInv ==
  ASSUME QueueInv, NEW p \in Producers, NEW k \in Keys, Requeue(p, k)
  PROVE  QueueInv'
<1> USE DEF QueueInv
<1> DEFINE m == dead[IndexOfKey(dead, k)].msg
<1>1. /\ queued' = Append(queued, Fresh(k, m))
      /\ dead' = WithoutKey(dead, k)
      /\ prod' = [prod EXCEPT ![p] = "notify"]
      /\ UNCHANGED <<inFlight, permit, pc, msg, crashes, election, runs>>
      /\ HasKey(dead, k) /\ HasRoom
  BY DEF Requeue
<1>2. m \in Payloads
  <2>1. IndexOfKey(dead, k) \in 1..Len(dead)
    BY <1>1, IndexFound DEF TypeOK
  <2>2. dead[IndexOfKey(dead, k)] \in Aside
    BY <2>1, ElementOfSeq DEF TypeOK
  <2> QED BY <2>2 DEF Aside
<1> HIDE DEF m
<1>3. ~HasKey(queued, k) /\ ~InHandKey(k)
  BY <1>1 DEF OnePlacePerKey
<1>4. /\ queued' \in Seq(Entry) /\ Len(queued') = Len(queued) + 1
      /\ KeysDistinct(queued')
      /\ \A h : HasKey(queued', h) <=> HasKey(queued, h) \/ h = k
  BY <1>1, <1>2, <1>3, FreshEntry, AppendLine DEF TypeOK, OnePlacePerKey
<1>5. /\ dead' \in Seq(Aside)
      /\ Len(dead') \in Nat /\ Len(dead') <= Len(dead)
      /\ KeysDistinct(dead') /\ ~HasKey(dead', k)
      /\ \A h : h # k => (HasKey(dead', h) <=> HasKey(dead, h))
  BY <1>1, DeadWithout DEF OnePlacePerKey
<1>6. TypeOK'
  BY <1>1, <1>4, <1>5 DEF TypeOK, election
<1>7. OnePlacePerKey'
  BY <1>1, <1>3, <1>4, <1>5 DEF OnePlacePerKey, InHandKey
<1>8. WithinCapacity'
  <2>1. Len(dead') \in Nat /\ Len(dead') <= DeadCapacity
    BY <1>5, HeldType, QueueAssumption DEF WithinCapacity
  <2> QED
    BY <1>1, <1>4, <2>1, HeldType, QueueAssumption DEF WithinCapacity, Held, HasRoom
<1>9. HandledIsInHand'
  BY <1>1 DEF HandledIsInHand
<1> QED BY <1>6, <1>7, <1>8, <1>9

LEMMA ForgetKeepsQueueInv ==
  ASSUME QueueInv, NEW p \in Producers, NEW k \in Keys, Forget(p, k)
  PROVE  QueueInv'
<1> USE DEF QueueInv
<1>1. /\ dead' = WithoutKey(dead, k)
      /\ UNCHANGED <<queued, inFlight, permit, prod, pc, msg, crashes, election, runs>>
  BY DEF Forget
<1>2. /\ dead' \in Seq(Aside)
      /\ Len(dead') \in Nat /\ Len(dead') <= Len(dead)
      /\ KeysDistinct(dead') /\ ~HasKey(dead', k)
      /\ \A h : h # k => (HasKey(dead', h) <=> HasKey(dead, h))
  BY <1>1, DeadWithout DEF OnePlacePerKey
<1>3. TypeOK'
  BY <1>1, <1>2 DEF TypeOK, election
<1>4. OnePlacePerKey'
  BY <1>1, <1>2 DEF OnePlacePerKey, InHandKey
<1>5. WithinCapacity'
  BY <1>1, <1>2, <1>3, HeldType, LenProperties, QueueAssumption
     DEF WithinCapacity, Held, TypeOK
<1>6. HandledIsInHand'
  BY <1>1 DEF HandledIsInHand
<1> QED BY <1>3, <1>4, <1>5, <1>6

-----------------------------------------------------------------------------
(* The executor *)

LEMMA TakeKeepsQueueInv ==
  ASSUME QueueInv, Take
  PROVE  QueueInv'
<1> USE DEF QueueInv
<1> DEFINE e == Head(queued)
<1>1. /\ queued # <<>> /\ pc \in {"look", "woken"} /\ pc' = "handling"
      /\ queued' = Tail(queued)
      /\ inFlight' = [key |-> e.key, attempts |-> Bumped(e.attempts),
                      reason |-> e.reason]
      /\ msg' = e.msg
      /\ runs' = [runs EXCEPT ![e.key] = Bumped(@)]
      /\ UNCHANGED <<dead, permit, prod, crashes, election>>
  BY DEF Take
<1>2. inFlight = None
  BY <1>1 DEF HandledIsInHand
<1>3. /\ e \in Entry /\ e = queued[1]
      /\ queued' \in Seq(Entry) /\ Len(queued') = Len(queued) - 1
      /\ KeysDistinct(queued') /\ ~HasKey(queued', e.key)
      /\ \A h : h # e.key => (HasKey(queued', h) <=> HasKey(queued, h))
  BY <1>1, TailLine DEF TypeOK, OnePlacePerKey
<1>4. HasKey(queued, e.key)
  <2>1. 1 \in 1..Len(queued)
    BY <1>1, EmptySeq DEF TypeOK
  <2> QED BY <1>3, <2>1 DEF HasKey
<1> HIDE DEF e
<1>5. /\ e.key \in Keys /\ e.msg \in Payloads /\ e.reason \in Reasons
      /\ Bumped(e.attempts) \in 1..MaxU32
  BY <1>3, QueueAssumption DEF Entry, Bumped
<1>6. inFlight' \in InHand
  BY <1>1, <1>5 DEF InHand
<1>7. runs' \in [Keys -> 0..MaxU32]
  BY <1>1, <1>5, QueueAssumption DEF TypeOK, Bumped
<1>8. TypeOK'
  BY <1>1, <1>3, <1>5, <1>6, <1>7 DEF TypeOK, election, ControlPoints, AwaitPoints
<1>9. OnePlacePerKey'
  <2>1. inFlight'.key = e.key
    BY <1>1
  <2> QED BY <1>1, <1>3, <1>4, <2>1 DEF OnePlacePerKey, InHandKey
<1>10. WithinCapacity'
  BY <1>1, <1>2, <1>3, <1>6, NoHandAssumption, HeldType, QueueAssumption
     DEF WithinCapacity, Held
<1>11. HandledIsInHand'
  BY <1>1, <1>5, <1>6, NoHandAssumption, QueueAssumption DEF HandledIsInHand
<1> QED BY <1>8, <1>9, <1>10, <1>11

\* A cleared count is still a count.
LEMMA ClearedType ==
  ASSUME NEW r \in [Keys -> 0..MaxU32], NEW k
  PROVE  Cleared(r, k) \in [Keys -> 0..MaxU32]
<1>1. 0 \in 0..MaxU32
  BY QueueAssumption
<1> QED BY <1>1 DEF Cleared

\* What set_aside does to the two lines.
LEMMA SetAsideLines ==
  ASSUME QueueInv, inFlight # None, msg # None,
         NEW cause \in Causes, NEW reason \in Reasons, SetAside(cause, reason)
  PROVE  /\ queued' \in Seq(Entry) /\ Len(queued') <= Len(queued)
         /\ KeysDistinct(queued') /\ ~HasKey(queued', inFlight.key)
         /\ \A h : HasKey(queued', h) => HasKey(queued, h)
         /\ dead' \in Seq(Aside) /\ Len(dead') <= DeadCapacity
         /\ KeysDistinct(dead')
         /\ \A h : HasKey(dead', h) => HasKey(dead, h) \/ h = inFlight.key
<1> USE DEF QueueInv
<1> DEFINE k == inFlight.key
           letter == [key |-> k, msg |-> msg, cause |-> cause,
                      attempts |-> inFlight.attempts, reason |-> reason]
<1>1. /\ queued' = WithoutKey(queued, k)
      /\ dead' = Newest(Append(dead, letter), DeadCapacity)
  BY DEF SetAside
<1>2. k \in Keys /\ inFlight.attempts \in 1..MaxU32 /\ msg \in Payloads
  BY DEF TypeOK, InHand
<1>3. letter \in Aside /\ letter.key = k
  BY <1>2 DEF Aside
<1>4. ~HasKey(dead, k)
  BY <1>2 DEF OnePlacePerKey, InHandKey
<1> HIDE DEF letter
<1>5. /\ Append(dead, letter) \in Seq(Aside)
      /\ KeysDistinct(Append(dead, letter))
      /\ \A h : HasKey(Append(dead, letter), h) <=> HasKey(dead, h) \/ h = k
  BY <1>3, <1>4, AppendLine DEF TypeOK, OnePlacePerKey
<1>6. /\ dead' \in Seq(Aside) /\ KeysDistinct(dead')
      /\ \A h : HasKey(dead', h) => HasKey(Append(dead, letter), h)
      /\ Len(dead') = IF Len(Append(dead, letter)) > DeadCapacity
                      THEN DeadCapacity ELSE Len(Append(dead, letter))
  BY <1>1, <1>5, NewestLine, QueueAssumption
<1>7. Len(dead') <= DeadCapacity
  <2>1. Len(Append(dead, letter)) \in Nat
    BY <1>5, LenProperties
  <2> QED BY <1>6, <2>1, QueueAssumption
<1>8. /\ queued' \in Seq(Entry) /\ KeysDistinct(queued') /\ ~HasKey(queued', k)
      /\ \A h : h # k => (HasKey(queued', h) <=> HasKey(queued, h))
      /\ Len(queued') = IF HasKey(queued, k) THEN Len(queued) - 1 ELSE Len(queued)
  BY <1>1, WithoutKeyLine DEF TypeOK, OnePlacePerKey
<1>9. Len(queued') <= Len(queued)
  BY <1>8, HeldType
<1>10. \A h : HasKey(queued', h) => HasKey(queued, h)
  BY <1>8
<1> QED BY <1>5, <1>6, <1>7, <1>8, <1>9, <1>10

LEMMA SetAsideKeepsQueueInv ==
  ASSUME QueueInv, pc = "handling",
         NEW cause \in Causes, NEW reason \in Reasons, SetAside(cause, reason)
  PROVE  QueueInv'
<1> USE DEF QueueInv
<1>1. inFlight # None /\ msg # None
  BY DEF HandledIsInHand
<1>2. /\ inFlight' = None /\ msg' = None /\ pc' = "hook"
      /\ runs' = Cleared(runs, inFlight.key)
      /\ UNCHANGED <<permit, prod, crashes, election>>
  BY DEF SetAside
<1>3. runs' \in [Keys -> 0..MaxU32]
  BY <1>2, ClearedType DEF TypeOK
<1>4. /\ queued' \in Seq(Entry) /\ Len(queued') <= Len(queued)
      /\ KeysDistinct(queued') /\ ~HasKey(queued', inFlight.key)
      /\ \A h : HasKey(queued', h) => HasKey(queued, h)
      /\ dead' \in Seq(Aside) /\ Len(dead') <= DeadCapacity
      /\ KeysDistinct(dead')
      /\ \A h : HasKey(dead', h) => HasKey(dead, h) \/ h = inFlight.key
  BY <1>1, SetAsideLines
<1>5. TypeOK'
  BY <1>2, <1>3, <1>4 DEF TypeOK, election, ControlPoints, AwaitPoints
<1>6. OnePlacePerKey'
  BY <1>2, <1>4 DEF OnePlacePerKey, InHandKey
<1>7. WithinCapacity'
  <2>1. Len(queued') \in Nat
    BY <1>4, LenProperties
  <2> QED
    BY <1>1, <1>2, <1>4, <2>1, HeldType, QueueAssumption DEF WithinCapacity, Held
<1>8. HandledIsInHand'
  BY <1>2 DEF HandledIsInHand
<1> QED BY <1>5, <1>6, <1>7, <1>8

LEMMA RetryKeepsQueueInv ==
  ASSUME QueueInv, HandleRetry
  PROVE  QueueInv'
<1> USE DEF QueueInv
<1> DEFINE k == inFlight.key
           i == IndexOfKey(queued, k)
           back(m) == [key |-> k, msg |-> m, attempts |-> inFlight.attempts,
                       reason |-> "retry"]
<1>1. /\ pc = "handling" /\ pc' = "retryDelay" /\ inFlight' = None /\ msg' = None
      /\ queued' = IF HasKey(queued, k) THEN ReplaceAt(queued, i, back(queued[i].msg))
                   ELSE Append(queued, back(msg))
      /\ UNCHANGED <<dead, permit, prod, crashes, election, runs>>
  BY DEF HandleRetry
<1>2. inFlight # None /\ inFlight \in InHand /\ msg \in Payloads
  BY <1>1 DEF HandledIsInHand, TypeOK
<1>3. \A m \in Payloads : back(m) \in Entry /\ back(m).key = k
  <2>1. k \in Keys /\ inFlight.attempts \in 0..MaxU32
    BY <1>2, QueueAssumption DEF InHand
  <2> QED BY <1>2, <2>1 DEF Entry, Reasons
<1>4. ~HasKey(dead, k)
  BY <1>2 DEF OnePlacePerKey, InHandKey, InHand
<1>5. /\ queued' \in Seq(Entry) /\ KeysDistinct(queued')
      /\ Len(queued') <= Len(queued) + 1
      /\ \A h : HasKey(queued', h) <=> HasKey(queued, h) \/ h = k
  <2>1. CASE HasKey(queued, k)
    <3>1. i \in 1..Len(queued) /\ queued[i].key = k
      BY <2>1, IndexFound DEF TypeOK
    <3>2. queued[i] \in Entry
      BY <3>1, ElementOfSeq DEF TypeOK
    <3> DEFINE taken == back(queued[i].msg)
    <3>3. taken \in Entry /\ taken.key = k
      BY <1>3, <3>2 DEF Entry
    <3>4. queued' = ReplaceAt(queued, i, taken)
      BY <1>1, <2>1
    <3> HIDE DEF taken, i
    <3>5. /\ queued' \in Seq(Entry) /\ Len(queued') = Len(queued)
          /\ KeysDistinct(queued')
          /\ \A h : HasKey(queued', h) <=> HasKey(queued, h)
      BY <3>1, <3>3, <3>4, ReplaceLine DEF TypeOK, OnePlacePerKey
    <3> QED BY <2>1, <3>5, HeldType
  <2>2. CASE ~HasKey(queued, k)
    <3>0. back(msg) \in Entry /\ back(msg).key = k
      BY <1>2, <1>3
    <3> HIDE DEF back
    <3>1. /\ queued' \in Seq(Entry) /\ Len(queued') = Len(queued) + 1
          /\ KeysDistinct(queued')
          /\ \A h : HasKey(queued', h) <=> HasKey(queued, h) \/ h = k
      BY <1>1, <3>0, <2>2, AppendLine DEF TypeOK, OnePlacePerKey
    <3> QED BY <3>1, HeldType
  <2> QED BY <2>1, <2>2
<1>6. TypeOK'
  BY <1>1, <1>5 DEF TypeOK, election, ControlPoints, AwaitPoints
<1>7. OnePlacePerKey'
  BY <1>1, <1>4, <1>5 DEF OnePlacePerKey, InHandKey
<1>8. WithinCapacity'
  <2>1. Len(queued') \in Nat
    BY <1>5, LenProperties
  <2> QED
    BY <1>1, <1>2, NoHandAssumption, <1>5, <2>1, HeldType, QueueAssumption
       DEF WithinCapacity, Held
<1>9. HandledIsInHand'
  BY <1>1 DEF HandledIsInHand
<1> QED BY <1>6, <1>7, <1>8, <1>9

\* in_flight is released and the two lines stay: Done, and a restarted `serve`.
LEMMA ReleaseKeepsQueueInv ==
  ASSUME QueueInv, UNCHANGED <<queued, dead>>, inFlight' = None, TypeOK',
         pc' # "handling"
  PROVE  QueueInv'
<1> USE DEF QueueInv
<1>1. OnePlacePerKey'
  BY DEF OnePlacePerKey, InHandKey, KeysDistinct, HasKey
<1>2. WithinCapacity'
  BY HeldType, QueueAssumption DEF WithinCapacity, Held
<1>3. HandledIsInHand'
  BY DEF HandledIsInHand
<1> QED BY <1>1, <1>2, <1>3

LEMMA DoneKeepsQueueInv ==
  ASSUME QueueInv, HandleDone
  PROVE  QueueInv'
<1>1. /\ runs' = Cleared(runs, inFlight.key) /\ inFlight' = None /\ msg' = None
      /\ pc' = "look" /\ UNCHANGED <<queued, dead, permit, prod, crashes, election>>
  BY DEF HandleDone
<1>2. runs' \in [Keys -> 0..MaxU32]
  BY <1>1, ClearedType DEF QueueInv, TypeOK
<1>3. TypeOK'
  BY <1>1, <1>2 DEF QueueInv, TypeOK, election, ControlPoints, AwaitPoints
<1> QED BY <1>1, <1>3, ReleaseKeepsQueueInv

LEMMA ServeKeepsQueueInv ==
  ASSUME QueueInv, Serve
  PROVE  QueueInv'
<1>1. /\ pc' = IF ha THEN "follower" ELSE "settle"
      /\ inFlight' = None
      /\ runs' = IF inFlight = None THEN runs ELSE Cleared(runs, inFlight.key)
      /\ UNCHANGED <<queued, dead, permit, prod, msg, crashes, election>>
  BY DEF Serve
<1>2. runs' \in [Keys -> 0..MaxU32]
  BY <1>1, ClearedType DEF QueueInv, TypeOK
<1>3. TypeOK'
  BY <1>1, <1>2 DEF QueueInv, TypeOK, election, ControlPoints, AwaitPoints
<1> QED BY <1>1, <1>3, ReleaseKeepsQueueInv

LEMMA LossKeepsQueueInv ==
  ASSUME QueueInv, LossNoticed
  PROVE  QueueInv'
<1>1. /\ queued' = <<>> /\ inFlight' = None /\ dead' = <<>> /\ msg' = None
      /\ permit' = (permit \/ pc = "woken")
      /\ runs' = [k \in Keys |-> 0] /\ pc' = "follower"
      /\ UNCHANGED <<prod, crashes, election>>
  BY DEF LossNoticed
<1>2. /\ queued' \in Seq(Entry) /\ dead' \in Seq(Aside)
      /\ Len(queued') = 0 /\ Len(dead') = 0
  BY <1>1, EmptySeq
<1>3. runs' \in [Keys -> 0..MaxU32]
  BY <1>1, QueueAssumption
<1>4. permit' \in BOOLEAN
  BY <1>1
<1>5. TypeOK'
  BY <1>1, <1>2, <1>3, <1>4 DEF QueueInv, TypeOK, election, ControlPoints
<1>6. OnePlacePerKey'
  BY <1>1, <1>2 DEF OnePlacePerKey, InHandKey, KeysDistinct, HasKey
<1>7. WithinCapacity'
  BY <1>1, <1>2, QueueAssumption DEF WithinCapacity, Held
<1>8. HandledIsInHand'
  BY <1>1 DEF HandledIsInHand
<1> QED BY <1>5, <1>6, <1>7, <1>8 DEF QueueInv

\* The steps that move the executor, a producer or the election and leave the
\* queue as it is.
LEMMA OtherStepsKeepQueueInv ==
  ASSUME QueueInv,
         \/ \E p \in Producers : Notify(p)
         \/ SeesLeadership \/ ServeReturns \/ PauseEnds
         \/ FindsNothing \/ Listen \/ HookEnds \/ WorkerUnwinds
         \/ ElectionChanges \/ UNCHANGED vars
  PROVE  QueueInv'
<1> USE DEF QueueInv, line, election
<1>1. ASSUME NEW p \in Producers, Notify(p)  PROVE QueueInv'
  <2>1. TypeOK' /\ HandledIsInHand'
    BY <1>1 DEF Notify, TypeOK, HandledIsInHand, ControlPoints, AwaitPoints
  <2> QED BY <1>1, <2>1, LineUntouched DEF Notify
<1>2. CASE SeesLeadership \/ ServeReturns \/ PauseEnds
  <2>1. TypeOK' /\ HandledIsInHand'
    BY <1>2 DEF SeesLeadership, ServeReturns, PauseEnds, TypeOK,
                HandledIsInHand, ControlPoints, AwaitPoints
  <2> QED BY <1>2, <2>1, LineUntouched DEF SeesLeadership, ServeReturns, PauseEnds
<1>3. CASE FindsNothing \/ Listen \/ HookEnds
  <2>1. TypeOK' /\ HandledIsInHand'
    BY <1>3 DEF FindsNothing, Listen, HookEnds, TypeOK,
                HandledIsInHand, ControlPoints, AwaitPoints
  <2> QED BY <1>3, <2>1, LineUntouched DEF FindsNothing, Listen, HookEnds
<1>4. CASE WorkerUnwinds
  <2>1. crashes' \in 0..MaxCrashes
    BY <1>4, QueueAssumption DEF WorkerUnwinds, TypeOK
  <2>2. TypeOK' /\ HandledIsInHand'
    BY <1>4, <2>1 DEF WorkerUnwinds, TypeOK, HandledIsInHand, ControlPoints
  <2> QED BY <1>4, <2>2, LineUntouched DEF WorkerUnwinds
<1>5. CASE ElectionChanges
  <2>1. TypeOK' /\ HandledIsInHand'
    BY <1>5 DEF ElectionChanges, TypeOK, HandledIsInHand
  <2> QED BY <1>5, <2>1, LineUntouched DEF ElectionChanges
<1>6. CASE UNCHANGED vars
  <2>1. TypeOK' /\ HandledIsInHand'
    BY <1>6 DEF vars, TypeOK, HandledIsInHand
  <2> QED BY <1>6, <2>1, LineUntouched DEF vars
<1> QED BY <1>1, <1>2, <1>3, <1>4, <1>5, <1>6

LEMMA QueueInvStep == QueueInv /\ [Next]_vars => QueueInv'
<1> SUFFICES ASSUME QueueInv, [Next]_vars PROVE QueueInv'
  OBVIOUS
<1>1. ASSUME NEW p \in Producers, NEW k \in Keys,
             (\E m \in Payloads : Send(p, k, m)) \/ Requeue(p, k) \/ Forget(p, k)
      PROVE  QueueInv'
  BY <1>1, SendKeepsQueueInv, RequeueKeepsQueueInv, ForgetKeepsQueueInv
<1>2. CASE HandleEnds
  <2>1. CASE HandleDone
    BY <2>1, DoneKeepsQueueInv
  <2>2. CASE HandleRetry
    BY <2>2, RetryKeepsQueueInv
  <2>3. CASE HandleExhausted
    <3>1. "Exhausted" \in Causes /\ "retry" \in Reasons
      BY DEF Causes, Reasons
    <3> QED BY <2>3, <3>1, SetAsideKeepsQueueInv DEF HandleExhausted
  <2>4. CASE HandleFailed
    <3>1. "Failed" \in Causes /\ "failed" \in Reasons
      BY DEF Causes, Reasons
    <3> QED BY <2>4, <3>1, SetAsideKeepsQueueInv DEF HandleFailed
  <2>5. CASE HandleTimedOut
    <3>1. pc = "handling" /\ SetAside("TimedOut", inFlight.reason)
      BY <2>5 DEF HandleTimedOut
    <3>2. inFlight.reason \in Reasons
      BY <3>1 DEF QueueInv, TypeOK, HandledIsInHand, InHand
    <3>3. "TimedOut" \in Causes
      BY DEF Causes
    <3> QED BY <3>1, <3>2, <3>3, SetAsideKeepsQueueInv
  <2> QED BY <1>2, <2>1, <2>2, <2>3, <2>4, <2>5 DEF HandleEnds
<1>3. CASE Serve \/ Take \/ LossNoticed
  BY <1>3, ServeKeepsQueueInv, TakeKeepsQueueInv, LossKeepsQueueInv
<1>4. CASE \/ \E p \in Producers : Notify(p)
           \/ SeesLeadership \/ ServeReturns \/ PauseEnds
           \/ FindsNothing \/ Listen \/ HookEnds \/ WorkerUnwinds
           \/ ElectionChanges \/ UNCHANGED vars
  BY <1>4, OtherStepsKeepQueueInv
<1> QED BY <1>1, <1>2, <1>3, <1>4 DEF Next, Executor

\* The inductive invariant of the queue holds in every reachable state.
THEOREM QueueInvariant == Spec => []QueueInv
<1>1. Init => QueueInv
  BY QueueInvInit
<1>2. QueueInv /\ [Next]_vars => QueueInv'
  BY QueueInvStep
<1> QED BY <1>1, <1>2, PTL DEF Spec

\* Every variable of the queue keeps its type, for all keys, payloads, producers
\* and limits.
THEOREM TypeCorrect == Spec => []TypeOK
<1>1. QueueInv => TypeOK
  BY DEF QueueInv
<1> QED BY <1>1, QueueInvariant, PTL

\* A key is at most once in the line and at most once among the dead letters, and
\* never dead while it is queued or in hand: send, requeue, retry and set_aside
\* together keep it so.
THEOREM KeysHaveOnePlace == Spec => []OnePlacePerKey
<1>1. QueueInv => OnePlacePerKey
  BY DEF QueueInv
<1> QED BY <1>1, QueueInvariant, PTL

\* CAPACITY and DEAD_LETTER_CAPACITY are never exceeded, although retry puts its
\* message back into the line unasked.
THEOREM CapacityHeld == Spec => []WithinCapacity
<1>1. QueueInv => WithinCapacity
  BY DEF QueueInv
<1> QED BY <1>1, QueueInvariant, PTL

\* retry and fail always find the message they are about in hand.
THEOREM HandledStaysInHand == Spec => []HandledIsInHand
<1>1. QueueInv => HandledIsInHand
  BY DEF QueueInv
<1> QED BY <1>1, QueueInvariant, PTL

-----------------------------------------------------------------------------
(* No lost wake-up.  Between the executor's look at an empty line and its    *)
(* wait, a push is covered by the notification still to come or by the       *)
(* permit it left; only the second disjunct survives the wait.               *)

Notifying == \E p \in Producers : prod[p] = "notify"

WakeInv ==
  /\ pc = "listen" /\ queued # <<>> => permit \/ Notifying
  /\ pc = "parked" /\ queued # <<>> => Notifying

LEMMA WakeInvStep == TypeOK /\ WakeInv /\ [Next]_vars => WakeInv'
<1> SUFFICES ASSUME TypeOK, WakeInv, [Next]_vars PROVE WakeInv'
  OBVIOUS
<1> USE DEF WakeInv, Notifying
<1>1. ASSUME NEW p \in Producers, NEW k \in Keys, NEW m \in Payloads, Send(p, k, m)
      PROVE  WakeInv'
  <2>1. CASE Admits(k)
    <3>1. prod'[p] = "notify"
      BY <1>1, <2>1 DEF Send, TypeOK
    <3> QED BY <3>1
  <2>2. CASE ~Admits(k)
    BY <1>1, <2>2 DEF Send
  <2> QED BY <2>1, <2>2
<1>2. ASSUME NEW p \in Producers, NEW k \in Keys, Requeue(p, k)
      PROVE  WakeInv'
  <2>1. prod'[p] = "notify"
    BY <1>2 DEF Requeue, TypeOK
  <2> QED BY <2>1
<1>3. ASSUME NEW p \in Producers, NEW k \in Keys, Forget(p, k)
      PROVE  WakeInv'
  BY <1>3 DEF Forget
<1>4. ASSUME NEW p \in Producers, Notify(p)
      PROVE  WakeInv'
  <2>1. CASE pc = "parked"
    BY <1>4, <2>1 DEF Notify
  <2>2. CASE pc # "parked"
    BY <1>4, <2>2 DEF Notify
  <2> QED BY <2>1, <2>2
<1>5. CASE Listen
  BY <1>5 DEF Listen, line
<1>6. CASE FindsNothing
  BY <1>6 DEF FindsNothing, line
<1>7. CASE Serve \/ SeesLeadership \/ ServeReturns \/ PauseEnds \/ Take
  BY <1>7 DEF Serve, SeesLeadership, ServeReturns, PauseEnds, Take
<1>8. CASE HandleEnds
  BY <1>8 DEF HandleEnds, HandleDone, HandleRetry, HandleExhausted, HandleFailed,
              HandleTimedOut, SetAside
<1>9. CASE HookEnds \/ LossNoticed \/ WorkerUnwinds
  BY <1>9 DEF HookEnds, LossNoticed, WorkerUnwinds
<1>10. CASE ElectionChanges \/ UNCHANGED vars
  BY <1>10 DEF ElectionChanges, vars, line
<1> QED BY <1>1, <1>2, <1>3, <1>4, <1>5, <1>6, <1>7, <1>8, <1>9, <1>10
        DEF Next, Executor

\* The executor never waits on a line with messages unless a producer is about to
\* notify it: whatever the order of send, next and notify_one, with any number of
\* producers.
THEOREM NoWakeupLost == Spec => []NoLostWakeup
<1>1. Init => WakeInv
  BY DEF Init, WakeInv
<1>2. TypeOK /\ WakeInv /\ [Next]_vars => WakeInv'
  BY WakeInvStep
<1>3. WakeInv => NoLostWakeup
  BY DEF WakeInv, NoLostWakeup, Notifying
<1> QED BY <1>1, <1>2, <1>3, TypeCorrect, PTL DEF Spec

-----------------------------------------------------------------------------
(* What a producer sees: KeyLifecycle. *)

\* What decides the status of a key, before and after a step.
LEMMA StatusIs ==
  ASSUME NEW k
  PROVE  /\ InHandKey(k) => Status(k) = "InHand"
         /\ ~InHandKey(k) /\ HasKey(queued, k) => Status(k) = "Queued"
         /\ ~InHandKey(k) /\ ~HasKey(queued, k) /\ HasKey(dead, k) =>
              Status(k) = "DeadLettered"
         /\ ~InHandKey(k) /\ ~HasKey(queued, k) /\ ~HasKey(dead, k) =>
              Status(k) = "Absent"
BY DEF Status

LEMMA StatusBecomes ==
  ASSUME NEW k
  PROVE  /\ InHandKey(k)' => Status(k)' = "InHand"
         /\ ~InHandKey(k)' /\ HasKey(queued', k) => Status(k)' = "Queued"
         /\ ~InHandKey(k)' /\ ~HasKey(queued', k) /\ HasKey(dead', k) =>
              Status(k)' = "DeadLettered"
         /\ ~InHandKey(k)' /\ ~HasKey(queued', k) /\ ~HasKey(dead', k) =>
              Status(k)' = "Absent"
BY DEF Status

LEMMA StatusStays ==
  ASSUME NEW k, InHandKey(k)' <=> InHandKey(k),
         HasKey(queued', k) <=> HasKey(queued, k), HasKey(dead', k) <=> HasKey(dead, k)
  PROVE  Status(k)' = Status(k)
BY StatusIs, StatusBecomes

LEMMA LineKeepsStatus ==
  ASSUME UNCHANGED line PROVE UNCHANGED StatusOf
<1>1. \A k : InHandKey(k)' <=> InHandKey(k)
  BY DEF line, InHandKey
<1>2. \A k \in Keys : Status(k)' = Status(k)
  BY <1>1, StatusStays DEF line
<1> QED BY <1>2 DEF StatusOf

\* One key changes its status and the others keep theirs.
LEMMA OneMoves ==
  ASSUME NEW k \in Keys, NEW s, Status(k)' = s,
         \A h \in Keys : h # k => Status(h)' = Status(h)
  PROVE  Lifecycle!Move(k, s)
<1>1. StatusOf' = [h \in Keys |-> IF h = k THEN s ELSE StatusOf[h]]
  BY DEF StatusOf
<1> QED BY <1>1 DEF Lifecycle!Move, StatusOf

LEMMA StatusOfKey == \A k \in Keys : StatusOf[k] = Status(k)
BY DEF StatusOf

\* A line has as many elements as keys.
LEMMA LineCounts ==
  ASSUME NEW S, NEW s \in Seq(S), KeysDistinct(s)
  PROVE  LET held == {s[i].key : i \in 1..Len(s)} IN
         IsFiniteSet(held) /\ Cardinality(held) = Len(s)
<1> DEFINE held == {s[i].key : i \in 1..Len(s)}
           f == [i \in 1..Len(s) |-> s[i].key]
<1>1. Len(s) \in Nat
  BY LenProperties
<1>2. IsFiniteSet(1..Len(s)) /\ Cardinality(1..Len(s)) = Len(s)
  BY <1>1, FS_Interval
<1>3. f \in Surjection(1..Len(s), held)
  BY DEF Surjection
<1>4. f \in Injection(1..Len(s), held)
  BY DEF Injection, IsInjective, KeysDistinct
<1> QED BY <1>2, <1>3, <1>4, FS_Surjection

\* The abstract module counts with an instance of its own of the library.
LEMMA OneCardinality == \A S : Lifecycle!Cardinality(S) = Cardinality(S)
BY DEF Lifecycle!Cardinality, Cardinality

LEMMA DeadCounts ==
  ASSUME QueueInv
  PROVE  Lifecycle!Cardinality(Lifecycle!In("DeadLettered")) = Len(dead)
<1> DEFINE held == {dead[i].key : i \in 1..Len(dead)}
<1>1. \A i \in 1..Len(dead) : dead[i].key \in Keys
  <2> TAKE i \in 1..Len(dead)
  <2>1. dead[i] \in Aside
    BY ElementOfSeq DEF QueueInv, TypeOK
  <2> QED BY <2>1 DEF Aside
<1>2. \A k \in Keys : Status(k) = "DeadLettered" <=> HasKey(dead, k)
  <2> TAKE k \in Keys
  <2>1. HasKey(dead, k) => ~HasKey(queued, k) /\ ~InHandKey(k)
    BY DEF QueueInv, OnePlacePerKey
  <2> QED BY <2>1, StatusIs
<1>3. Lifecycle!In("DeadLettered") = {k \in Keys : HasKey(dead, k)}
  BY <1>2, StatusOfKey DEF Lifecycle!In
<1>4. {k \in Keys : HasKey(dead, k)} = held
  BY <1>1 DEF HasKey
<1>5. dead \in Seq(Aside) /\ KeysDistinct(dead)
  BY DEF QueueInv, TypeOK, OnePlacePerKey
<1>6. Cardinality(held) = Len(dead)
  BY <1>5, LineCounts
<1> QED BY <1>3, <1>4, <1>6, OneCardinality

LEMMA SendIsEnqueue ==
  ASSUME QueueInv, NEW p \in Producers, NEW k \in Keys, NEW m \in Payloads,
         Send(p, k, m)
  PROVE  Lifecycle!Enqueue(k) \/ UNCHANGED StatusOf
<1>1. CASE ~Admits(k)
  BY <1>1, LineKeepsStatus DEF Send, line
<1>2. CASE Admits(k)
  <2>1. /\ ~HasKey(dead, k) /\ ~HasKey(queued, k)
        /\ queued' = Append(queued, Fresh(k, m)) /\ UNCHANGED <<inFlight, dead>>
    BY <1>2 DEF Send, Admits
  <2>2. \A h : HasKey(queued', h) <=> HasKey(queued, h) \/ h = k
    BY <2>1, FreshEntry, AppendLine DEF QueueInv, TypeOK, OnePlacePerKey
  <2>3. \A h : InHandKey(h)' <=> InHandKey(h)
    BY <2>1 DEF InHandKey
  <2>4. \A h \in Keys : h # k => Status(h)' = Status(h)
    BY <2>1, <2>2, <2>3, StatusStays
  <2>5. CASE InHandKey(k)
    <3>1. Status(k)' = Status(k)
      BY <2>3, <2>5, StatusIs, StatusBecomes
    <3> QED BY <2>4, <3>1 DEF StatusOf
  <2>6. CASE ~InHandKey(k)
    <3>1. Status(k) = "Absent" /\ Status(k)' = "Queued"
      BY <2>1, <2>2, <2>3, <2>6, StatusIs, StatusBecomes
    <3> QED BY <2>4, <3>1, OneMoves, StatusOfKey DEF Lifecycle!Enqueue
  <2> QED BY <2>5, <2>6
<1> QED BY <1>1, <1>2

LEMMA RequeueIsEnqueue ==
  ASSUME QueueInv, NEW p \in Producers, NEW k \in Keys, Requeue(p, k)
  PROVE  Lifecycle!Enqueue(k)
<1> DEFINE m == dead[IndexOfKey(dead, k)].msg
<1>1. /\ HasKey(dead, k) /\ queued' = Append(queued, Fresh(k, m))
      /\ dead' = WithoutKey(dead, k) /\ UNCHANGED inFlight
  BY DEF Requeue
<1>2. m \in Payloads
  <2>1. IndexOfKey(dead, k) \in 1..Len(dead)
    BY <1>1, IndexFound DEF QueueInv, TypeOK
  <2>2. dead[IndexOfKey(dead, k)] \in Aside
    BY <2>1, ElementOfSeq DEF QueueInv, TypeOK
  <2> QED BY <2>2 DEF Aside
<1> HIDE DEF m
<1>3. ~HasKey(queued, k) /\ ~InHandKey(k)
  BY <1>1 DEF QueueInv, OnePlacePerKey
<1>4. \A h : HasKey(queued', h) <=> HasKey(queued, h) \/ h = k
  BY <1>1, <1>2, <1>3, FreshEntry, AppendLine DEF QueueInv, TypeOK, OnePlacePerKey
<1>5. \A h : h # k => (HasKey(dead', h) <=> HasKey(dead, h))
  BY <1>1, DeadWithout DEF QueueInv, OnePlacePerKey
<1>6. \A h : InHandKey(h)' <=> InHandKey(h)
  BY <1>1 DEF InHandKey
<1>7. \A h \in Keys : h # k => Status(h)' = Status(h)
  BY <1>4, <1>5, <1>6, StatusStays
<1>8. Status(k) = "DeadLettered" /\ Status(k)' = "Queued"
  BY <1>1, <1>3, <1>4, <1>6, StatusIs, StatusBecomes
<1> QED BY <1>7, <1>8, OneMoves, StatusOfKey DEF Lifecycle!Enqueue

LEMMA ForgetIsForget ==
  ASSUME QueueInv, NEW p \in Producers, NEW k \in Keys, Forget(p, k)
  PROVE  Lifecycle!Forget(k)
<1>1. /\ HasKey(dead, k) /\ dead' = WithoutKey(dead, k) /\ UNCHANGED <<queued, inFlight>>
  BY DEF Forget
<1>2. ~HasKey(queued, k) /\ ~InHandKey(k)
  BY <1>1 DEF QueueInv, OnePlacePerKey
<1>3. ~HasKey(dead', k) /\ \A h : h # k => (HasKey(dead', h) <=> HasKey(dead, h))
  BY <1>1, DeadWithout DEF QueueInv, OnePlacePerKey
<1>4. \A h : InHandKey(h)' <=> InHandKey(h)
  BY <1>1 DEF InHandKey
<1>5. \A h \in Keys : h # k => Status(h)' = Status(h)
  BY <1>1, <1>3, <1>4, StatusStays
<1>6. Status(k) = "DeadLettered" /\ Status(k)' = "Absent"
  BY <1>1, <1>2, <1>3, <1>4, StatusIs, StatusBecomes
<1> QED BY <1>5, <1>6, OneMoves, StatusOfKey DEF Lifecycle!Forget

\* The key in hand leaves it for the line or for nowhere: Done, a retry, and a
\* `serve` that finds a message in hand.
LEMMA HandIsReleased ==
  ASSUME QueueInv, inFlight # None, inFlight' = None, UNCHANGED dead,
         \A h : h # inFlight.key => (HasKey(queued', h) <=> HasKey(queued, h))
  PROVE  \E k \in Keys : Lifecycle!Release(k)
<1>0. PICK k : k = inFlight.key
  OBVIOUS
<1>1. k \in Keys /\ InHandKey(k)
  BY <1>0 DEF QueueInv, TypeOK, InHand, InHandKey
<1>2. ~HasKey(dead', k)
  BY <1>1 DEF QueueInv, OnePlacePerKey
<1>3. /\ \A h : ~InHandKey(h)'
      /\ \A h : h # k => ~InHandKey(h)
  BY <1>0 DEF InHandKey
<1>4. \A h \in Keys : h # k => Status(h)' = Status(h)
  BY <1>0, <1>3, StatusStays
<1>5. PICK s \in {"Absent", "Queued"} : Status(k)' = s
  BY <1>2, <1>3, StatusBecomes
<1>6. Status(k) = "InHand"
  BY <1>1, StatusIs
<1>7. Lifecycle!Move(k, s)
  BY <1>1, <1>4, <1>5, OneMoves
<1> QED BY <1>1, <1>5, <1>6, <1>7, StatusOfKey DEF Lifecycle!Release

LEMMA RetryIsRelease ==
  ASSUME QueueInv, HandleRetry
  PROVE  \E k \in Keys : Lifecycle!Release(k)
<1> DEFINE k == inFlight.key
           i == IndexOfKey(queued, k)
           back(m) == [key |-> k, msg |-> m, attempts |-> inFlight.attempts,
                       reason |-> "retry"]
<1>1. /\ inFlight # None /\ inFlight \in InHand /\ msg \in Payloads
      /\ inFlight' = None /\ UNCHANGED dead
      /\ queued' = IF HasKey(queued, k) THEN ReplaceAt(queued, i, back(queued[i].msg))
                   ELSE Append(queued, back(msg))
  BY DEF HandleRetry, QueueInv, HandledIsInHand, TypeOK
<1>2. \A m \in Payloads : back(m) \in Entry /\ back(m).key = k
  BY <1>1, QueueAssumption DEF InHand, Entry, Reasons
<1>3. queued \in Seq(Entry) /\ KeysDistinct(queued)
  BY DEF QueueInv, TypeOK, OnePlacePerKey
<1>4. CASE HasKey(queued, k)
  <2>1. i \in 1..Len(queued) /\ queued[i].key = k
    BY <1>3, <1>4, IndexFound
  <2>2. queued[i] \in Entry
    BY <1>3, <2>1, ElementOfSeq
  <2>3. queued[i].msg \in Payloads
    BY <2>2 DEF Entry
  <2> DEFINE taken == back(queued[i].msg)
  <2>4. taken \in Entry /\ taken.key = queued[i].key
    BY <1>2, <2>1, <2>3
  <2>5. queued' = ReplaceAt(queued, i, taken)
    BY <1>1, <1>4
  <2> HIDE DEF taken, i
  <2>6. \A h : HasKey(queued', h) <=> HasKey(queued, h)
    BY <1>3, <2>1, <2>4, <2>5, ReplaceLine
  <2> QED BY <1>1, <2>6, HandIsReleased
<1>5. CASE ~HasKey(queued, k)
  <2> DEFINE last == back(msg)
  <2>1. last \in Entry /\ last.key = k /\ queued' = Append(queued, last)
    BY <1>1, <1>2, <1>5
  <2> HIDE DEF last
  <2>2. \A h : HasKey(queued', h) <=> HasKey(queued, h) \/ h = k
    BY <1>3, <1>5, <2>1, AppendLine
  <2> QED BY <1>1, <2>2, HandIsReleased
<1> QED BY <1>4, <1>5

LEMMA TakeIsTake ==
  ASSUME QueueInv, Take
  PROVE  \E k \in Keys : Lifecycle!Take(k)
<1>0. PICK k : k = Head(queued).key
  OBVIOUS
<1>1. /\ queued # <<>> /\ queued' = Tail(queued) /\ UNCHANGED dead
      /\ inFlight'.key = k /\ pc \in {"look", "woken"}
  BY <1>0 DEF Take
<1>2. inFlight = None
  BY <1>1 DEF QueueInv, HandledIsInHand
<1>3. inFlight' # None
  <2>1. inFlight' \in InHand
    BY TakeKeepsQueueInv, NoHandAssumption
       DEF QueueInv, TypeOK, HandledIsInHand, Take
  <2> QED BY <2>1, NoHandAssumption
<1>4. queued \in Seq(Entry) /\ KeysDistinct(queued)
  BY DEF QueueInv, TypeOK, OnePlacePerKey
<1>5. /\ Head(queued) \in Entry /\ Head(queued) = queued[1]
      /\ \A h : h # k => (HasKey(queued', h) <=> HasKey(queued, h))
  BY <1>0, <1>1, <1>4, TailLine
<1>6. k \in Keys
  BY <1>0, <1>5 DEF Entry
<1>7. HasKey(queued, k)
  <2>1. Len(queued) \in Nat /\ Len(queued) # 0
    BY <1>1, <1>4, LenProperties, EmptySeq
  <2> QED BY <1>0, <1>5, <2>1 DEF HasKey
<1>8. /\ \A h : ~InHandKey(h)
      /\ \A h : InHandKey(h)' <=> h = k
  BY <1>1, <1>2, <1>3 DEF InHandKey
<1>9. \A h \in Keys : h # k => Status(h)' = Status(h)
  BY <1>1, <1>5, <1>8, StatusStays
<1>10. Status(k) = "Queued" /\ Status(k)' = "InHand"
  BY <1>7, <1>8, StatusIs, StatusBecomes
<1>11. \A h \in Keys : Status(h) # "InHand"
  BY <1>8, StatusIs
<1>12. Lifecycle!In("InHand") = {}
  BY <1>11, StatusOfKey DEF Lifecycle!In
<1>13. Lifecycle!Move(k, "InHand")
  BY <1>6, <1>9, <1>10, OneMoves
<1> QED BY <1>6, <1>10, <1>12, <1>13, StatusOfKey DEF Lifecycle!Take

\* The keys of the dead letters after a set-aside: the new one is the youngest, and
\* when they are full the oldest leaves for it.
LEMMA NewestAppend ==
  ASSUME NEW S, NEW s \in Seq(S), NEW e \in S, NEW n \in Nat,
         KeysDistinct(s), ~HasKey(s, e.key), Len(s) <= n
  PROVE  LET kept == Newest(Append(s, e), n) IN
         /\ Len(s) < n =>
              \A h : HasKey(kept, h) <=> HasKey(s, h) \/ h = e.key
         /\ n = 0 => kept = <<>>
         /\ n > 0 => kept # <<>> /\ Last(kept) = e
         /\ Len(s) = n /\ n > 0 =>
              /\ HasKey(s, s[1].key)
              /\ \A h : HasKey(kept, h) <=>
                          (HasKey(s, h) /\ h # s[1].key) \/ h = e.key
<1> DEFINE more == Append(s, e)
           kept == Newest(more, n)
<1>1. Len(s) \in Nat
  BY LenProperties
<1>2. /\ more \in Seq(S) /\ Len(more) = Len(s) + 1
      /\ \A j \in 1..(Len(s) + 1) : more[j] = IF j <= Len(s) THEN s[j] ELSE e
      /\ \A h : HasKey(more, h) <=> HasKey(s, h) \/ h = e.key
  BY AppendLine
<1> HIDE DEF more
<1>3. CASE Len(s) < n
  <2>1. kept = more
    BY <1>1, <1>2, <1>3 DEF Newest
  <2>2. more # <<>> /\ Last(more) = e
    BY <1>1, <1>2, EmptySeq DEF Last
  <2> QED BY <1>1, <1>2, <1>3, <2>1, <2>2 DEF more
<1>4. CASE Len(s) = n
  <2>1. kept = SubSeq(more, 2, n + 1)
    <3>1. Len(more) = n + 1 /\ Len(more) > n /\ Len(more) - n + 1 = 2
      BY <1>1, <1>2, <1>4
    <3> QED BY <3>1 DEF Newest
  <2>2. \A j \in 2..(n + 1) : more[j] \in S
    BY <1>2, <1>4, ElementOfSeq
  <2>3. /\ Len(kept) = n
        /\ \A j \in 1..n : kept[j] = more[j + 1]
    BY <2>1, <2>2, SubSeqProperties
  <2>4. kept \in Seq(S)
    BY <2>1, <2>2, SubSeqProperties
  <2>5. CASE n = 0
    BY <1>4, <2>3, <2>4, <2>5, EmptySeq DEF more
  <2>6. CASE n > 0
    <3>1. HasKey(s, s[1].key)
      BY <1>4, <2>6 DEF HasKey
    <3>2. ASSUME NEW h, HasKey(kept, h)
          PROVE  (HasKey(s, h) /\ h # s[1].key) \/ h = e.key
      <4>1. PICK j \in 1..n : more[j + 1].key = h
        BY <2>3, <3>2 DEF HasKey
      <4>2. CASE j = n
        BY <1>2, <1>4, <4>1, <4>2
      <4>3. CASE j # n
        <5>1. j + 1 \in 1..Len(s) /\ j + 1 # 1 /\ 1 \in 1..Len(s) /\ s[j + 1].key = h
          BY <1>2, <1>4, <4>1, <4>3
        <5> QED BY <5>1 DEF HasKey, KeysDistinct
      <4> QED BY <4>2, <4>3
    <3>3. ASSUME NEW h, HasKey(s, h), h # s[1].key PROVE HasKey(kept, h)
      <4>1. PICK i \in 1..n : s[i].key = h
        BY <1>4, <3>3 DEF HasKey
      <4>2. i # 1
        BY <3>3, <4>1
      <4>3. i - 1 \in 1..n /\ more[(i - 1) + 1] = s[i]
        BY <1>2, <1>4, <4>2
      <4>4. kept[i - 1].key = h
        BY <2>3, <4>1, <4>3
      <4> QED BY <2>3, <4>3, <4>4 DEF HasKey
    <3>4. HasKey(kept, e.key)
      <4>1. n \in 1..n /\ more[n + 1] = e
        BY <1>2, <1>4, <2>6
      <4>2. kept[n].key = e.key
        BY <2>3, <4>1
      <4> QED BY <2>3, <4>1, <4>2 DEF HasKey
    <3>5. \A h : HasKey(kept, h) <=> (HasKey(s, h) /\ h # s[1].key) \/ h = e.key
      BY <3>2, <3>3, <3>4
    <3>6. kept # <<>> /\ Last(kept) = e
      <4>1. n \in 1..n /\ more[n + 1] = e
        BY <1>2, <1>4, <2>6
      <4> QED BY <2>3, <2>6, <4>1, EmptySeq DEF Last
    <3> QED BY <1>4, <2>6, <3>1, <3>5, <3>6 DEF more
  <2> QED BY <2>5, <2>6
<1> QED BY <1>1, <1>3, <1>4

LEMMA SetAsideIsSetAside ==
  ASSUME QueueInv, pc = "handling", NEW cause \in Causes, NEW reason \in Reasons,
         SetAside(cause, reason)
  PROVE  \E k \in Keys : Lifecycle!SetAside(k) \/ Lifecycle!Release(k)
<1>0. PICK k : k = inFlight.key
  OBVIOUS
<1> DEFINE letter == [key |-> k, msg |-> msg, cause |-> cause,
                      attempts |-> inFlight.attempts, reason |-> reason]
<1>1. /\ queued' = WithoutKey(queued, k) /\ inFlight' = None
      /\ dead' = Newest(Append(dead, letter), DeadCapacity)
  BY <1>0 DEF SetAside
<1>2. /\ k \in Keys /\ InHandKey(k) /\ inFlight # None
      /\ msg \in Payloads /\ inFlight.attempts \in 1..MaxU32
  BY <1>0 DEF QueueInv, HandledIsInHand, TypeOK, InHand, InHandKey
<1>3. /\ dead \in Seq(Aside) /\ KeysDistinct(dead) /\ ~HasKey(dead, k)
      /\ Len(dead) <= DeadCapacity /\ DeadCapacity \in Nat
  BY <1>2, QueueAssumption DEF QueueInv, TypeOK, OnePlacePerKey, WithinCapacity
<1>4. letter \in Aside /\ letter.key = k
  BY <1>2 DEF Aside
<1>5. /\ ~HasKey(queued', k)
      /\ \A h : h # k => (HasKey(queued', h) <=> HasKey(queued, h))
  <2>1. queued \in Seq(Entry) /\ KeysDistinct(queued)
    BY DEF QueueInv, TypeOK, OnePlacePerKey
  <2> QED BY <1>1, <2>1, WithoutKeyLine
<1>6. /\ \A h : ~InHandKey(h)'
      /\ \A h : h # k => ~InHandKey(h)
  BY <1>0, <1>1 DEF InHandKey
<1>7. Status(k) = "InHand"
  BY <1>2, StatusIs
<1>8. Lifecycle!Cardinality(Lifecycle!In("DeadLettered")) = Len(dead)
  BY DeadCounts
<1> HIDE DEF letter
<1>9. CASE Len(dead) < DeadCapacity
  <2>1. \A h : HasKey(dead', h) <=> HasKey(dead, h) \/ h = k
    BY <1>1, <1>3, <1>4, <1>9, NewestAppend
  <2>2. \A h \in Keys : h # k => Status(h)' = Status(h)
    BY <1>5, <1>6, <2>1, StatusStays
  <2>3. Status(k)' = "DeadLettered"
    BY <1>5, <1>6, <2>1, StatusBecomes
  <2>4. Lifecycle!Move(k, "DeadLettered")
    BY <1>2, <2>2, <2>3, OneMoves
  <2>5. Lifecycle!Cardinality(Lifecycle!In("DeadLettered")) < DeadCapacity
    BY <1>8, <1>9
  <2>6. StatusOf[k] = "InHand"
    BY <1>2, <1>7, StatusOfKey
  <2>7. Lifecycle!SetAside(k)
    BY <2>4, <2>5, <2>6, Zenon DEF Lifecycle!SetAside
  <2> QED BY <1>2, <2>7
<1>10. CASE DeadCapacity = 0
  <2>1. dead' = <<>> /\ Len(dead) = 0
    BY <1>1, <1>3, <1>4, <1>10, NewestAppend, LenProperties
  <2>2. \A h : ~HasKey(dead', h) /\ ~HasKey(dead, h)
    BY <2>1, EmptySeq DEF HasKey
  <2>3. \A h \in Keys : h # k => Status(h)' = Status(h)
    BY <1>5, <1>6, <2>2, StatusStays
  <2>4. Status(k)' = "Absent"
    BY <1>5, <1>6, <2>2, StatusBecomes
  <2>5. Lifecycle!Move(k, "Absent")
    BY <1>2, <2>3, <2>4, OneMoves
  <2> QED BY <1>2, <1>7, <2>5, StatusOfKey DEF Lifecycle!Release
<1>11. CASE Len(dead) = DeadCapacity /\ DeadCapacity > 0
  <2>0. PICK old : old = dead[1].key
    OBVIOUS
  <2>1. /\ HasKey(dead, old)
        /\ \A h : HasKey(dead', h) <=> (HasKey(dead, h) /\ h # old) \/ h = k
    BY <1>1, <1>3, <1>4, <1>11, <2>0, NewestAppend
  <2>2. old \in Keys
    <3>1. dead[1] \in Aside
      BY <1>3, <1>11, ElementOfSeq
    <3> QED BY <2>0, <3>1 DEF Aside
  <2>3. old # k
    BY <1>3, <2>1
  <2>4. ~HasKey(queued, old) /\ ~InHandKey(old)
    BY <2>1, <2>2 DEF QueueInv, OnePlacePerKey
  <2>5. Status(old) = "DeadLettered" /\ Status(old)' = "Absent"
    BY <1>5, <1>6, <2>1, <2>3, <2>4, StatusIs, StatusBecomes
  <2>6. Status(k)' = "DeadLettered"
    BY <1>5, <1>6, <2>1, StatusBecomes
  <2>7. \A h \in Keys : h # k /\ h # old => Status(h)' = Status(h)
    BY <1>5, <1>6, <2>1, StatusStays
  <2>8. StatusOf' = [StatusOf EXCEPT ![k] = "DeadLettered", ![old] = "Absent"]
    BY <1>2, <2>2, <2>3, <2>5, <2>6, <2>7 DEF StatusOf
  <2>9. old \in Lifecycle!In("DeadLettered")
    BY <2>2, <2>5, StatusOfKey DEF Lifecycle!In
  <2>10. Lifecycle!Cardinality(Lifecycle!In("DeadLettered")) = DeadCapacity
    BY <1>8, <1>11
  <2>11. StatusOf[k] = "InHand"
    BY <1>2, <1>7, StatusOfKey
  <2>12. Lifecycle!SetAside(k)
    BY <1>11, <2>8, <2>9, <2>10, <2>11, Zenon DEF Lifecycle!SetAside
  <2> QED BY <1>2, <2>12
<1> QED BY <1>3, <1>9, <1>10, <1>11, HeldType DEF QueueInv

LEMMA LossIsDiscard == LossNoticed => Lifecycle!Discard
<1> SUFFICES ASSUME LossNoticed PROVE Lifecycle!Discard
  OBVIOUS
<1>1. queued' = <<>> /\ dead' = <<>> /\ inFlight' = None
  BY DEF LossNoticed
<1>2. \A k : ~InHandKey(k)' /\ ~HasKey(queued', k) /\ ~HasKey(dead', k)
  BY <1>1, EmptySeq DEF InHandKey, HasKey
<1>3. \A k \in Keys : Status(k)' = "Absent"
  BY <1>2, StatusBecomes
<1> QED BY <1>3 DEF Lifecycle!Discard, StatusOf

LEMMA QueueStepIsLifecycleStep ==
  QueueInv /\ [Next]_vars => [Lifecycle!Next]_StatusOf
<1> SUFFICES ASSUME QueueInv, [Next]_vars
             PROVE  Lifecycle!Next \/ UNCHANGED StatusOf
  OBVIOUS
<1>1. ASSUME NEW p \in Producers, NEW k \in Keys, NEW m \in Payloads, Send(p, k, m)
      PROVE  Lifecycle!Next \/ UNCHANGED StatusOf
  BY <1>1, SendIsEnqueue DEF Lifecycle!Next
<1>2. ASSUME NEW p \in Producers, NEW k \in Keys, Requeue(p, k)
      PROVE  Lifecycle!Next
  BY <1>2, RequeueIsEnqueue DEF Lifecycle!Next
<1>3. ASSUME NEW p \in Producers, NEW k \in Keys, Forget(p, k)
      PROVE  Lifecycle!Next
  BY <1>3, ForgetIsForget DEF Lifecycle!Next
<1>4. CASE Serve
  <2>1. CASE inFlight = None
    <3>1. UNCHANGED line
      BY <1>4, <2>1 DEF Serve, line
    <3> QED BY <3>1, LineKeepsStatus
  <2>2. CASE inFlight # None
    <3>1. inFlight' = None /\ UNCHANGED <<queued, dead>>
      BY <1>4 DEF Serve
    <3> QED BY <2>2, <3>1, HandIsReleased DEF Lifecycle!Next
  <2> QED BY <2>1, <2>2
<1>5. CASE HandleDone
  <2>1. inFlight # None /\ inFlight' = None /\ UNCHANGED <<queued, dead>>
    BY <1>5 DEF HandleDone, QueueInv, HandledIsInHand
  <2> QED BY <2>1, HandIsReleased DEF Lifecycle!Next
<1>6. CASE HandleRetry
  BY <1>6, RetryIsRelease DEF Lifecycle!Next
<1>7. CASE HandleExhausted \/ HandleFailed
  BY <1>7, SetAsideIsSetAside
     DEF HandleExhausted, HandleFailed, Causes, Reasons, Lifecycle!Next
<1>8. CASE HandleTimedOut
  <2>1. inFlight.reason \in Reasons
    BY <1>8 DEF HandleTimedOut, QueueInv, HandledIsInHand, TypeOK, InHand
  <2> QED BY <1>8, <2>1, SetAsideIsSetAside DEF HandleTimedOut, Causes, Lifecycle!Next
<1>9. CASE Take
  BY <1>9, TakeIsTake DEF Lifecycle!Next
<1>10. CASE LossNoticed
  BY <1>10, LossIsDiscard DEF Lifecycle!Next
<1>11. CASE \/ \E p \in Producers : Notify(p)
            \/ SeesLeadership \/ ServeReturns \/ PauseEnds \/ FindsNothing
            \/ Listen \/ HookEnds \/ WorkerUnwinds \/ ElectionChanges
            \/ UNCHANGED vars
  <2>1. UNCHANGED line
    BY <1>11 DEF Notify, SeesLeadership, ServeReturns, PauseEnds, FindsNothing,
                 Listen, HookEnds, WorkerUnwinds, ElectionChanges, line, vars
  <2> QED BY <2>1, LineKeepsStatus
<1> QED BY <1>1, <1>2, <1>3, <1>4, <1>5, <1>6, <1>7, <1>8, <1>9, <1>10, <1>11
        DEF Next, Executor, HandleEnds

\* As `status` tells it, every key lives the life KeyLifecycle describes, whatever
\* the line, the counts, the wake-ups, restarts and the election do, for every
\* capacity: also one of 0, with which a key set aside is forgotten at once.
THEOREM QueueImplementsLifecycle == Spec => ImplementsLifecycle
<1>1. Init => Lifecycle!Init
  <2> SUFFICES ASSUME Init PROVE Lifecycle!Init
    OBVIOUS
  <2>1. queued = <<>> /\ dead = <<>> /\ inFlight = None
    BY DEF Init
  <2>2. \A k : ~InHandKey(k) /\ ~HasKey(queued, k) /\ ~HasKey(dead, k)
    BY <2>1, EmptySeq DEF InHandKey, HasKey
  <2>3. \A k \in Keys : Status(k) = "Absent"
    BY <2>2, StatusIs
  <2> QED BY <2>3 DEF Lifecycle!Init, StatusOf
<1> QED BY <1>1, QueueStepIsLifecycleStep, QueueInvariant, PTL
        DEF Spec, ImplementsLifecycle, Lifecycle!Spec

-----------------------------------------------------------------------------
(* The order of the line and of the dead letters. *)

\* What stays in a line keeps its payload and moves forward only.
Forward(s, t) ==
  \A j \in 1..Len(t) : HasKey(s, t[j].key) =>
    \E i \in 1..Len(s) : j <= i /\ s[i].key = t[j].key /\ s[i].msg = t[j].msg

LEMMA ForwardLine ==
  ASSUME NEW S, NEW s \in Seq(S), NEW t \in Seq(S), KeysDistinct(s), Forward(s, t),
         NEW k, HasKey(s, k), HasKey(t, k)
  PROVE  /\ IndexOfKey(t, k) <= IndexOfKey(s, k)
         /\ t[IndexOfKey(t, k)].msg = s[IndexOfKey(s, k)].msg
<1> DEFINE a == IndexOfKey(s, k)
           b == IndexOfKey(t, k)
<1>1. a \in 1..Len(s) /\ s[a].key = k /\ b \in 1..Len(t) /\ t[b].key = k
  BY IndexFound
<1> HIDE DEF a, b
<1>2. PICK i \in 1..Len(s) : b <= i /\ s[i].key = k /\ s[i].msg = t[b].msg
  BY <1>1 DEF Forward
<1>3. i = a
  BY <1>1, <1>2 DEF KeysDistinct
<1> QED BY <1>2, <1>3 DEF a, b

LEMMA SameIsForward ==
  ASSUME NEW S, NEW s \in Seq(S) PROVE Forward(s, s)
<1>1. Len(s) \in Nat
  BY LenProperties
<1> QED BY <1>1 DEF Forward

LEMMA AppendIsForward ==
  ASSUME NEW S, NEW s \in Seq(S), NEW e \in S, KeysDistinct(s), ~HasKey(s, e.key)
  PROVE  Forward(s, Append(s, e))
<1>1. /\ Len(s) \in Nat /\ Len(Append(s, e)) = Len(s) + 1
      /\ \A j \in 1..(Len(s) + 1) : Append(s, e)[j] = IF j <= Len(s) THEN s[j] ELSE e
  BY AppendLine, LenProperties
<1> SUFFICES ASSUME NEW j \in 1..(Len(s) + 1), HasKey(s, Append(s, e)[j].key)
             PROVE  \E i \in 1..Len(s) : /\ j <= i
                                         /\ s[i].key = Append(s, e)[j].key
                                         /\ s[i].msg = Append(s, e)[j].msg
  BY <1>1 DEF Forward
<1>2. j <= Len(s)
  BY <1>1
<1>3. j \in 1..Len(s) /\ Append(s, e)[j] = s[j]
  BY <1>1, <1>2
<1> QED BY <1>3

LEMMA RemovalIsForward ==
  ASSUME NEW S, NEW s \in Seq(S), NEW k PROVE Forward(s, WithoutKey(s, k))
<1>1. CASE ~HasKey(s, k)
  BY <1>1, SameIsForward DEF WithoutKey
<1>2. CASE HasKey(s, k)
  <2> DEFINE i == IndexOfKey(s, k)
             t == WithoutKey(s, k)
  <2>1. i \in 1..Len(s) /\ Len(s) \in Nat
    BY <1>2, IndexFound, LenProperties
  <2>2. t = RemoveAt(s, i)
    BY <1>2 DEF WithoutKey
  <2> HIDE DEF i, t
  <2>3. /\ Len(t) = Len(s) - 1
        /\ \A j \in 1..(Len(s) - 1) : t[j] = IF j < i THEN s[j] ELSE s[j + 1]
    BY <2>1, <2>2, RemoveAtLine
  <2>4. ASSUME NEW j \in 1..(Len(s) - 1)
        PROVE  \E h \in 1..Len(s) : j <= h /\ s[h] = t[j]
    <3>1. j \in 1..Len(s) /\ j + 1 \in 1..Len(s) /\ j <= j + 1
      BY <2>1
    <3> QED BY <2>3, <2>4, <3>1
  <2>5. Forward(s, t)
    BY <2>3, <2>4 DEF Forward
  <2> QED BY <2>5 DEF t
<1> QED BY <1>1, <1>2

LEMMA LineMovesForward ==
  QueueInv /\ [Next]_vars => Forward(queued, queued')
<1> SUFFICES ASSUME QueueInv, [Next]_vars PROVE Forward(queued, queued')
  OBVIOUS
<1>0. queued \in Seq(Entry) /\ KeysDistinct(queued)
  BY DEF QueueInv, TypeOK, OnePlacePerKey
<1>1. ASSUME NEW p \in Producers, NEW k \in Keys, NEW m \in Payloads, Send(p, k, m)
      PROVE  Forward(queued, queued')
  <2>1. CASE Admits(k)
    <3>1. queued' = Append(queued, Fresh(k, m)) /\ ~HasKey(queued, k)
      BY <1>1, <2>1 DEF Send, Admits
    <3> QED BY <1>0, <3>1, FreshEntry, AppendIsForward
  <2>2. CASE ~Admits(k)
    BY <1>0, <1>1, <2>2, SameIsForward DEF Send
  <2> QED BY <2>1, <2>2
<1>2. ASSUME NEW p \in Producers, NEW k \in Keys, Requeue(p, k)
      PROVE  Forward(queued, queued')
  <2>1. PICK m : m = dead[IndexOfKey(dead, k)].msg
    OBVIOUS
  <2>2. HasKey(dead, k) /\ queued' = Append(queued, Fresh(k, m))
    BY <1>2, <2>1 DEF Requeue
  <2>3. IndexOfKey(dead, k) \in 1..Len(dead)
    BY <2>2, IndexFound DEF QueueInv, TypeOK
  <2>4. dead[IndexOfKey(dead, k)] \in Aside
    BY <2>3, ElementOfSeq DEF QueueInv, TypeOK
  <2>5. m \in Payloads /\ ~HasKey(queued, k)
    BY <2>1, <2>2, <2>4 DEF Aside, QueueInv, OnePlacePerKey
  <2> QED BY <1>0, <2>2, <2>5, FreshEntry, AppendIsForward
<1>3. CASE Take
  <2>1. queued # <<>> /\ queued' = Tail(queued)
    BY <1>3 DEF Take
  <2>2. /\ Len(queued) \in Nat /\ Len(queued') = Len(queued) - 1
        /\ \A j \in 1..(Len(queued) - 1) : queued'[j] = queued[j + 1]
    BY <1>0, <2>1, TailLine, LenProperties
  <2>3. \A j \in 1..(Len(queued) - 1) : j + 1 \in 1..Len(queued) /\ j <= j + 1
    BY <2>2
  <2> QED BY <2>2, <2>3 DEF Forward
<1>4. CASE HandleRetry
  <2> DEFINE k == inFlight.key
             i == IndexOfKey(queued, k)
             back(m) == [key |-> k, msg |-> m, attempts |-> inFlight.attempts,
                         reason |-> "retry"]
  <2>1. /\ inFlight \in InHand /\ msg \in Payloads
        /\ queued' = IF HasKey(queued, k)
                     THEN ReplaceAt(queued, i, back(queued[i].msg))
                     ELSE Append(queued, back(msg))
    BY <1>4 DEF HandleRetry, QueueInv, HandledIsInHand, TypeOK
  <2>2. \A m \in Payloads : /\ back(m) \in Entry
                            /\ back(m).key = k /\ back(m).msg = m
    BY <2>1, QueueAssumption DEF InHand, Entry, Reasons
  <2>3. CASE HasKey(queued, k)
    <3>1. i \in 1..Len(queued) /\ queued[i].key = k
      BY <1>0, <2>3, IndexFound
    <3>2. queued[i] \in Entry
      BY <1>0, <3>1, ElementOfSeq
    <3>3. queued[i].msg \in Payloads
      BY <3>2 DEF Entry
    <3> DEFINE taken == back(queued[i].msg)
    <3>4. /\ taken \in Entry /\ taken.key = queued[i].key
          /\ taken.msg = queued[i].msg
      BY <2>2, <3>1, <3>3
    <3>5. queued' = ReplaceAt(queued, i, taken)
      BY <2>1, <2>3
    <3> HIDE DEF taken, i
    <3>6. /\ Len(queued') = Len(queued) /\ Len(queued) \in Nat
          /\ \A j \in 1..Len(queued) :
               queued'[j] = IF j = i THEN taken ELSE queued[j]
      BY <1>0, <3>1, <3>4, <3>5, ReplaceLine, LenProperties
    <3>7. \A j \in 1..Len(queued) : /\ queued'[j].key = queued[j].key
                                    /\ queued'[j].msg = queued[j].msg
      BY <3>4, <3>6
    <3> QED BY <3>6, <3>7 DEF Forward
  <2>4. CASE ~HasKey(queued, k)
    <3> DEFINE last == back(msg)
    <3>1. last \in Entry /\ last.key = k /\ queued' = Append(queued, last)
      BY <2>1, <2>2, <2>4
    <3> HIDE DEF last
    <3> QED BY <1>0, <2>4, <3>1, AppendIsForward
  <2> QED BY <2>3, <2>4
<1>5. CASE HandleExhausted \/ HandleFailed \/ HandleTimedOut
  <2>1. PICK k : queued' = WithoutKey(queued, k)
    BY <1>5 DEF HandleExhausted, HandleFailed, HandleTimedOut, SetAside
  <2> QED BY <1>0, <2>1, RemovalIsForward
<1>6. CASE LossNoticed
  <2>1. queued' = <<>> /\ Len(queued') = 0
    BY <1>6, EmptySeq DEF LossNoticed
  <2> QED BY <2>1 DEF Forward
<1>7. CASE \/ \E p \in Producers : Notify(p) \/ \E k \in Keys : Forget(p, k)
           \/ Serve \/ SeesLeadership \/ ServeReturns \/ PauseEnds \/ FindsNothing
           \/ Listen \/ HandleDone \/ HookEnds \/ WorkerUnwinds \/ ElectionChanges
           \/ UNCHANGED vars
  <2>1. UNCHANGED queued
    BY <1>7 DEF Notify, Forget, Serve, SeesLeadership, ServeReturns, PauseEnds,
                FindsNothing, Listen, HandleDone, HookEnds, WorkerUnwinds,
                ElectionChanges, line, vars
  <2> QED BY <1>0, <2>1, SameIsForward
<1> QED BY <1>1, <1>2, <1>3, <1>4, <1>5, <1>6, <1>7 DEF Next, Executor, HandleEnds

\* Nobody overtakes: a message that stays in the line keeps its payload and only
\* moves forward, whatever resends, retries and set-asides happen around it.
THEOREM NobodyOvertakes == Spec => LineKept
<1> DEFINE Kept == \A k \in Keys : HasKey(queued, k) /\ HasKey(queued', k) =>
                     LET i == IndexOfKey(queued, k)
                         j == IndexOfKey(queued', k)
                     IN j <= i /\ queued'[j].msg = queued[i].msg
<1>1. QueueInv /\ QueueInv' /\ [Next]_vars => [Kept]_queued
  <2> SUFFICES ASSUME QueueInv, QueueInv', [Next]_vars PROVE Kept
    OBVIOUS
  <2>1. /\ queued \in Seq(Entry) /\ KeysDistinct(queued)
        /\ queued' \in Seq(Entry)
    BY DEF QueueInv, TypeOK, OnePlacePerKey
  <2>2. Forward(queued, queued')
    BY LineMovesForward
  <2> QED BY <2>1, <2>2, ForwardLine
<1> QED BY <1>1, QueueInvariant, PTL DEF Spec, LineKept

\* A message set aside is kept as the youngest letter, at the price of the oldest
\* one only, for every capacity above 0.
THEOREM OldestIsEvicted == Spec => OldestEvictedFirst
<1> DEFINE Kept == pc = "handling" /\ pc' = "hook" /\ DeadCapacity > 0 =>
                     /\ dead' # <<>> /\ Last(dead').key = inFlight.key
                     /\ \A i \in 2..Len(dead) : HasKey(dead', dead[i].key)
<1>1. QueueInv /\ [Next]_vars => [Kept]_vars
  <2> SUFFICES ASSUME QueueInv, [Next]_vars, pc = "handling", pc' = "hook",
                      DeadCapacity > 0
               PROVE  Kept
    OBVIOUS
  <2>1. PICK cause \in Causes, reason \in Reasons : SetAside(cause, reason)
    <3>1. inFlight.reason \in Reasons
      BY DEF QueueInv, HandledIsInHand, TypeOK, InHand
    <3>2. HandleExhausted \/ HandleFailed \/ HandleTimedOut
      BY DEF Next, Executor, HandleEnds, Send, Requeue, Forget, Notify, Serve,
             SeesLeadership, ServeReturns, PauseEnds, Take, FindsNothing, Listen,
             HandleDone, HandleRetry, HookEnds, WorkerUnwinds, LossNoticed,
             ElectionChanges, vars
    <3> QED BY <3>1, <3>2 DEF HandleExhausted, HandleFailed, HandleTimedOut, Causes,
                              Reasons
  <2> DEFINE letter == [key |-> inFlight.key, msg |-> msg, cause |-> cause,
                        attempts |-> inFlight.attempts, reason |-> reason]
  <2>2. dead' = Newest(Append(dead, letter), DeadCapacity)
    BY <2>1 DEF SetAside
  <2>3. letter \in Aside /\ letter.key = inFlight.key
    BY DEF QueueInv, HandledIsInHand, TypeOK, InHand, Aside
  <2>4. /\ dead \in Seq(Aside) /\ KeysDistinct(dead) /\ ~HasKey(dead, letter.key)
        /\ Len(dead) <= DeadCapacity /\ DeadCapacity \in Nat /\ Len(dead) \in Nat
    BY <2>3, QueueAssumption, HeldType
       DEF QueueInv, HandledIsInHand, TypeOK, InHand, InHandKey, OnePlacePerKey,
           WithinCapacity
  <2> HIDE DEF letter
  <2>5. dead' # <<>> /\ Last(dead') = letter
    BY <2>2, <2>3, <2>4, NewestAppend
  <2>6. ASSUME NEW i \in 2..Len(dead) PROVE HasKey(dead', dead[i].key)
    <3>1. i \in 1..Len(dead) /\ 1 \in 1..Len(dead) /\ i # 1
      BY <2>4, <2>6
    <3>2. HasKey(dead, dead[i].key) /\ dead[i].key # dead[1].key
      BY <2>4, <3>1 DEF HasKey, KeysDistinct
    <3>3. CASE Len(dead) < DeadCapacity
      BY <2>2, <2>3, <2>4, <3>2, <3>3, NewestAppend
    <3>4. CASE Len(dead) = DeadCapacity
      BY <2>2, <2>3, <2>4, <3>2, <3>4, NewestAppend
    <3> QED BY <2>4, <3>3, <3>4
  <2> QED BY <2>3, <2>5, <2>6
<1> QED BY <1>1, QueueInvariant, PTL DEF Spec, OldestEvictedFirst

-----------------------------------------------------------------------------
(* How often handle ran: what next, retry, set_aside, send and requeue record *)
(* is its true number of runs, and MAX_ATTEMPTS bounds it.                    *)

LEMMA EntryOfLine ==
  ASSUME QueueInv, NEW i \in 1..Len(queued)
  PROVE  queued[i].key \in Keys /\ queued[i].msg \in Payloads
<1>1. queued[i] \in Entry
  BY ElementOfSeq DEF QueueInv, TypeOK
<1> QED BY <1>1 DEF Entry

\* A fresh entry joins the line: send and requeue.
LEMMA FreshIsCounted ==
  ASSUME QueueInv, AttemptsCounted, NEW k \in Keys, NEW m \in Payloads,
         ~HasKey(queued, k), queued' = Append(queued, Fresh(k, m)),
         UNCHANGED <<inFlight, runs>>
  PROVE  AttemptsCounted'
<1>1. /\ Len(queued') = Len(queued) + 1
      /\ \A j \in 1..(Len(queued) + 1) :
           queued'[j] = IF j <= Len(queued) THEN queued[j] ELSE Fresh(k, m)
      /\ \A h : HasKey(queued', h) <=> HasKey(queued, h) \/ h = k
  BY FreshEntry, AppendLine DEF QueueInv, TypeOK, OnePlacePerKey
<1>2. Fresh(k, m).attempts = 0 /\ Fresh(k, m).key = k
  BY DEF Fresh
<1>3. ~InHandKey(k) => runs[k] = 0
  BY DEF AttemptsCounted
<1>5. ASSUME NEW j \in 1..Len(queued')
      PROVE  queued'[j].attempts = IF InHandKey(queued'[j].key) THEN 0
                                   ELSE runs[queued'[j].key]
  <2>1. CASE j <= Len(queued)
    <3>1. j \in 1..Len(queued) /\ queued'[j] = queued[j]
      BY <1>1, <1>5, <2>1, HeldType DEF QueueInv
    <3> QED BY <3>1 DEF AttemptsCounted
  <2>2. CASE ~(j <= Len(queued))
    <3>1. queued'[j] = Fresh(k, m)
      BY <1>1, <1>5, <2>2
    <3> QED BY <1>2, <1>3, <3>1
  <2> QED BY <2>1, <2>2
<1>6. \A h \in Keys : ~HasKey(queued', h) /\ ~InHandKey(h) => runs[h] = 0
  BY <1>1 DEF AttemptsCounted
<1>7. inFlight # None => inFlight.attempts = runs[inFlight.key]
  BY DEF AttemptsCounted
<1> QED BY <1>5, <1>6, <1>7 DEF AttemptsCounted, InHandKey

\* The message in hand leaves it for good, and its count with it: Done, a
\* set-aside, and a `serve` that finds a message in hand.
LEMMA ReleaseIsCounted ==
  ASSUME QueueInv, AttemptsCounted, inFlight # None, inFlight' = None,
         runs' = Cleared(runs, inFlight.key),
         \A j \in 1..Len(queued') : \E i \in 1..Len(queued) : queued'[j] = queued[i],
         \A h : h # inFlight.key => (HasKey(queued', h) <=> HasKey(queued, h))
  PROVE  AttemptsCounted'
<1> DEFINE k == inFlight.key
<1>1. k \in Keys
  BY DEF QueueInv, TypeOK, InHand
<1>2. \A h \in Keys : runs'[h] = IF h = k THEN 0 ELSE runs[h]
  BY DEF Cleared, QueueInv, TypeOK
<1>3. ASSUME NEW j \in 1..Len(queued')
      PROVE  queued'[j].attempts = runs'[queued'[j].key]
  <2>1. PICK i \in 1..Len(queued) : queued'[j] = queued[i]
    BY <1>3
  <2>2. queued[i].key \in Keys
    BY <2>1, EntryOfLine
  <2>3. queued[i].attempts = IF InHandKey(queued[i].key) THEN 0
                             ELSE runs[queued[i].key]
    BY <2>1 DEF AttemptsCounted
  <2> QED BY <1>2, <2>1, <2>2, <2>3 DEF InHandKey
<1>4. ASSUME NEW h \in Keys, ~HasKey(queued', h)
      PROVE  runs'[h] = 0
  <2>1. CASE h = k
    BY <1>2, <2>1
  <2>2. CASE h # k
    BY <1>2, <1>4, <2>2 DEF AttemptsCounted, InHandKey
  <2> QED BY <2>1, <2>2
<1> QED BY <1>3, <1>4 DEF AttemptsCounted, InHandKey

LEMMA TakeIsCounted ==
  ASSUME QueueInv, AttemptsCounted, Take
  PROVE  AttemptsCounted'
<1> DEFINE e == Head(queued)
<1>1. /\ inFlight' = [key |-> e.key, attempts |-> Bumped(e.attempts),
                      reason |-> e.reason]
      /\ runs' = [runs EXCEPT ![e.key] = Bumped(@)]
      /\ queued' = Tail(queued) /\ queued # <<>> /\ pc \in {"look", "woken"}
  BY DEF Take
<1>2. inFlight = None
  BY <1>1 DEF QueueInv, HandledIsInHand
<1>3. /\ e \in Entry /\ e = queued[1]
      /\ Len(queued') = Len(queued) - 1
      /\ \A j \in 1..(Len(queued) - 1) : queued'[j] = queued[j + 1]
      /\ ~HasKey(queued', e.key)
      /\ \A h : h # e.key => (HasKey(queued', h) <=> HasKey(queued, h))
  BY <1>1, TailLine DEF QueueInv, TypeOK, OnePlacePerKey
<1>4. Len(queued) \in Nat /\ Len(queued) # 0
  BY <1>1, HeldType, EmptySeq DEF QueueInv, TypeOK
<1>5. \A i \in 1..Len(queued) : queued[i].attempts = runs[queued[i].key]
  BY <1>2 DEF AttemptsCounted, InHandKey
<1>6. e.attempts = runs[e.key] /\ e.key \in Keys
  BY <1>3, <1>4, <1>5 DEF Entry
<1> HIDE DEF e
<1>7. \A h \in Keys : runs'[h] = IF h = e.key THEN Bumped(runs[e.key]) ELSE runs[h]
  BY <1>1 DEF QueueInv, TypeOK
<1>8. inFlight'.key = e.key
  BY <1>1
<1>9. inFlight' # None
  <2>1. inFlight' \in InHand
    BY TakeKeepsQueueInv, <1>1, NoHandAssumption DEF QueueInv, TypeOK, HandledIsInHand, Take
  <2> QED BY <2>1, NoHandAssumption
<1>10. inFlight'.attempts = runs'[inFlight'.key]
  BY <1>1, <1>6, <1>7
<1>11. ASSUME NEW j \in 1..Len(queued')
       PROVE  /\ queued'[j].attempts = runs'[queued'[j].key]
              /\ queued'[j].key # e.key
  <2>1. j + 1 \in 1..Len(queued) /\ queued'[j] = queued[j + 1]
    BY <1>3, <1>4, <1>11
  <2>2. queued'[j].key # e.key
    BY <1>3, <1>11 DEF HasKey
  <2>3. queued[j + 1].key \in Keys
    BY <2>1, EntryOfLine
  <2> QED BY <1>5, <1>7, <2>1, <2>2, <2>3
<1>12. ASSUME NEW h \in Keys, ~HasKey(queued', h), h # e.key
       PROVE  runs'[h] = 0
  BY <1>2, <1>3, <1>7, <1>12 DEF AttemptsCounted, InHandKey
<1> QED BY <1>8, <1>9, <1>10, <1>11, <1>12 DEF AttemptsCounted, InHandKey

LEMMA RetryIsCounted ==
  ASSUME QueueInv, AttemptsCounted, HandleRetry
  PROVE  AttemptsCounted'
<1> DEFINE k == inFlight.key
           i == IndexOfKey(queued, k)
           back(m) == [key |-> k, msg |-> m, attempts |-> inFlight.attempts,
                       reason |-> "retry"]
<1>1. /\ pc = "handling" /\ inFlight' = None /\ runs' = runs
      /\ queued' = IF HasKey(queued, k) THEN ReplaceAt(queued, i, back(queued[i].msg))
                   ELSE Append(queued, back(msg))
  BY DEF HandleRetry
<1>2. inFlight # None /\ inFlight \in InHand /\ msg \in Payloads
  BY <1>1 DEF QueueInv, HandledIsInHand, TypeOK
<1>3. k \in Keys /\ inFlight.attempts = runs[k] /\ inFlight.attempts \in 0..MaxU32
  BY <1>2, QueueAssumption DEF AttemptsCounted, InHand
<1>4. \A m \in Payloads : /\ back(m) \in Entry /\ back(m).key = k
                          /\ back(m).attempts = runs[k]
  BY <1>3 DEF Entry, Reasons
<1>5. \A j \in 1..Len(queued) :
        queued[j].key # k => queued[j].attempts = runs[queued[j].key]
  BY DEF AttemptsCounted, InHandKey
<1>6. /\ \A j \in 1..Len(queued') : queued'[j].attempts = runs[queued'[j].key]
      /\ \A h : HasKey(queued', h) <=> HasKey(queued, h) \/ h = k
  <2>1. CASE HasKey(queued, k)
    <3>1. i \in 1..Len(queued) /\ queued[i].key = k
      BY <2>1, IndexFound DEF QueueInv, TypeOK
    <3>2. queued[i].msg \in Payloads
      BY <3>1, EntryOfLine
    <3> DEFINE taken == back(queued[i].msg)
    <3>3. taken \in Entry /\ taken.key = k /\ taken.attempts = runs[k]
      BY <1>4, <3>2
    <3>4. queued' = ReplaceAt(queued, i, taken)
      BY <1>1, <2>1
    <3> HIDE DEF taken, i
    <3>5. /\ Len(queued') = Len(queued)
          /\ \A j \in 1..Len(queued) :
               queued'[j] = IF j = i THEN taken ELSE queued[j]
          /\ \A h : HasKey(queued', h) <=> HasKey(queued, h)
      <4>1. queued \in Seq(Entry) /\ KeysDistinct(queued) /\ taken.key = queued[i].key
        BY <3>1, <3>3 DEF QueueInv, TypeOK, OnePlacePerKey
      <4> QED BY <3>1, <3>3, <3>4, <4>1, ReplaceLine
    <3>6. \A j \in 1..Len(queued) : j # i => queued[j].key # k
      BY <3>1 DEF QueueInv, OnePlacePerKey, KeysDistinct
    <3> QED BY <1>5, <2>1, <3>3, <3>5, <3>6
  <2>2. CASE ~HasKey(queued, k)
    <3> DEFINE last == back(msg)
    <3>1. last \in Entry /\ last.key = k /\ last.attempts = runs[k]
      BY <1>2, <1>4
    <3>2. queued' = Append(queued, last)
      BY <1>1, <2>2
    <3> HIDE DEF last
    <3>3. /\ Len(queued') = Len(queued) + 1
          /\ \A j \in 1..(Len(queued) + 1) :
               queued'[j] = IF j <= Len(queued) THEN queued[j] ELSE last
          /\ \A h : HasKey(queued', h) <=> HasKey(queued, h) \/ h = k
      BY <2>2, <3>1, <3>2, AppendLine DEF QueueInv, TypeOK, OnePlacePerKey
    <3>4. ASSUME NEW j \in 1..Len(queued')
          PROVE  queued'[j].attempts = runs[queued'[j].key]
      <4>1. CASE j <= Len(queued)
        <5>1. j \in 1..Len(queued) /\ queued'[j] = queued[j]
          BY <3>3, <3>4, <4>1, HeldType DEF QueueInv
        <5> QED BY <1>5, <2>2, <5>1 DEF HasKey
      <4>2. CASE ~(j <= Len(queued))
        BY <3>1, <3>3, <3>4, <4>2
      <4> QED BY <4>1, <4>2
    <3> QED BY <3>3, <3>4
  <2> QED BY <2>1, <2>2
<1>7. \A h \in Keys : ~HasKey(queued', h) => runs[h] = 0
  BY <1>6 DEF AttemptsCounted, InHandKey
<1> HIDE DEF k, i, back
<1>8. \A j \in 1..Len(queued') : queued'[j].attempts = runs'[queued'[j].key]
  BY <1>1, <1>6
<1>9. \A h \in Keys : ~HasKey(queued', h) => runs'[h] = 0
  BY <1>1, <1>7
<1>10. inFlight' = None
  BY <1>1
<1> QED BY <1>8, <1>9, <1>10 DEF AttemptsCounted, InHandKey

\* Steps that leave the line, the hand and the counts alone.
LEMMA CountsUntouched ==
  ASSUME AttemptsCounted, UNCHANGED <<queued, inFlight, runs>>
  PROVE  AttemptsCounted'
BY DEF AttemptsCounted, InHandKey, HasKey

LEMMA SetAsideIsCounted ==
  ASSUME QueueInv, AttemptsCounted, pc = "handling",
         NEW cause, NEW reason, SetAside(cause, reason)
  PROVE  AttemptsCounted'
<1>1. /\ queued' = WithoutKey(queued, inFlight.key) /\ inFlight' = None
      /\ runs' = Cleared(runs, inFlight.key)
  BY DEF SetAside
<1>2. inFlight # None
  BY DEF QueueInv, HandledIsInHand
<1>3. /\ \A j \in 1..Len(queued') : \E i \in 1..Len(queued) : queued'[j] = queued[i]
      /\ \A h : h # inFlight.key => (HasKey(queued', h) <=> HasKey(queued, h))
  <2>1. queued' = WithoutKey(queued, inFlight.key)
    BY <1>1
  <2>2. queued \in Seq(Entry) /\ KeysDistinct(queued)
    BY DEF QueueInv, TypeOK, OnePlacePerKey
  <2>3. \A j \in 1..Len(queued') : \E i \in 1..Len(queued) : queued'[j] = queued[i]
    <3> DEFINE k == inFlight.key
    <3> HIDE DEF k
    <3>1. \A j \in 1..Len(WithoutKey(queued, k)) :
            \E i \in 1..Len(queued) : WithoutKey(queued, k)[j] = queued[i]
      BY <2>2, WithoutKeyLine
    <3> QED BY <2>1, <3>1 DEF k
  <2>4. \A h : h # inFlight.key => (HasKey(queued', h) <=> HasKey(queued, h))
    BY <2>1, <2>2, WithoutKeyLine
  <2> QED BY <2>3, <2>4
<1> QED BY <1>1, <1>2, <1>3, ReleaseIsCounted

LEMMA ReleaseInPlaceIsCounted ==
  ASSUME QueueInv, AttemptsCounted, UNCHANGED queued, inFlight # None,
         inFlight' = None, runs' = Cleared(runs, inFlight.key)
  PROVE  AttemptsCounted'
<1>1. /\ \A j \in 1..Len(queued') : \E i \in 1..Len(queued) : queued'[j] = queued[i]
      /\ \A h : h # inFlight.key => (HasKey(queued', h) <=> HasKey(queued, h))
  OBVIOUS
<1> QED BY <1>1, ReleaseIsCounted

LEMMA AttemptsCountedStep ==
  QueueInv /\ AttemptsCounted /\ [Next]_vars => AttemptsCounted'
<1> SUFFICES ASSUME QueueInv, AttemptsCounted, [Next]_vars PROVE AttemptsCounted'
  OBVIOUS
<1>1. ASSUME NEW p \in Producers, NEW k \in Keys, NEW m \in Payloads, Send(p, k, m)
      PROVE  AttemptsCounted'
  <2>1. CASE Admits(k)
    BY <1>1, <2>1, FreshIsCounted DEF Send, Admits
  <2>2. CASE ~Admits(k)
    BY <1>1, <2>2, CountsUntouched DEF Send
  <2> QED BY <2>1, <2>2
<1>2. ASSUME NEW p \in Producers, NEW k \in Keys, Requeue(p, k)
      PROVE  AttemptsCounted'
  <2> DEFINE i == IndexOfKey(dead, k)
  <2>1. /\ queued' = Append(queued, Fresh(k, dead[i].msg))
        /\ HasKey(dead, k) /\ UNCHANGED <<inFlight, runs>>
    BY <1>2 DEF Requeue
  <2>2. i \in 1..Len(dead)
    BY <2>1, IndexFound DEF QueueInv, TypeOK
  <2>3. dead[i] \in Aside
    BY <2>2, ElementOfSeq DEF QueueInv, TypeOK
  <2>4. dead[i].msg \in Payloads
    BY <2>3 DEF Aside
  <2>5. ~HasKey(queued, k)
    BY <2>1 DEF QueueInv, OnePlacePerKey
  <2> QED BY <2>1, <2>4, <2>5, FreshIsCounted
<1>3. ASSUME NEW p \in Producers, NEW k \in Keys, Forget(p, k)
      PROVE  AttemptsCounted'
  BY <1>3, CountsUntouched DEF Forget
<1>4. CASE Serve
  <2>1. CASE inFlight = None
    BY <1>4, <2>1, CountsUntouched DEF Serve
  <2>2. CASE inFlight # None
    BY <1>4, <2>2, ReleaseInPlaceIsCounted DEF Serve
  <2> QED BY <2>1, <2>2
<1>5. CASE HandleDone
  BY <1>5, ReleaseInPlaceIsCounted DEF HandleDone, QueueInv, HandledIsInHand
<1>6. CASE HandleRetry
  BY <1>6, RetryIsCounted
<1>7. CASE HandleExhausted \/ HandleFailed \/ HandleTimedOut
  BY <1>7, SetAsideIsCounted DEF HandleExhausted, HandleFailed, HandleTimedOut
<1>8. CASE Take
  BY <1>8, TakeIsCounted
<1>9. CASE LossNoticed
  <2>1. queued' = <<>> /\ inFlight' = None /\ runs' = [k \in Keys |-> 0]
    BY <1>9 DEF LossNoticed
  <2>2. Len(queued') = 0
    BY <2>1, EmptySeq
  <2> QED BY <2>1, <2>2 DEF AttemptsCounted
<1>10. ASSUME NEW p \in Producers, Notify(p)
       PROVE  AttemptsCounted'
  BY <1>10, CountsUntouched DEF Notify, line
<1>11. CASE \/ SeesLeadership \/ ServeReturns \/ PauseEnds \/ FindsNothing
            \/ Listen \/ HookEnds \/ WorkerUnwinds \/ ElectionChanges
            \/ UNCHANGED vars
  <2>1. UNCHANGED <<queued, inFlight, runs>>
    BY <1>11 DEF SeesLeadership, ServeReturns, PauseEnds, FindsNothing, Listen,
                 HookEnds, WorkerUnwinds, ElectionChanges, line, vars
  <2> QED BY <2>1, CountsUntouched
<1> QED BY <1>1, <1>2, <1>3, <1>4, <1>5, <1>6, <1>7, <1>8, <1>9, <1>10, <1>11
        DEF Next, Executor, HandleEnds

\* The count recorded for a key is exactly how often handle ran for it since the
\* count was last cleared, wherever the message is and whatever resends met it.
THEOREM CountsAreTrue == Spec => []AttemptsCounted
<1>1. Init => AttemptsCounted
  <2> SUFFICES ASSUME Init PROVE AttemptsCounted
    OBVIOUS
  <2>1. queued = <<>> /\ inFlight = None /\ runs = [k \in Keys |-> 0]
    BY DEF Init
  <2>2. Len(queued) = 0
    BY <2>1, EmptySeq
  <2> QED BY <2>1, <2>2 DEF AttemptsCounted
<1>2. QueueInv /\ AttemptsCounted /\ [Next]_vars => AttemptsCounted'
  BY AttemptsCountedStep
<1> QED BY <1>1, <1>2, QueueInvariant, PTL DEF Spec

-----------------------------------------------------------------------------
(* MAX_ATTEMPTS. *)

\* The letters of keys that were tried as often as MAX_ATTEMPTS allows.
Tried ==
  {letter \in Aside :
     /\ letter.attempts <= MaxAttempts
     /\ letter.cause = "Exhausted" => letter.attempts = MaxAttempts}

\* A key that is not in hand has an attempt left.
BoundInv ==
  MaxAttempts # 0 =>
    /\ \A k \in Keys : runs[k] <= MaxAttempts
    /\ \A k \in Keys : ~InHandKey(k) => runs[k] < MaxAttempts
    /\ dead \in Seq(Tried)

LEMMA BoundUntouched ==
  ASSUME BoundInv, UNCHANGED <<inFlight, runs>>,
         MaxAttempts # 0 /\ dead \in Seq(Tried) => dead' \in Seq(Tried)
  PROVE  BoundInv'
BY DEF BoundInv, InHandKey

LEMMA TriedWithout ==
  ASSUME QueueInv, dead \in Seq(Tried), NEW k
  PROVE  WithoutKey(dead, k) \in Seq(Tried)
BY WithoutKeyLine DEF QueueInv, OnePlacePerKey

\* The count of the key in hand is cleared: Done and a `serve` that finds a message.
LEMMA ReleaseIsBounded ==
  ASSUME QueueInv, BoundInv, inFlight # None, inFlight' = None,
         runs' = Cleared(runs, inFlight.key),
         MaxAttempts # 0 /\ dead \in Seq(Tried) => dead' \in Seq(Tried)
  PROVE  BoundInv'
<1>1. \A k \in Keys : runs'[k] = IF k = inFlight.key THEN 0 ELSE runs[k]
  BY DEF Cleared, QueueInv, TypeOK
<1> SUFFICES ASSUME MaxAttempts # 0 PROVE BoundInv'
  BY DEF BoundInv
<1>2. MaxAttempts \in Nat /\ MaxAttempts > 0
  BY QueueAssumption
<1>3. \A k \in Keys : runs'[k] < MaxAttempts /\ runs'[k] <= MaxAttempts
  <2> TAKE k \in Keys
  <2>1. CASE k = inFlight.key
    BY <1>1, <1>2, <2>1
  <2>2. CASE k # inFlight.key
    <3>1. runs[k] \in Nat /\ runs[k] < MaxAttempts /\ runs[k] <= MaxAttempts
      BY <2>2 DEF BoundInv, InHandKey, QueueInv, TypeOK
    <3> QED BY <1>1, <2>2, <3>1
  <2> QED BY <2>1, <2>2
<1> QED BY <1>3 DEF BoundInv, InHandKey

LEMMA TakeIsBounded ==
  ASSUME QueueInv, BoundInv, Take
  PROVE  BoundInv'
<1> SUFFICES ASSUME MaxAttempts # 0 PROVE BoundInv'
  BY DEF BoundInv
<1> DEFINE key == Head(queued).key
<1>1. /\ inFlight'.key = key /\ dead' = dead
      /\ runs' = [runs EXCEPT ![key] = Bumped(@)] /\ pc \in {"look", "woken"}
  BY DEF Take
<1>2. inFlight = None
  BY <1>1 DEF QueueInv, HandledIsInHand
<1>3. inFlight' # None
  <2>1. inFlight' \in InHand
    BY TakeKeepsQueueInv, NoHandAssumption
       DEF QueueInv, TypeOK, HandledIsInHand, Take
  <2> QED BY <2>1, NoHandAssumption
<1> HIDE DEF key
<1>4. \A k \in Keys : runs[k] \in 0..MaxU32 /\ runs[k] < MaxAttempts
  BY <1>2 DEF BoundInv, InHandKey, QueueInv, TypeOK
<1>5. \A k \in Keys : runs'[k] = IF k = key THEN Bumped(runs[k]) ELSE runs[k]
  BY <1>1 DEF QueueInv, TypeOK
<1>6. \A k \in Keys : Bumped(runs[k]) <= MaxAttempts
  BY <1>4, QueueAssumption DEF Bumped
<1>7. \A k \in Keys : runs'[k] <= MaxAttempts
  BY <1>4, <1>5, <1>6, QueueAssumption
<1> QED BY <1>1, <1>3, <1>4, <1>5, <1>7 DEF BoundInv, InHandKey

LEMMA RetryIsBounded ==
  ASSUME QueueInv, AttemptsCounted, BoundInv, HandleRetry
  PROVE  BoundInv'
<1> SUFFICES ASSUME MaxAttempts # 0 PROVE BoundInv'
  BY DEF BoundInv
<1>1. /\ inFlight # None /\ inFlight' = None /\ ~IsLastAttempt
      /\ runs' = runs /\ dead' = dead
  BY DEF HandleRetry, QueueInv, HandledIsInHand
<1>2. inFlight.attempts \in Nat /\ inFlight.attempts = runs[inFlight.key]
  BY <1>1 DEF QueueInv, TypeOK, InHand, AttemptsCounted
<1>3. runs[inFlight.key] < MaxAttempts
  BY <1>1, <1>2, QueueAssumption DEF IsLastAttempt
<1> QED BY <1>1, <1>3 DEF BoundInv, InHandKey

LEMMA SetAsideIsBounded ==
  ASSUME QueueInv, AttemptsCounted, BoundInv, pc = "handling",
         NEW cause \in Causes, NEW reason \in Reasons, SetAside(cause, reason),
         cause = "Exhausted" => IsLastAttempt
  PROVE  BoundInv'
<1> DEFINE k == inFlight.key
           letter == [key |-> k, msg |-> msg, cause |-> cause,
                      attempts |-> inFlight.attempts, reason |-> reason]
<1>1. /\ dead' = Newest(Append(dead, letter), DeadCapacity)
      /\ inFlight' = None /\ runs' = Cleared(runs, k)
  BY DEF SetAside
<1>2. /\ inFlight # None /\ msg \in Payloads
      /\ k \in Keys /\ inFlight.attempts \in 1..MaxU32
      /\ inFlight.attempts = runs[k]
  BY DEF QueueInv, HandledIsInHand, TypeOK, InHand, AttemptsCounted
<1>3. ASSUME MaxAttempts # 0, dead \in Seq(Tried) PROVE dead' \in Seq(Tried)
  <2>1. inFlight.attempts <= MaxAttempts
    BY <1>2, <1>3 DEF BoundInv
  <2>2. cause = "Exhausted" => inFlight.attempts = MaxAttempts
    BY <1>2, <2>1, QueueAssumption DEF IsLastAttempt
  <2>3. letter \in Tried /\ letter.key = k
    BY <1>2, <2>1, <2>2 DEF Aside, Tried
  <2>4. ~HasKey(dead, k)
    BY <1>2 DEF QueueInv, OnePlacePerKey, InHandKey
  <2> HIDE DEF letter
  <2>5. Append(dead, letter) \in Seq(Tried) /\ KeysDistinct(Append(dead, letter))
    BY <1>3, <2>3, <2>4, AppendLine DEF QueueInv, OnePlacePerKey
  <2> QED BY <1>1, <2>5, NewestLine, QueueAssumption
<1> QED BY <1>1, <1>2, <1>3, ReleaseIsBounded

LEMMA BoundInvStep ==
  QueueInv /\ AttemptsCounted /\ BoundInv /\ [Next]_vars => BoundInv'
<1> SUFFICES ASSUME QueueInv, AttemptsCounted, BoundInv, [Next]_vars PROVE BoundInv'
  OBVIOUS
<1>1. ASSUME NEW p \in Producers, NEW k \in Keys,
             (\E m \in Payloads : Send(p, k, m)) \/ Requeue(p, k) \/ Forget(p, k)
      PROVE  BoundInv'
  <2>1. UNCHANGED <<inFlight, runs>> /\ (dead' = dead \/ dead' = WithoutKey(dead, k))
    BY <1>1 DEF Send, Requeue, Forget
  <2> QED BY <2>1, TriedWithout, BoundUntouched
<1>2. CASE Serve
  BY <1>2, ReleaseIsBounded, BoundUntouched DEF Serve
<1>3. CASE HandleDone
  BY <1>3, ReleaseIsBounded DEF HandleDone, QueueInv, HandledIsInHand
<1>4. CASE HandleRetry
  BY <1>4, RetryIsBounded
<1>5. CASE HandleExhausted
  BY <1>5, SetAsideIsBounded DEF HandleExhausted, Causes, Reasons
<1>6. CASE HandleFailed
  BY <1>6, SetAsideIsBounded DEF HandleFailed, Causes, Reasons
<1>7. CASE HandleTimedOut
  <2>1. inFlight.reason \in Reasons
    BY <1>7 DEF HandleTimedOut, QueueInv, HandledIsInHand, TypeOK, InHand
  <2> QED BY <1>7, <2>1, SetAsideIsBounded DEF HandleTimedOut, Causes
<1>8. CASE Take
  BY <1>8, TakeIsBounded
<1>9. CASE LossNoticed
  <2>1. dead' = <<>> /\ inFlight' = None /\ runs' = [k \in Keys |-> 0]
    BY <1>9 DEF LossNoticed
  <2>2. dead' \in Seq(Tried)
    BY <2>1, EmptySeq
  <2>3. MaxAttempts \in Nat /\ (MaxAttempts # 0 => MaxAttempts > 0)
    BY QueueAssumption
  <2>4. \A k \in Keys : runs'[k] = 0
    BY <2>1
  <2>5. MaxAttempts # 0 =>
          \A k \in Keys : runs'[k] <= MaxAttempts /\ runs'[k] < MaxAttempts
    BY <2>3, <2>4
  <2> QED BY <2>2, <2>5 DEF BoundInv
<1>10. CASE \/ \E p \in Producers : Notify(p)
            \/ SeesLeadership \/ ServeReturns \/ PauseEnds \/ FindsNothing
            \/ Listen \/ HookEnds \/ WorkerUnwinds \/ ElectionChanges
            \/ UNCHANGED vars
  <2>1. UNCHANGED <<dead, inFlight, runs>>
    BY <1>10 DEF Notify, SeesLeadership, ServeReturns, PauseEnds, FindsNothing,
                 Listen, HookEnds, WorkerUnwinds, ElectionChanges, line, vars
  <2> QED BY <2>1, BoundUntouched
<1> QED BY <1>1, <1>2, <1>3, <1>4, <1>5, <1>6, <1>7, <1>8, <1>9, <1>10
        DEF Next, Executor, HandleEnds

\* `handle` runs at most MAX_ATTEMPTS times for a key before its count is cleared,
\* and a letter says Exhausted only after exactly that many, for every limit.
THEOREM AttemptsAreBounded == Spec => []AttemptsBounded
<1>1. Init => BoundInv
  <2> SUFFICES ASSUME Init PROVE BoundInv
    OBVIOUS
  <2>1. dead = <<>> /\ runs = [k \in Keys |-> 0]
    BY DEF Init
  <2>2. dead \in Seq(Tried)
    BY <2>1, EmptySeq
  <2>3. MaxAttempts \in Nat /\ (MaxAttempts # 0 => MaxAttempts > 0)
    BY QueueAssumption
  <2>4. \A k \in Keys : runs[k] = 0
    BY <2>1
  <2>5. MaxAttempts # 0 =>
          \A k \in Keys : runs[k] <= MaxAttempts /\ runs[k] < MaxAttempts
    BY <2>3, <2>4
  <2> QED BY <2>2, <2>5 DEF BoundInv
<1>2. BoundInv => AttemptsBounded
  <2> SUFFICES ASSUME BoundInv, MaxAttempts # 0, NEW i \in 1..Len(dead)
               PROVE  dead[i] \in Tried
    BY DEF BoundInv, AttemptsBounded, Tried
  <2> QED BY ElementOfSeq DEF BoundInv
<1> QED BY <1>1, <1>2, BoundInvStep, QueueInvariant, CountsAreTrue, PTL DEF Spec

=============================================================================
