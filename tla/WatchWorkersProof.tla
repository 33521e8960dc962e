-------------------------- MODULE WatchWorkersProof --------------------------
(***************************************************************************)
(* Proofs about the workers that keep a view of what others write: the KV  *)
(* worker's view of a key is the bucket's entry whenever the watch has     *)
(* shown the key's last change readably, and the Kubernetes watcher's view *)
(* is what the API server holds once it has taken what its watch has       *)
(* delivered; for every set of keys and values and every number of writes. *)
(***************************************************************************)
EXTENDS WatchWorkers, FiniteSetTheorems, SequenceTheorems, TLAPS

KvEvents == [op : {"Put", "Delete", "Purge"}, key : Keys, value : Values \cup {None}]

\* The event at i is the last one of its key that is under way.
IsLatest(i) ==
  \A j \in 1..Len(queue) : j > i => queue[j].key # queue[i].key

\* What an event will make of the view.
Brings(event) ==
  IF event.op = "Put" THEN event.value = store[event.key] /\ event.value \notin Garbled
  ELSE store[event.key] = None

\* A key whose last change was shown is as the bucket has it in the view, or will be
\* when the last of its events has been taken; only an open watch has events.
KvInv ==
  ~Kube =>
    /\ store \in Entries /\ view \in Entries
    /\ queue \in Seq(KvEvents)
    /\ ~Watching => queue = <<>>
    /\ \A k \in Keys \ stale : ~Underway(k) => view[k] = store[k]
    /\ \A i \in 1..Len(queue) :
         queue[i].key \notin stale /\ IsLatest(i) => Brings(queue[i])

LEMMA UnderwayIs ==
  ASSUME queue \in Seq(KvEvents), NEW k
  PROVE  Underway(k) <=> \E i \in 1..Len(queue) : queue[i].key = k
BY LenProperties DEF Underway

LEMMA WriteKeeps ==
  ASSUME KvInv, ~Kube, NEW k \in Keys, NEW v \in Values \cup {None},
         NEW op \in {"Put", "Delete", "Purge"}, Write(k, v, op),
         op = "Put" <=> v # None
  PROVE  KvInv'
<1> DEFINE e == Event(op, k, v)
           n == Len(queue)
<1>1. /\ store' = [store EXCEPT ![k] = v] /\ UNCHANGED <<kind, at, view>>
      /\ queue' = IF Watching THEN Append(queue, e) ELSE queue
      /\ stale' = IF Watching /\ v \notin Garbled THEN stale \ {k} ELSE stale \cup {k}
  BY DEF Write
<1>2. store' \in Entries /\ view' \in Entries /\ ~Kube' /\ Watching' = Watching
  BY <1>1 DEF KvInv, Entries, Kube, Watching
<1>3. e \in KvEvents /\ e.key = k /\ e.op = op /\ e.value = v
  BY DEF Event, KvEvents
<1>4. queue \in Seq(KvEvents) /\ n \in Nat
  BY LenProperties DEF KvInv
<1>5. \A h \in Keys : store'[h] = IF h = k THEN v ELSE store[h]
  BY <1>1 DEF KvInv, Entries
<1>6. ASSUME NEW i \in 1..n PROVE queue[i].key \in Keys
  <2>1. queue[i] \in KvEvents
    BY <1>4, <1>6, ElementOfSeq
  <2> QED BY <2>1 DEF KvEvents
<1> HIDE DEF e
<1>7. CASE ~Watching
  <2>1. queue = <<>> /\ queue' = <<>> /\ n = 0 /\ stale' = stale \cup {k}
    BY <1>1, <1>7, EmptySeq DEF KvInv
  <2>2. \A h \in Keys \ stale' : view'[h] = store'[h]
    <3> TAKE h \in Keys \ stale'
    <3>1. h \in Keys \ stale /\ h # k /\ ~Underway(h)
      BY <1>4, <2>1, UnderwayIs
    <3>2. view[h] = store[h]
      BY <3>1 DEF KvInv
    <3> QED BY <1>1, <1>5, <3>1, <3>2
  <2> QED BY <1>1, <1>2, <1>4, <2>1, <2>2, EmptySeq DEF KvInv
<1>8. CASE Watching
  <2>1. /\ queue' \in Seq(KvEvents) /\ Len(queue') = n + 1 /\ queue'[n + 1] = e
        /\ \A i \in 1..n : queue'[i] = queue[i]
    BY <1>1, <1>3, <1>4, <1>8, AppendProperties
  <2>2. \A h : Underway(h)' <=> \E i \in 1..(n + 1) : queue'[i].key = h
    BY <2>1, LenProperties DEF Underway
  <2>3. ASSUME NEW h \in Keys \ stale', ~Underway(h)' PROVE view'[h] = store'[h]
    <3>1. h # k
      BY <1>3, <1>4, <2>1, <2>2, <2>3
    <3>2. h \in Keys \ stale
      BY <1>1, <2>3, <3>1
    <3>3. ~Underway(h)
      BY <1>4, <2>1, <2>2, <2>3, UnderwayIs
    <3> QED BY <1>1, <1>5, <3>1, <3>2, <3>3 DEF KvInv
  <2>4. ASSUME NEW i \in 1..(n + 1), queue'[i].key \notin stale', IsLatest(i)'
        PROVE  Brings(queue[i])'
    <3>1. CASE i = n + 1
      <4>1. queue'[i] = e /\ k \notin stale'
        BY <1>3, <2>1, <2>4, <3>1
      <4>2. v \notin Garbled
        BY <1>1, <4>1
      <4> QED BY <1>3, <1>5, <4>1, <4>2 DEF Brings
    <3>2. CASE i # n + 1
      <4>1. i \in 1..n /\ queue'[i] = queue[i]
        BY <1>4, <2>1, <3>2
      <4>2. queue[i].key # k
        <5>1. n + 1 \in 1..Len(queue') /\ n + 1 > i
          BY <1>4, <2>1, <4>1
        <5> QED BY <1>3, <2>1, <2>4, <4>1, <5>1 DEF IsLatest
      <4>3. queue[i].key \notin stale
        BY <1>1, <2>4, <4>1, <4>2
      <4>4. IsLatest(i)
        <5> SUFFICES ASSUME NEW j \in 1..n, j > i PROVE queue[j].key # queue[i].key
          BY DEF IsLatest
        <5>1. j \in 1..Len(queue') /\ queue'[j] = queue[j]
          BY <1>4, <2>1
        <5> QED BY <2>4, <4>1, <5>1 DEF IsLatest
      <4>5. Brings(queue[i])
        BY <4>1, <4>3, <4>4 DEF KvInv
      <4> QED BY <1>5, <1>6, <4>1, <4>2, <4>5 DEF Brings
    <3> QED BY <3>1, <3>2
  <2> QED BY <1>1, <1>2, <1>8, <2>1, <2>3, <2>4 DEF KvInv
<1> QED BY <1>7, <1>8

LEMMA DispatchKeeps ==
  ASSUME KvInv, DispatchEntry
  PROVE  KvInv'
<1> DEFINE n == Len(queue)
<1>0. PICK e : e = Head(queue)
  OBVIOUS
<1>1. /\ Watching /\ ~Kube /\ queue # <<>>
      /\ view' = Entry(e) /\ queue' = Tail(queue)
      /\ UNCHANGED <<kind, store, at, stale>>
  BY <1>0 DEF DispatchEntry
<1>2. /\ queue \in Seq(KvEvents) /\ n \in Nat /\ n >= 1
      /\ queue' \in Seq(KvEvents) /\ Len(queue') = n - 1 /\ e = queue[1]
      /\ \A i \in 1..(n - 1) : queue'[i] = queue[i + 1]
  BY <1>0, <1>1, HeadTailProperties, EmptySeq, LenProperties DEF KvInv
<1>3. e \in KvEvents
  BY <1>2, ElementOfSeq
<1>4. /\ view' \in Entries
      /\ \A h \in Keys : h # e.key => view'[h] = view[h]
      /\ ~(e.op = "Put" /\ e.value \in Garbled) =>
           view'[e.key] = IF e.op = "Put" THEN e.value ELSE None
  <2>0. /\ e.key \in Keys /\ e.value \in Values \cup {None}
        /\ view \in [Keys -> Values \cup {None}]
    BY <1>1, <1>3 DEF KvEvents, KvInv, Entries
  <2>1. CASE e.op = "Put" /\ e.value \notin Garbled
    <3>1. view' = [view EXCEPT ![e.key] = e.value]
      BY <1>1, <2>1 DEF Entry, MapOperation
    <3> QED BY <2>0, <2>1, <3>1 DEF Entries
  <2>2. CASE e.op # "Put"
    <3>1. view' = [view EXCEPT ![e.key] = None]
      BY <1>1, <2>2 DEF Entry, MapOperation
    <3> QED BY <2>0, <2>2, <3>1 DEF Entries
  <2>3. CASE e.op = "Put" /\ e.value \in Garbled
    <3>1. view' = view
      BY <1>1, <2>3 DEF Entry, MapOperation
    <3> QED BY <2>0, <2>3, <3>1 DEF Entries
  <2> QED BY <2>1, <2>2, <2>3
<1>5. \A h : Underway(h)' <=> \E i \in 1..(n - 1) : queue'[i].key = h
  BY <1>2, LenProperties DEF Underway
<1>6. ASSUME NEW h \in Keys \ stale', ~Underway(h)' PROVE view'[h] = store'[h]
  <2>1. ASSUME NEW j \in 1..n, j > 1 PROVE queue[j].key # h
    <3>1. j - 1 \in 1..(n - 1) /\ (j - 1) + 1 = j
      BY <1>2, <2>1
    <3>2. queue'[j - 1] = queue[j]
      BY <1>2, <3>1
    <3> QED BY <1>5, <1>6, <3>1, <3>2
  <2>2. CASE h = e.key
    <3>1. 1 \in 1..n /\ IsLatest(1)
      BY <1>2, <2>1, <2>2 DEF IsLatest
    <3>2. Brings(e)
      BY <1>1, <1>2, <1>6, <2>2, <3>1 DEF KvInv
    <3>3. ~(e.op = "Put" /\ e.value \in Garbled)
      BY <3>2 DEF Brings
    <3> QED BY <1>1, <1>4, <2>2, <3>2, <3>3 DEF Brings
  <2>3. CASE h # e.key
    <3>1. \A j \in 1..n : queue[j].key # h
      BY <1>2, <2>1, <2>3
    <3>2. ~Underway(h)
      BY <1>2, <3>1, UnderwayIs
    <3> QED BY <1>1, <1>4, <1>6, <2>3, <3>2 DEF KvInv
  <2> QED BY <2>2, <2>3
<1>7. ASSUME NEW i \in 1..(n - 1), queue'[i].key \notin stale', IsLatest(i)'
      PROVE  Brings(queue[i])'
  <2>1. i + 1 \in 1..n /\ queue'[i] = queue[i + 1]
    BY <1>2
  <2>2. IsLatest(i + 1)
    <3> SUFFICES ASSUME NEW j \in 1..n, j > i + 1
                 PROVE  queue[j].key # queue[i + 1].key
      BY DEF IsLatest
    <3>1. /\ j - 1 \in 1..Len(queue') /\ j - 1 > i
          /\ j - 1 \in 1..(n - 1) /\ (j - 1) + 1 = j
      BY <1>2
    <3>2. queue'[j - 1] = queue[j]
      BY <1>2, <3>1
    <3> QED BY <1>7, <2>1, <3>1, <3>2 DEF IsLatest
  <2>3. Brings(queue[i + 1])
    BY <1>1, <1>7, <2>1, <2>2 DEF KvInv
  <2> QED BY <1>1, <2>1, <2>3 DEF Brings
<1>8. Watching' /\ store' \in Entries
  BY <1>1 DEF Watching, KvInv
<1> QED BY <1>2, <1>4, <1>6, <1>7, <1>8 DEF KvInv

\* The watch closes: what was under way is stale from then on.
LEMMA WatchEndsKeeps ==
  ASSUME KvInv, WatchEnds
  PROVE  KvInv'
<1>1. /\ queue' = <<>> /\ stale' = stale \cup {queue[i].key : i \in DOMAIN queue}
      /\ ~Kube /\ UNCHANGED <<kind, store, view>>
  BY DEF WatchEnds, Goes
<1>2. Len(queue') = 0 /\ queue' \in Seq(KvEvents)
  BY <1>1, EmptySeq
<1>3. ASSUME NEW k \in Keys \ stale' PROVE view'[k] = store'[k]
  <2>1. k \in Keys \ stale /\ ~Underway(k)
    BY <1>1, <1>3 DEF Underway
  <2> QED BY <1>1, <2>1 DEF KvInv
<1> QED BY <1>1, <1>2, <1>3 DEF KvInv

\* Steps that leave store, view, queue and stale alone.
LEMMA QuietKeeps ==
  ASSUME KvInv, UNCHANGED <<kind, store, view, queue, stale>>,
         ~Kube => Watching' \/ ~Watching
  PROVE  KvInv'
BY DEF KvInv, Kube, Underway, IsLatest, Brings

LEMMA KvInvStep == KvInv /\ [Next]_vars => KvInv'
<1> SUFFICES ASSUME KvInv, [Next]_vars PROVE KvInv'
  OBVIOUS
<1>1. None \notin Garbled /\ None \notin Values
  BY WatchAssumption
<1>2. CASE Kube
  <2>1. kind' = kind
    BY DEF Next, Writes, Write, ElectionChanges, KvWorker, LookupBucket, OpenWatch,
           WatchEnds, DispatchEntry, KubeWatcher, WaitForLeadership, OpenList,
           WatchErrs, DispatchKubeEvent, StreamReturns, LossNoticed, Goes, vars
  <2> QED BY <1>2, <2>1 DEF KvInv, Kube
<1>3. CASE ~Kube
  <2>1. CASE Writes
    <3>1. PICK k \in Keys, v \in Values \cup {None}, op \in {"Put", "Delete", "Purge"} :
            Write(k, v, op) /\ (op = "Put" <=> v # None)
      BY <1>1, <1>3, <2>1 DEF Writes
    <3> QED BY <1>3, <3>1, WriteKeeps
  <2>2. CASE ElectionChanges \/ UNCHANGED vars
    BY <2>2, QuietKeeps DEF ElectionChanges, vars, Watching
  <2>3. CASE LookupBucket \/ OpenWatch \/ WaitForLeadership
    <3>1. UNCHANGED <<kind, store, view, queue, stale>> /\ ~Watching
      BY <2>3 DEF LookupBucket, OpenWatch, WaitForLeadership, Goes, Watching
    <3> QED BY <3>1, QuietKeeps
  <2>4. CASE WatchEnds
    BY <2>4, WatchEndsKeeps
  <2>5. CASE DispatchEntry
    BY <2>5, DispatchKeeps
  <2>6. CASE OpenList \/ WatchErrs \/ DispatchKubeEvent \/ StreamReturns \/ LossNoticed
    BY <1>3, <2>6 DEF OpenList, WatchErrs, DispatchKubeEvent, StreamReturns,
                      LossNoticed, Gated, Kube
  <2> QED BY <2>1, <2>2, <2>3, <2>4, <2>5, <2>6 DEF Next, KvWorker, KubeWatcher
<1> QED BY <1>2, <1>3

LEMMA KvInvInit == Init => KvInv
<1> SUFFICES ASSUME Init, ~Kube PROVE KvInv
  BY DEF KvInv
<1>1. /\ store \in Entries /\ view = Nothing /\ queue = <<>>
      /\ stale = {k \in Keys : store[k] # None}
  BY DEF Init, Entries, Nothing
<1>2. view \in Entries /\ queue \in Seq(KvEvents) /\ Len(queue) = 0
  BY <1>1, EmptySeq DEF Entries, Nothing
<1>3. \A k \in Keys \ stale : view[k] = store[k]
  BY <1>1 DEF Nothing
<1> QED BY <1>1, <1>2, <1>3 DEF KvInv

\* The view of a key is the bucket's entry unless its last change fell into a time
\* without a watch, was lost with one, or did not parse.
THEOREM KvViewFollows == Spec => []KvViewIsStore
<1>1. KvInv => KvViewIsStore
  BY DEF KvInv, KvViewIsStore
<1> QED BY <1>1, KvInvInit, KvInvStep, PTL DEF Spec

-----------------------------------------------------------------------------
(* The Kubernetes watcher. *)

KeyOps == {"InitApply", "Apply", "Delete"}
MarkOps == {"Init", "InitDone", "Err"}

KubeEvents ==
  [op : KeyOps, key : Keys, value : Values \cup {None}]
    \cup [op : MarkOps, key : {None}, value : {None}]

HasOp(q, op) == \E i \in 1..Len(q) : q[i].op = op

\* A list comes whole and first: an error at most before it, changes only after it.
ListFirst ==
  \A i \in 1..Len(queue) :
    /\ queue[i].op = "Init" => \A j \in 1..Len(queue) : j < i => queue[j].op = "Err"
    /\ queue[i].op \in {"Init", "InitApply"} =>
         \E j \in 1..Len(queue) : j > i /\ queue[j].op = "InitDone"
    /\ queue[i].op = "InitDone" =>
         \A j \in 1..Len(queue) : j < i => queue[j].op \in {"Err", "Init", "InitApply"}

\* What the view is going to be of keys without an event under way.
Base ==
  IF HasOp(queue, "Init") THEN Nothing
  ELSE IF HasOp(queue, "InitDone") THEN burst ELSE view

\* The last event of a key brings what the API server holds; a key without one is
\* as it is in what the view is going to be.
Complete ==
  \A k \in Keys :
    /\ (\A i \in 1..Len(queue) : queue[i].key # k) => Base[k] = store[k]
    /\ \A i \in 1..Len(queue) :
         queue[i].key = k /\ (\A j \in 1..Len(queue) : j > i => queue[j].key # k)
           => queue[i].value = store[k]

KubeInv ==
  Kube =>
    /\ store \in Entries /\ view \in Entries /\ burst \in Entries
    /\ Watching => queue \in Seq(KubeEvents) /\ ListFirst /\ Complete

\* A list has an entry for every object, between its two marks.
LEMMA RelistIs ==
  ASSUME store \in Entries
  PROVE  \E n \in Nat :
           /\ Relist \in Seq(KubeEvents) /\ Len(Relist) = n + 2
           /\ Relist[1] = Mark("Init") /\ Relist[n + 2] = Mark("InitDone")
           /\ \A i \in 2..(n + 1) :
                /\ Relist[i].op = "InitApply" /\ Relist[i].key \in Keys
                /\ Relist[i].value = store[Relist[i].key]
           /\ \A k \in Keys : store[k] # None => \E i \in 2..(n + 1) : Relist[i].key = k
<1>1. PICK S : S = {k \in Keys : store[k] # None}
  OBVIOUS
<1>2. IsFiniteSet(S)
  BY <1>1, WatchAssumption, FS_Subset
<1>3. PICK n : n = Cardinality(S)
  OBVIOUS
<1>4. n \in Nat /\ ExistsBijection(1..n, S)
  BY <1>2, <1>3, FS_CardinalityType
<1>5. PICK f : f = SetToSeq(S)
  OBVIOUS
<1>6. f \in Injection(1..n, S)
  <2>1. \E g : g \in [1..n -> S] /\ IsInjective(g)
    BY <1>4 DEF ExistsBijection, Bijection, Injection
  <2>2. f = CHOOSE g \in [1..n -> S] : IsInjective(g)
    BY <1>3, <1>5 DEF SetToSeq
  <2> QED BY <2>1, <2>2 DEF Injection
<1>7. f \in Surjection(1..n, S)
  <2>1. IsFiniteSet(1..n) /\ Cardinality(1..n) = n
    BY <1>4, FS_Interval
  <2> QED BY <1>2, <1>3, <1>6, <2>1, FS_Injection
<1> DEFINE middle == [i \in 1..n |-> Event("InitApply", f[i], store[f[i]])]
<1>8. Relist = <<Mark("Init")>> \o middle \o <<Mark("InitDone")>>
  BY <1>1, <1>3, <1>5 DEF Relist
<1>9. \A i \in 1..n : f[i] \in S
  BY <1>6 DEF Injection
<1>10. \A i \in 1..n : middle[i] \in KubeEvents
  BY <1>1, <1>9 DEF Event, KubeEvents, KeyOps, Entries
<1>11. middle \in Seq(KubeEvents) /\ Len(middle) = n
  BY <1>4, <1>10, IsASeq, LenProperties
<1>12. \A i \in 1..n : /\ middle[i].op = "InitApply" /\ middle[i].key = f[i]
                       /\ middle[i].value = store[f[i]]
  BY DEF Event
<1> HIDE DEF middle
<1>13. Mark("Init") \in KubeEvents /\ Mark("InitDone") \in KubeEvents
  BY DEF Mark, Event, KubeEvents, MarkOps
<1> DEFINE front == <<Mark("Init")>> \o middle
<1>14. /\ front \in Seq(KubeEvents) /\ Len(front) = n + 1
       /\ front[1] = Mark("Init")
       /\ \A i \in 2..(n + 1) : front[i] = middle[i - 1]
  <2>1. <<Mark("Init")>> \in Seq(KubeEvents) /\ Len(<<Mark("Init")>>) = 1
    BY <1>13
  <2> QED BY <1>4, <1>11, <2>1, ConcatProperties
<1>15. Relist = front \o <<Mark("InitDone")>>
  BY <1>8
<1> HIDE DEF front
<1>16. /\ Relist \in Seq(KubeEvents) /\ Len(Relist) = n + 2
       /\ Relist[n + 2] = Mark("InitDone")
       /\ \A i \in 1..(n + 1) : Relist[i] = front[i]
  <2>1. <<Mark("InitDone")>> \in Seq(KubeEvents) /\ Len(<<Mark("InitDone")>>) = 1
    BY <1>13
  <2> QED BY <1>4, <1>14, <1>15, <2>1, ConcatProperties
<1>17. Relist[1] = Mark("Init")
  BY <1>4, <1>14, <1>16
<1>18. \A i \in 2..(n + 1) : i - 1 \in 1..n /\ Relist[i] = middle[i - 1]
  BY <1>4, <1>14, <1>16
<1>19. \A i \in 2..(n + 1) : /\ Relist[i].op = "InitApply" /\ Relist[i].key \in Keys
                             /\ Relist[i].value = store[Relist[i].key]
  BY <1>1, <1>9, <1>12, <1>18
<1>20. ASSUME NEW k \in Keys, store[k] # None
       PROVE  \E i \in 2..(n + 1) : Relist[i].key = k
  <2>1. PICK i \in 1..n : f[i] = k
    BY <1>1, <1>7, <1>20 DEF Surjection
  <2>2. i + 1 \in 2..(n + 1) /\ (i + 1) - 1 = i
    BY <1>4
  <2>3. Relist[i + 1].key = k
    BY <1>12, <1>18, <2>1, <2>2
  <2> QED BY <2>2, <2>3
<1> QED BY <1>4, <1>16, <1>17, <1>19, <1>20

\* The watch lists anew, after an error or not.
LEMMA ListedAnew ==
  ASSUME store \in Entries, store' = store,
         queue' = Relist \/ queue' = <<Mark("Err")>> \o Relist
  PROVE  queue' \in Seq(KubeEvents) /\ ListFirst' /\ Complete'
<1>1. PICK n \in Nat :
           /\ Relist \in Seq(KubeEvents) /\ Len(Relist) = n + 2
           /\ Relist[1] = Mark("Init") /\ Relist[n + 2] = Mark("InitDone")
           /\ \A i \in 2..(n + 1) :
                /\ Relist[i].op = "InitApply" /\ Relist[i].key \in Keys
                /\ Relist[i].value = store[Relist[i].key]
           /\ \A k \in Keys : store[k] # None => \E i \in 2..(n + 1) : Relist[i].key = k
  BY RelistIs
<1>2. \A op : Mark(op).op = op /\ Mark(op).key = None
  BY DEF Mark, Event
<1>3. PICK d \in {0, 1} :
        /\ queue' \in Seq(KubeEvents) /\ Len(queue') = n + 2 + d
        /\ \A i \in 1..(n + 2 + d) :
             queue'[i] = IF i <= d THEN Mark("Err") ELSE Relist[i - d]
  <2>1. CASE queue' = Relist
    <3>1. Len(queue') = n + 2 + 0
      BY <1>1, <2>1
    <3>2. \A i \in 1..(n + 2 + 0) : ~(i <= 0) /\ i - 0 = i
      BY <1>1
    <3> QED BY <1>1, <2>1, <3>1, <3>2
  <2>2. CASE queue' = <<Mark("Err")>> \o Relist
    <3>1. /\ <<Mark("Err")>> \in Seq(KubeEvents) /\ Len(<<Mark("Err")>>) = 1
          /\ <<Mark("Err")>>[1] = Mark("Err")
      BY DEF Mark, Event, KubeEvents, MarkOps
    <3>2. /\ queue' \in Seq(KubeEvents) /\ Len(queue') = n + 2 + 1
          /\ \A i \in 1..(n + 2 + 1) :
               queue'[i] = IF i <= 1 THEN <<Mark("Err")>>[i] ELSE Relist[i - 1]
      BY <1>1, <2>2, <3>1, ConcatProperties
    <3>3. \A i \in 1..(n + 2 + 1) : i <= 1 => i = 1
      BY <1>1
    <3> QED BY <3>1, <3>2, <3>3
  <2> QED BY <2>1, <2>2
<1>4. /\ d + 1 \in 1..(n + 2 + d) /\ queue'[d + 1] = Mark("Init")
      /\ n + 2 + d \in 1..(n + 2 + d) /\ queue'[n + 2 + d] = Mark("InitDone")
  BY <1>1, <1>3
<1>5. ASSUME NEW i \in 1..(n + 2 + d)
      PROVE  \/ i <= d /\ queue'[i] = Mark("Err")
             \/ i = d + 1 /\ queue'[i] = Mark("Init")
             \/ i = n + 2 + d /\ queue'[i] = Mark("InitDone")
             \/ /\ i > d + 1 /\ i < n + 2 + d
                /\ queue'[i].op = "InitApply" /\ queue'[i].key \in Keys
                /\ queue'[i].value = store[queue'[i].key]
  <2>1. CASE i - d \in 2..(n + 1)
    <3>1. queue'[i] = Relist[i - d] /\ i > d + 1 /\ i < n + 2 + d
      BY <1>1, <1>3, <2>1
    <3> QED BY <1>1, <2>1, <3>1
  <2>2. CASE i - d \notin 2..(n + 1)
    <3>1. i <= d \/ i = d + 1 \/ i = n + 2 + d
      BY <1>1, <1>3, <2>2
    <3> QED BY <1>3, <1>4, <3>1
  <2> QED BY <2>1, <2>2
<1>6. ListFirst'
  <2> SUFFICES ASSUME NEW i \in 1..(n + 2 + d)
      PROVE  /\ queue'[i].op = "Init" =>
                  \A j \in 1..(n + 2 + d) : j < i => queue'[j].op = "Err"
             /\ queue'[i].op \in {"Init", "InitApply"} =>
                  \E j \in 1..(n + 2 + d) : j > i /\ queue'[j].op = "InitDone"
             /\ queue'[i].op = "InitDone" =>
                  \A j \in 1..(n + 2 + d) :
                    j < i => queue'[j].op \in {"Err", "Init", "InitApply"}
    BY <1>3 DEF ListFirst
  <2>1. queue'[i].op = "Init" => i = d + 1
    BY <1>2, <1>5
  <2>2. \A j \in 1..(n + 2 + d) : j < d + 1 => queue'[j].op = "Err"
    BY <1>2, <1>3
  <2>3. queue'[i].op \in {"Init", "InitApply"} => n + 2 + d > i
    BY <1>1, <1>2, <1>3, <1>5
  <2>4. \A j \in 1..(n + 2 + d) :
          j < n + 2 + d => queue'[j].op \in {"Err", "Init", "InitApply"}
    BY <1>2, <1>5
  <2>5. queue'[i].op = "InitDone" => i = n + 2 + d
    BY <1>2, <1>5
  <2> QED BY <1>2, <1>4, <2>1, <2>2, <2>3, <2>4, <2>5
<1>7. Complete'
  <2> SUFFICES ASSUME NEW k \in Keys
      PROVE  /\ (\A i \in 1..(n + 2 + d) : queue'[i].key # k) => Base'[k] = store[k]
             /\ \A i \in 1..(n + 2 + d) :
                  queue'[i].key = k => queue'[i].value = store[k]
    BY <1>3 DEF Complete
  <2>1. k # None
    BY WatchAssumption
  <2>2. Base' = Nothing
    BY <1>2, <1>3, <1>4 DEF Base, HasOp
  <2>3. ASSUME store[k] # None
        PROVE  \E i \in 1..(n + 2 + d) : queue'[i].key = k
    <3>1. PICK i \in 2..(n + 1) : Relist[i].key = k
      BY <1>1, <2>3
    <3>2. i + d \in 1..(n + 2 + d) /\ ~(i + d <= d) /\ (i + d) - d = i
      BY <1>1
    <3>3. queue'[i + d] = Relist[i]
      BY <1>3, <3>2
    <3> QED BY <3>1, <3>2, <3>3
  <2>4. ASSUME NEW i \in 1..(n + 2 + d), queue'[i].key = k
        PROVE  queue'[i].value = store[k]
    BY <1>2, <1>5, <2>1, <2>4
  <2> QED BY <2>2, <2>3, <2>4 DEF Nothing
<1> QED BY <1>3, <1>6, <1>7

LEMMA KubeWriteKeeps ==
  ASSUME KubeInv, Kube, NEW k \in Keys, NEW v \in Values \cup {None},
         NEW op \in {"Apply", "Delete"}, Write(k, v, op)
  PROVE  KubeInv'
<1> DEFINE e == Event(op, k, v)
           n == Len(queue)
<1>1. /\ store' = [store EXCEPT ![k] = v] /\ UNCHANGED <<kind, at, view, burst>>
      /\ queue' = IF Watching THEN Append(queue, e) ELSE queue
  BY DEF Write
<1>2. /\ store' \in Entries /\ view' \in Entries /\ burst' \in Entries
      /\ Watching' = Watching
      /\ \A h \in Keys : store'[h] = IF h = k THEN v ELSE store[h]
  BY <1>1 DEF KubeInv, Entries, Watching
<1>3. CASE ~Watching
  BY <1>2, <1>3 DEF KubeInv
<1>4. CASE Watching
  <2>1. queue \in Seq(KubeEvents) /\ n \in Nat /\ ListFirst /\ Complete
    BY <1>4, LenProperties DEF KubeInv
  <2>2. e \in KubeEvents /\ e.key = k /\ e.op = op /\ e.value = v
    BY DEF Event, KubeEvents, KeyOps
  <2> HIDE DEF e
  <2>3. /\ queue' \in Seq(KubeEvents) /\ Len(queue') = n + 1 /\ queue'[n + 1] = e
        /\ \A i \in 1..n : queue'[i] = queue[i]
    BY <1>1, <1>4, <2>1, <2>2, AppendProperties
  <2>4. ListFirst'
    <3> SUFFICES ASSUME NEW i \in 1..(n + 1)
        PROVE  /\ queue'[i].op = "Init" =>
                    \A j \in 1..(n + 1) : j < i => queue'[j].op = "Err"
               /\ queue'[i].op \in {"Init", "InitApply"} =>
                    \E j \in 1..(n + 1) : j > i /\ queue'[j].op = "InitDone"
               /\ queue'[i].op = "InitDone" =>
                    \A j \in 1..(n + 1) :
                      j < i => queue'[j].op \in {"Err", "Init", "InitApply"}
      BY <2>3 DEF ListFirst
    <3>1. CASE i = n + 1
      BY <2>2, <2>3, <3>1
    <3>2. CASE i # n + 1
      <4>1. i \in 1..n /\ queue'[i] = queue[i]
        BY <2>1, <2>3, <3>2
      <4>2. \A j \in 1..(n + 1) : j < i => j \in 1..n /\ queue'[j] = queue[j]
        BY <2>1, <2>3, <4>1
      <4>3. \A j \in 1..n : j \in 1..(n + 1) /\ queue'[j] = queue[j]
        BY <2>1, <2>3
      <4> QED BY <2>1, <4>1, <4>2, <4>3 DEF ListFirst
    <3> QED BY <3>1, <3>2
  <2>5. Base' = Base
    <3>1. \A mark \in {"Init", "InitDone"} :
            (\E i \in 1..(n + 1) : queue'[i].op = mark)
              <=> (\E i \in 1..n : queue[i].op = mark)
      <4> TAKE mark \in {"Init", "InitDone"}
      <4>1. ASSUME NEW i \in 1..(n + 1), queue'[i].op = mark
            PROVE  \E j \in 1..n : queue[j].op = mark
        <5>1. i # n + 1
          BY <2>2, <2>3, <4>1
        <5>2. i \in 1..n
          BY <2>1, <5>1
        <5> QED BY <2>3, <4>1, <5>2
      <4>2. \A i \in 1..n : i \in 1..(n + 1) /\ queue'[i] = queue[i]
        BY <2>1, <2>3
      <4> QED BY <4>1, <4>2
    <3> QED BY <1>1, <2>3, <3>1 DEF Base, HasOp
  <2>6. Complete'
    <3> SUFFICES ASSUME NEW h \in Keys
        PROVE  /\ (\A i \in 1..(n + 1) : queue'[i].key # h) => Base'[h] = store'[h]
               /\ \A i \in 1..(n + 1) :
                    queue'[i].key = h /\ (\A j \in 1..(n + 1) : j > i => queue'[j].key # h)
                      => queue'[i].value = store'[h]
      BY <2>3 DEF Complete
    <3>1. CASE h = k
      <4>1. n + 1 \in 1..(n + 1) /\ queue'[n + 1].key = h
        BY <2>1, <2>2, <2>3, <3>1
      <4>2. ASSUME NEW i \in 1..(n + 1), \A j \in 1..(n + 1) : j > i => queue'[j].key # h
            PROVE  i = n + 1
        BY <2>1, <4>1, <4>2
      <4>3. queue'[n + 1].value = store'[h]
        BY <1>2, <2>2, <2>3, <3>1
      <4> QED BY <4>1, <4>2, <4>3
    <3>2. CASE h # k
      <4>1. ASSUME \A i \in 1..(n + 1) : queue'[i].key # h
            PROVE  Base'[h] = store'[h]
        <5>1. \A i \in 1..n : queue[i].key # h
          BY <2>1, <2>3, <4>1
        <5> QED BY <1>2, <2>1, <2>5, <3>2, <5>1 DEF Complete
      <4>2. ASSUME NEW i \in 1..(n + 1), queue'[i].key = h,
                   \A j \in 1..(n + 1) : j > i => queue'[j].key # h
            PROVE  queue'[i].value = store'[h]
        <5>1. i # n + 1
          BY <2>2, <2>3, <3>2, <4>2
        <5>2. i \in 1..n /\ queue[i] = queue'[i]
          BY <2>1, <2>3, <5>1
        <5>3. \A j \in 1..n : j > i => queue[j].key # h
          BY <2>1, <2>3, <4>2
        <5> QED BY <1>2, <2>1, <3>2, <4>2, <5>2, <5>3 DEF Complete
      <4> QED BY <4>1, <4>2
    <3> QED BY <3>1, <3>2
  <2> QED BY <1>2, <2>3, <2>4, <2>6 DEF KubeInv
<1> QED BY <1>3, <1>4

LEMMA KubeDispatchKeeps ==
  ASSUME KubeInv, DispatchKubeEvent
  PROVE  KubeInv'
<1> DEFINE n == Len(queue)
<1>0. PICK e : e = Head(queue)
  OBVIOUS
<1>1. /\ Watching /\ Kube /\ queue # <<>> /\ queue' = Tail(queue)
      /\ burst' = OnInit(e)
      /\ view' = CASE e.op = "InitDone" -> burst
                   [] e.op \in {"Apply", "Delete"} -> [view EXCEPT ![e.key] = e.value]
                   [] OTHER -> view
      /\ UNCHANGED <<kind, store, at>>
  BY <1>0 DEF DispatchKubeEvent
<1>2. /\ queue \in Seq(KubeEvents) /\ n \in Nat /\ n >= 1 /\ 1 \in 1..n
      /\ queue' \in Seq(KubeEvents) /\ Len(queue') = n - 1 /\ e = queue[1]
      /\ \A i \in 1..(n - 1) : i + 1 \in 1..n /\ queue'[i] = queue[i + 1]
      /\ ListFirst /\ Complete
      /\ store \in Entries /\ view \in Entries /\ burst \in Entries
  BY <1>0, <1>1, HeadTailProperties, EmptySeq, LenProperties DEF KubeInv
<1>3. /\ e \in KubeEvents
      /\ \/ e.op \in KeyOps /\ e.key \in Keys /\ e.value \in Values \cup {None}
         \/ e.op \in MarkOps /\ e.key = None
  <2>1. e \in KubeEvents
    BY <1>2, ElementOfSeq
  <2> QED BY <2>1 DEF KubeEvents
<1>4. \A j \in 1..n : j # 1 => j - 1 \in 1..(n - 1) /\ queue'[j - 1] = queue[j]
  BY <1>2
<1>5. ListFirst'
  <2> SUFFICES ASSUME NEW i \in 1..(n - 1)
      PROVE  /\ queue'[i].op = "Init" =>
                  \A j \in 1..(n - 1) : j < i => queue'[j].op = "Err"
             /\ queue'[i].op \in {"Init", "InitApply"} =>
                  \E j \in 1..(n - 1) : j > i /\ queue'[j].op = "InitDone"
             /\ queue'[i].op = "InitDone" =>
                  \A j \in 1..(n - 1) :
                    j < i => queue'[j].op \in {"Err", "Init", "InitApply"}
    BY <1>2 DEF ListFirst
  <2>1. i + 1 \in 1..n /\ queue'[i] = queue[i + 1]
    BY <1>2
  <2>2. \A j \in 1..(n - 1) : j < i =>
          j + 1 \in 1..n /\ j + 1 < i + 1 /\ queue'[j] = queue[j + 1]
    BY <1>2
  <2>3. ASSUME NEW j \in 1..n, j > i + 1, queue[j].op = "InitDone"
        PROVE  \E h \in 1..(n - 1) : h > i /\ queue'[h].op = "InitDone"
    <3>1. j # 1 /\ j - 1 > i
      BY <1>2, <2>3
    <3> QED BY <1>4, <2>3, <3>1
  <2>4. queue[i + 1].op = "Init" =>
          \A j \in 1..n : j < i + 1 => queue[j].op = "Err"
    BY <1>2, <2>1 DEF ListFirst
  <2>5. queue[i + 1].op \in {"Init", "InitApply"} =>
          \E j \in 1..n : j > i + 1 /\ queue[j].op = "InitDone"
    BY <1>2, <2>1 DEF ListFirst
  <2>6. queue[i + 1].op = "InitDone" =>
          \A j \in 1..n : j < i + 1 => queue[j].op \in {"Err", "Init", "InitApply"}
    BY <1>2, <2>1 DEF ListFirst
  <2>7. queue'[i].op = "Init" =>
          \A j \in 1..(n - 1) : j < i => queue'[j].op = "Err"
    BY <2>1, <2>2, <2>4
  <2>8. queue'[i].op \in {"Init", "InitApply"} =>
          \E j \in 1..(n - 1) : j > i /\ queue'[j].op = "InitDone"
    BY <2>1, <2>3, <2>5
  <2>9. queue'[i].op = "InitDone" =>
          \A j \in 1..(n - 1) : j < i => queue'[j].op \in {"Err", "Init", "InitApply"}
    BY <2>1, <2>2, <2>6
  <2> QED BY <2>7, <2>8, <2>9
<1>6. \A op : HasOp(queue, op) <=> e.op = op \/ HasOp(queue', op)
  <2> TAKE op
  <2>1. HasOp(queue, op) => e.op = op \/ HasOp(queue', op)
    BY <1>2, <1>4 DEF HasOp
  <2>2. e.op = op \/ HasOp(queue', op) => HasOp(queue, op)
    BY <1>2 DEF HasOp
  <2> QED BY <2>1, <2>2
<1>7. e.op # "Err" => ~HasOp(queue', "Init")
  <2> SUFFICES ASSUME NEW i \in 1..(n - 1), queue'[i].op = "Init" PROVE e.op = "Err"
    BY <1>2 DEF HasOp
  <2>1. i + 1 \in 1..n /\ queue[i + 1].op = "Init" /\ 1 < i + 1
    BY <1>2
  <2> QED BY <1>2, <2>1 DEF ListFirst
<1>8. e.op \notin {"Err", "Init", "InitApply"} => ~HasOp(queue', "InitDone")
  <2> SUFFICES ASSUME NEW i \in 1..(n - 1), queue'[i].op = "InitDone"
               PROVE  e.op \in {"Err", "Init", "InitApply"}
    BY <1>2 DEF HasOp
  <2>1. i + 1 \in 1..n /\ queue[i + 1].op = "InitDone" /\ 1 < i + 1
    BY <1>2
  <2> QED BY <1>2, <2>1 DEF ListFirst
<1>9. e.op \in {"Init", "InitApply"} => HasOp(queue', "InitDone")
  <2> SUFFICES ASSUME e.op \in {"Init", "InitApply"} PROVE HasOp(queue', "InitDone")
    OBVIOUS
  <2>1. HasOp(queue, "InitDone")
    BY <1>2 DEF ListFirst, HasOp
  <2> QED BY <1>6, <2>1
<1>10. /\ view' \in Entries /\ burst' \in Entries
       /\ \A h \in Keys :
            /\ burst'[h] = IF e.op = "Init" THEN None
                           ELSE IF e.op = "InitApply" /\ h = e.key THEN e.value
                           ELSE burst[h]
            /\ view'[h] = IF e.op = "InitDone" THEN burst[h]
                          ELSE IF e.op \in {"Apply", "Delete"} /\ h = e.key THEN e.value
                          ELSE view[h]
  <2>1. CASE e.op = "Init"
    <3>1. burst' = Nothing /\ view' = view
      BY <1>1, <2>1 DEF OnInit
    <3> QED BY <1>2, <2>1, <3>1 DEF Nothing, Entries
  <2>2. CASE e.op = "InitApply"
    <3>1. burst' = [burst EXCEPT ![e.key] = e.value] /\ view' = view
      BY <1>1, <2>2 DEF OnInit
    <3> QED BY <1>2, <1>3, <2>2, <3>1 DEF Entries, MarkOps
  <2>3. CASE e.op = "InitDone"
    <3>1. burst' = burst /\ view' = burst
      BY <1>1, <2>3 DEF OnInit
    <3> QED BY <1>2, <2>3, <3>1
  <2>4. CASE e.op = "Err"
    <3>1. burst' = burst /\ view' = view
      BY <1>1, <2>4 DEF OnInit
    <3> QED BY <1>2, <2>4, <3>1
  <2>5. CASE e.op \in {"Apply", "Delete"}
    <3>1. burst' = burst /\ view' = [view EXCEPT ![e.key] = e.value]
      BY <1>1, <2>5 DEF OnInit
    <3> QED BY <1>2, <1>3, <2>5, <3>1 DEF Entries, MarkOps
  <2> QED BY <1>3, <2>1, <2>2, <2>3, <2>4, <2>5 DEF KeyOps, MarkOps
<1>11. ASSUME NEW h \in Keys, \A i \in 1..(n - 1) : queue'[i].key # h
       PROVE  Base'[h] = store[h]
  <2>1. \A j \in 1..n : j # 1 => queue[j].key # h
    BY <1>4, <1>11
  <2>2. e.key = h => e.value = store[h]
    <3>1. \A j \in 1..n : j > 1 => queue[j].key # h
      BY <2>1
    <3> QED BY <1>2, <3>1 DEF Complete
  <2>3. e.key # h => Base[h] = store[h]
    <3> SUFFICES ASSUME e.key # h PROVE Base[h] = store[h]
      OBVIOUS
    <3>1. \A j \in 1..n : queue[j].key # h
      BY <1>2, <2>1
    <3> QED BY <1>2, <3>1 DEF Complete
  <2>4. h # None
    BY WatchAssumption
  <2>5. CASE e.op = "Err"
    <3>1. e.key # h
      BY <1>3, <2>4, <2>5 DEF KeyOps
    <3>2. Base'[h] = Base[h]
      BY <1>6, <1>10, <2>5 DEF Base
    <3> QED BY <2>3, <3>1, <3>2
  <2>6. CASE e.op = "Init"
    <3>1. e.key # h
      BY <1>3, <2>4, <2>6 DEF KeyOps
    <3>2. Base = Nothing /\ Base' = burst'
      BY <1>6, <1>7, <1>9, <2>6 DEF Base
    <3> QED BY <1>10, <2>3, <2>6, <3>1, <3>2 DEF Nothing
  <2>7. CASE e.op = "InitApply"
    <3>1. Base = burst /\ Base' = burst'
      BY <1>6, <1>7, <1>9, <2>7 DEF Base
    <3> QED BY <1>10, <2>2, <2>3, <2>7, <3>1
  <2>8. CASE e.op = "InitDone"
    <3>1. e.key # h
      BY <1>3, <2>4, <2>8 DEF KeyOps
    <3>2. Base = burst /\ Base' = view'
      BY <1>6, <1>7, <1>8, <2>8 DEF Base
    <3> QED BY <1>10, <2>3, <2>8, <3>1, <3>2
  <2>9. CASE e.op \in {"Apply", "Delete"}
    <3>1. Base = view /\ Base' = view'
      BY <1>6, <1>7, <1>8, <2>9 DEF Base
    <3> QED BY <1>10, <2>2, <2>3, <2>9, <3>1
  <2> QED BY <1>3, <2>5, <2>6, <2>7, <2>8, <2>9 DEF KeyOps, MarkOps
<1>12. ASSUME NEW h \in Keys, NEW i \in 1..(n - 1), queue'[i].key = h,
              \A j \in 1..(n - 1) : j > i => queue'[j].key # h
       PROVE  queue'[i].value = store[h]
  <2>1. i + 1 \in 1..n /\ queue'[i] = queue[i + 1]
    BY <1>2
  <2>2. ASSUME NEW j \in 1..n, j > i + 1 PROVE queue[j].key # h
    <3>1. j # 1 /\ j - 1 > i
      BY <1>2, <2>2
    <3> QED BY <1>4, <1>12, <3>1
  <2> QED BY <1>2, <1>12, <2>1, <2>2 DEF Complete
<1>13. Complete'
  BY <1>1, <1>2, <1>11, <1>12 DEF Complete
<1> QED BY <1>1, <1>2, <1>5, <1>10, <1>13 DEF KubeInv

LEMMA KubeInvStep == KubeInv /\ [Next]_vars => KubeInv'
<1> SUFFICES ASSUME KubeInv, [Next]_vars PROVE KubeInv'
  OBVIOUS
<1>1. kind' = kind
  BY DEF Next, Writes, Write, ElectionChanges, KvWorker, LookupBucket, OpenWatch,
         WatchEnds, DispatchEntry, KubeWatcher, WaitForLeadership, OpenList,
         WatchErrs, DispatchKubeEvent, StreamReturns, LossNoticed, Goes, vars
<1>2. CASE ~Kube
  BY <1>1, <1>2 DEF KubeInv, Kube
<1>3. CASE Kube
  <2>1. CASE Writes
    <3>1. PICK k \in Keys, v \in Values \cup {None}, op \in {"Apply", "Delete"} :
            Write(k, v, op)
      BY <1>3, <2>1 DEF Writes
    <3> QED BY <1>3, <3>1, KubeWriteKeeps
  <2>2. CASE ElectionChanges \/ UNCHANGED vars
    <3>1. UNCHANGED <<kind, store, at, queue, view, burst>>
      BY <2>2 DEF ElectionChanges, vars
    <3>2. \A op : HasOp(queue, op)' <=> HasOp(queue, op)
      BY <3>1 DEF HasOp
    <3>3. Base' = Base
      BY <3>1, <3>2 DEF Base
    <3>4. ListFirst' <=> ListFirst
      BY <3>1 DEF ListFirst
    <3>5. Complete' <=> Complete
      BY <3>1, <3>3 DEF Complete
    <3> QED BY <3>1, <3>4, <3>5 DEF KubeInv, Kube, Watching
  <2>3. CASE LookupBucket \/ OpenWatch \/ WatchEnds \/ DispatchEntry
    BY <1>3, <2>3 DEF LookupBucket, OpenWatch, WatchEnds, DispatchEntry
  <2>4. CASE WaitForLeadership \/ StreamReturns \/ LossNoticed
    <3>1. UNCHANGED <<store, view, burst>> /\ ~Watching'
      BY <2>4 DEF WaitForLeadership, StreamReturns, LossNoticed, Goes, Watching
    <3> QED BY <1>1, <1>3, <3>1 DEF KubeInv, Kube
  <2>5. CASE OpenList \/ WatchErrs
    <3>1. /\ UNCHANGED <<store, view, burst>>
          /\ queue' = Relist \/ queue' = <<Mark("Err")>> \o Relist
      BY <2>5 DEF OpenList, WatchErrs, Goes
    <3>2. store \in Entries /\ view \in Entries /\ burst \in Entries
      BY <1>3 DEF KubeInv
    <3>3. queue' \in Seq(KubeEvents) /\ ListFirst' /\ Complete'
      BY <3>1, <3>2, ListedAnew
    <3> QED BY <3>1, <3>2, <3>3 DEF KubeInv
  <2>6. CASE DispatchKubeEvent
    BY <2>6, KubeDispatchKeeps
  <2> QED BY <2>1, <2>2, <2>3, <2>4, <2>5, <2>6 DEF Next, KvWorker, KubeWatcher
<1> QED BY <1>2, <1>3

LEMMA KubeInvInit == Init => KubeInv
<1> SUFFICES ASSUME Init, Kube PROVE KubeInv
  BY DEF KubeInv
<1>1. /\ store \in Entries /\ view = Nothing /\ burst = Nothing
      /\ ~Watching
  BY DEF Init, Entries, Nothing, Watching, Kube, Gated
<1> QED BY <1>1 DEF KubeInv, Entries, Nothing

\* A watcher that has taken what its watch delivered has the API server's objects,
\* whatever lists were cut short, deletes missed or terms of leadership ended.
THEOREM KubeViewFollows == Spec => []KubeViewIsStore
<1>1. KubeInv => KubeViewIsStore
  <2> SUFFICES ASSUME KubeInv, Kube, Watching, queue = <<>> PROVE view = store
    BY DEF KubeViewIsStore
  <2>1. Len(queue) = 0 /\ Base = view
    BY EmptySeq DEF Base, HasOp
  <2>2. \A k \in Keys : view[k] = store[k]
    BY <2>1 DEF KubeInv, Complete
  <2> QED BY <2>2 DEF KubeInv, Entries
<1> QED BY <1>1, KubeInvInit, KubeInvStep, PTL DEF Spec

-----------------------------------------------------------------------------
(* What the callbacks are given. *)

\* What the API server holds is of a kind that parses; what is under way to a watcher
\* as well, and only an open watch has anything under way.
ReadableInv ==
  /\ TypeOK
  /\ ~Watching => queue = <<>>
  /\ kind # "kv" => \A k \in Keys : store[k] \notin Garbled
  /\ kind # "kv" => \A i \in 1..Len(queue) : queue[i].value \notin Garbled
  /\ kind = "kv" => burst = Nothing

WorkInv == KvInv /\ KubeInv

LEMMA QueueIs ==
  ASSUME WorkInv, ReadableInv
  PROVE  \/ queue \in Seq(KvEvents) /\ kind = "kv"
         \/ queue \in Seq(KubeEvents) /\ kind # "kv"
<1>1. CASE kind = "kv"
  BY <1>1 DEF WorkInv, KvInv, Kube
<1>2. CASE kind # "kv" /\ Watching
  BY <1>2 DEF WorkInv, KubeInv, Kube
<1>3. CASE kind # "kv" /\ ~Watching
  BY <1>3 DEF ReadableInv
<1> QED BY <1>1, <1>2, <1>3

\* Steps that change neither what is written nor what was built.
LEMMA WorkerKeepsReadable ==
  ASSUME ReadableInv, UNCHANGED <<kind, store, writes, view, burst>>,
         leader' \in BOOLEAN, closed' \in BOOLEAN,
         at' \in {"lookup", "waiting", "open", "watching", "ended"},
         stale' \subseteq Keys,
         queue' = <<>> \/ (UNCHANGED queue /\ (Watching => Watching'))
  PROVE  ReadableInv'
<1>1. CASE queue' = <<>>
  <2>1. DOMAIN queue' = {} /\ Len(queue') = 0
    BY <1>1
  <2>2. /\ \A i \in DOMAIN queue' : queue'[i].key \in Keys \cup {None}
        /\ \A i \in 1..Len(queue') : queue'[i].value \notin Garbled
    BY <2>1
  <2> QED BY <1>1, <2>2 DEF ReadableInv, TypeOK, Watching
<1>2. CASE queue' # <<>>
  BY <1>2 DEF ReadableInv, TypeOK, Watching
<1> QED BY <1>1, <1>2

\* What a list brings: the objects of the API server, between marks.
LEMMA ListIsReadable ==
  ASSUME WorkInv, ReadableInv, kind # "kv",
         UNCHANGED <<kind, store, writes, leader, closed, view, burst, stale>>, at' = "watching",
         queue' = Relist \/ queue' = <<Mark("Err")>> \o Relist
  PROVE  ReadableInv'
<1>1. None \notin Garbled
  BY WatchAssumption
<1>2. \A k \in Keys : store[k] \notin Garbled
  BY DEF ReadableInv
<1>3. store \in Entries
  BY DEF ReadableInv, TypeOK
<1>4. PICK n \in Nat :
        /\ Relist \in Seq(KubeEvents) /\ Len(Relist) = n + 2
        /\ Relist[1] = Mark("Init") /\ Relist[n + 2] = Mark("InitDone")
        /\ \A i \in 2..(n + 1) :
             /\ Relist[i].op = "InitApply" /\ Relist[i].key \in Keys
             /\ Relist[i].value = store[Relist[i].key]
  BY <1>3, RelistIs
<1>5. \A i \in 1..Len(Relist) : Relist[i].value \notin Garbled /\ Relist[i].key \in Keys \cup {None}
  <2> TAKE i \in 1..Len(Relist)
  <2>1. CASE i \in 2..(n + 1)
    BY <1>2, <1>4, <2>1
  <2>2. CASE i = 1 \/ i = n + 2
    BY <1>1, <1>4, <2>2 DEF Mark, Event
  <2> QED BY <1>4, <2>1, <2>2
<1>6. /\ \A i \in 1..Len(queue') : queue'[i].value \notin Garbled
      /\ \A i \in DOMAIN queue' : queue'[i].key \in Keys \cup {None}
  <2>1. CASE queue' = Relist
    BY <1>4, <1>5, <2>1, LenProperties
  <2>2. CASE queue' = <<Mark("Err")>> \o Relist
    <3> DEFINE e == Mark("Err")
    <3>1. e \in KubeEvents
      BY DEF KubeEvents, MarkOps, Mark, Event
    <3>2. e.value \notin Garbled /\ e.key \in Keys \cup {None}
      BY <1>1 DEF Mark, Event
    <3> HIDE DEF e
    <3>3. /\ queue' \in Seq(KubeEvents) /\ Len(queue') = Len(Relist) + 1 /\ queue'[1] = e
          /\ \A i \in 2..Len(queue') : queue'[i] = Relist[i - 1]
      <4>1. <<e>> \in Seq(KubeEvents) /\ Len(<<e>>) = 1 /\ <<e>>[1] = e
        BY <3>1
      <4> QED BY <1>4, <2>2, <4>1, ConcatProperties DEF e
    <3>4. DOMAIN queue' = 1..Len(queue')
      BY <3>3, LenProperties
    <3>5. \A i \in 1..Len(queue') :
            queue'[i].value \notin Garbled /\ queue'[i].key \in Keys \cup {None}
      <4> TAKE i \in 1..Len(queue')
      <4>1. CASE i = 1
        BY <3>2, <3>3, <4>1
      <4>2. CASE i # 1
        <5>1. i \in 2..Len(queue') /\ i - 1 \in 1..Len(Relist)
          BY <1>4, <3>3, <4>2
        <5> QED BY <1>5, <3>3, <5>1
      <4> QED BY <4>1, <4>2
    <3> QED BY <3>4, <3>5
  <2> QED BY <2>1, <2>2
<1> QED BY <1>6 DEF ReadableInv, TypeOK, Watching

\* The first event is taken, and what comes of it is readable.
LEMMA TakenIsReadable ==
  ASSUME WorkInv, ReadableInv, queue # <<>>, queue' = Tail(queue),
         UNCHANGED <<kind, store, writes, leader, closed, at, stale>>,
         view' \in Entries, burst' \in Entries,
         \A k \in Keys : view'[k] \notin Garbled /\ burst'[k] \notin Garbled,
         kind = "kv" => UNCHANGED burst
  PROVE  ReadableInv'
<1>1. PICK S : queue \in Seq(S)
  BY QueueIs
<1>2. /\ Len(queue) \in Nat /\ queue' \in Seq(S) /\ Len(queue') = Len(queue) - 1
      /\ \A i \in 1..Len(queue') : queue'[i] = queue[i + 1]
  BY <1>1, HeadTailProperties, LenProperties, EmptySeq
<1>3. DOMAIN queue = 1..Len(queue) /\ DOMAIN queue' = 1..Len(queue')
  BY <1>1, <1>2, LenProperties
<1>4. \A i \in 1..Len(queue') : i + 1 \in 1..Len(queue)
  BY <1>2
<1>5. Watching
  BY DEF ReadableInv
<1> QED BY <1>2, <1>3, <1>4, <1>5 DEF ReadableInv, TypeOK, Watching

LEMMA WriteKeepsReadable ==
  ASSUME WorkInv, ReadableInv, Writes
  PROVE  ReadableInv'
<1>1. PICK k \in Keys, v \in Values \cup {None}, op \in {"Put", "Delete", "Purge", "Apply"} :
        /\ Write(k, v, op) /\ (kind # "kv" => v \notin Garbled)
  BY WatchAssumption DEF Writes, Kube
<1> DEFINE e == Event(op, k, v)
<1>2. e.key = k /\ e.value = v
  BY DEF Event
<1>3. /\ store' = [store EXCEPT ![k] = v] /\ writes' = writes + 1 /\ writes < MaxWrites
      /\ queue' = IF Watching THEN Append(queue, e) ELSE queue
      /\ stale' \subseteq stale \cup {k}
      /\ UNCHANGED <<kind, leader, closed, at, view, burst>>
  BY <1>1 DEF Write
<1>4. PICK S : queue \in Seq(S)
  BY QueueIs
<1> HIDE DEF e
<1>5. Watching =>
        /\ queue' \in Seq(S \cup {e}) /\ Len(queue') = Len(queue) + 1
        /\ queue'[Len(queue) + 1] = e /\ \A i \in 1..Len(queue) : queue'[i] = queue[i]
  <2>1. queue \in Seq(S \cup {e}) /\ e \in S \cup {e}
    BY <1>4, SeqMonotonic
  <2> QED BY <1>3, <2>1, AppendProperties
<1>6. Len(queue) \in Nat /\ DOMAIN queue = 1..Len(queue)
  BY <1>4, LenProperties
<1>7. Watching => DOMAIN queue' = 1..Len(queue')
  BY <1>5, LenProperties
<1>8. /\ \A i \in DOMAIN queue' : queue'[i].key \in Keys \cup {None}
      /\ kind # "kv" => \A i \in 1..Len(queue') : queue'[i].value \notin Garbled
  <2>1. CASE Watching
    <3>1. \A i \in 1..Len(queue') : i = Len(queue) + 1 \/ i \in 1..Len(queue)
      BY <1>5, <1>6, <2>1
    <3> QED BY <1>1, <1>2, <1>5, <1>6, <1>7, <2>1, <3>1 DEF ReadableInv, TypeOK
  <2>2. CASE ~Watching
    BY <1>3, <2>2 DEF ReadableInv, TypeOK
  <2> QED BY <2>1, <2>2
<1>9. store' \in Entries /\ writes' \in 0..MaxWrites /\ stale' \subseteq Keys
  <2>1. store \in Entries /\ writes \in 0..MaxWrites /\ stale \subseteq Keys /\ MaxWrites \in Nat
    BY WatchAssumption DEF ReadableInv, TypeOK
  <2>2. store' \in Entries
    BY <1>3, <2>1 DEF Entries
  <2>3. writes' \in 0..MaxWrites
    BY <1>3, <2>1
  <2> QED BY <1>3, <2>1, <2>2, <2>3
<1>10. kind # "kv" => \A q \in Keys : store'[q] \notin Garbled
  BY <1>1, <1>3 DEF ReadableInv, TypeOK, Entries
<1>11. ~Watching => queue' = <<>>
  BY <1>3 DEF ReadableInv
<1> QED BY <1>3, <1>8, <1>9, <1>10, <1>11 DEF ReadableInv, TypeOK, Watching

LEMMA ReadableStep == WorkInv /\ ReadableInv /\ [Next]_vars => ReadableInv'
<1> SUFFICES ASSUME WorkInv, ReadableInv, [Next]_vars PROVE ReadableInv'
  OBVIOUS
<1>1. None \notin Garbled /\ Garbled \subseteq Values
  BY WatchAssumption
<1>2. /\ leader \in BOOLEAN /\ closed \in BOOLEAN
      /\ at \in {"lookup", "waiting", "open", "watching", "ended"}
      /\ stale \subseteq Keys /\ view \in Entries /\ burst \in Entries
      /\ \A k \in Keys : view[k] \notin Garbled /\ burst[k] \notin Garbled
  BY DEF ReadableInv, TypeOK
<1>3. CASE Writes
  BY <1>3, WriteKeepsReadable
<1>4. CASE ElectionChanges \/ UNCHANGED vars
  BY <1>2, <1>4, WorkerKeepsReadable DEF ElectionChanges, vars, Watching
<1>5. CASE LookupBucket \/ OpenWatch \/ WaitForLeadership
  BY <1>2, <1>5, WorkerKeepsReadable DEF LookupBucket, OpenWatch, WaitForLeadership, Goes, Watching
<1>6. CASE StreamReturns \/ LossNoticed
  BY <1>2, <1>6, WorkerKeepsReadable DEF StreamReturns, LossNoticed, Goes
<1>7. CASE WatchEnds
  <2>1. \A i \in DOMAIN queue : queue[i].key \in Keys
    <3>1. queue \in Seq(KvEvents)
      BY <1>7 DEF WatchEnds, WorkInv, KvInv
    <3>2. \A i \in DOMAIN queue : queue[i] \in KvEvents
      BY <3>1, LenProperties, ElementOfSeq
    <3> QED BY <3>2 DEF KvEvents
  <2> QED BY <1>2, <1>7, <2>1, WorkerKeepsReadable DEF WatchEnds, Goes
<1>8. CASE DispatchEntry
  <2>1. Head(queue) \in KvEvents
    BY <1>8, HeadTailProperties DEF DispatchEntry, WorkInv, KvInv
  <2>2. Entry(Head(queue)) \in Entries /\ \A k \in Keys : Entry(Head(queue))[k] \notin Garbled
    BY <1>1, <1>2, <2>1 DEF Entry, MapOperation, Entries, KvEvents
  <2> QED BY <1>2, <1>8, <2>2, TakenIsReadable DEF DispatchEntry
<1>9. CASE OpenList \/ WatchErrs
  BY <1>9, ListIsReadable DEF OpenList, WatchErrs, Goes, Kube, Watching
<1>10. CASE DispatchKubeEvent
  <2>1. queue \in Seq(KubeEvents) /\ queue # <<>> /\ kind # "kv"
    BY <1>10 DEF DispatchKubeEvent, WorkInv, KubeInv, Kube
  <2>2. PICK e : e = Head(queue)
    OBVIOUS
  <2>3. e \in KubeEvents /\ e = queue[1] /\ 1 \in 1..Len(queue)
    BY <2>1, <2>2, HeadTailProperties, EmptySeq, LenProperties
  <2>4. e.value \notin Garbled
    BY <2>1, <2>3 DEF ReadableInv
  <2>5. e.op \in KeyOps => e.key \in Keys /\ e.value \in Values \cup {None}
    BY <2>3 DEF KubeEvents, KeyOps, MarkOps
  <2>6. /\ burst' = OnInit(e)
        /\ view' = CASE e.op = "InitDone" -> burst
                     [] e.op \in {"Apply", "Delete"} -> [view EXCEPT ![e.key] = e.value]
                     [] OTHER -> view
    BY <1>10, <2>2 DEF DispatchKubeEvent
  <2>7. burst' \in Entries /\ \A k \in Keys : burst'[k] \notin Garbled
    BY <1>1, <1>2, <2>4, <2>5, <2>6 DEF OnInit, Entries, Nothing, KeyOps
  <2>8. view' \in Entries /\ \A k \in Keys : view'[k] \notin Garbled
    BY <1>2, <2>4, <2>5, <2>6 DEF Entries, KeyOps
  <2> QED BY <1>10, <2>1, <2>7, <2>8, TakenIsReadable DEF DispatchKubeEvent
<1> QED BY <1>3, <1>4, <1>5, <1>6, <1>7, <1>8, <1>9, <1>10 DEF Next, KvWorker, KubeWatcher

\* What the callbacks build never holds a value that does not parse: the KV worker
\* skips it, and what the API server holds has none.
THEOREM ViewsAreReadable == Spec => []TypeOK
<1>1. Init => ReadableInv
  <2> SUFFICES ASSUME Init PROVE ReadableInv
    OBVIOUS
  <2>1. /\ queue = <<>> /\ Len(queue) = 0 /\ DOMAIN queue = {}
        /\ view = Nothing /\ burst = Nothing /\ at \in {"lookup", "waiting", "open"}
    <3>1. queue = <<>> /\ view = Nothing /\ burst = Nothing
      BY DEF Init
    <3>2. at \in {"lookup", "waiting", "open"}
      BY DEF Init
    <3>3. Len(<<>>) = 0 /\ DOMAIN <<>> = {}
      OBVIOUS
    <3> QED BY <3>1, <3>2, <3>3
  <2>2. None \notin Garbled /\ store \in Entries /\ \A k \in Keys : store[k] \notin Garbled
    BY WatchAssumption DEF Init, Entries, Nothing
  <2>3. Nothing \in Entries /\ \A k \in Keys : Nothing[k] = None
    BY DEF Entries, Nothing
  <2>4. /\ kind \in {"kv", "kube", "kube gated"} /\ writes \in 0..MaxWrites
        /\ leader \in BOOLEAN /\ closed \in BOOLEAN /\ stale \subseteq Keys
    <3>1. /\ kind \in {"kv", "kube", "kube gated"} /\ writes = 0
          /\ leader = FALSE /\ closed = FALSE
          /\ stale = {k \in Keys : store[k] # None}
      BY DEF Init
    <3>2. MaxWrites \in Nat
      BY WatchAssumption
    <3>3. 0 \in 0..MaxWrites
      BY <3>2
    <3> QED BY <3>1, <3>3
  <2>5. /\ \A i \in DOMAIN queue : queue[i].key \in Keys \cup {None}
        /\ \A i \in 1..Len(queue) : queue[i].value \notin Garbled
    BY <2>1
  <2>6. /\ view \in Entries /\ burst \in Entries
        /\ \A k \in Keys : view[k] \notin Garbled /\ burst[k] \notin Garbled
    BY <2>1, <2>2, <2>3
  <2> QED BY <2>1, <2>2, <2>4, <2>5, <2>6 DEF ReadableInv, TypeOK, Watching
<1>2. Init => WorkInv
  BY KvInvInit, KubeInvInit DEF WorkInv
<1>3. ReadableInv => TypeOK
  BY DEF ReadableInv
<1>4. WorkInv /\ [Next]_vars => WorkInv'
  BY KvInvStep, KubeInvStep DEF WorkInv
<1> QED BY <1>1, <1>2, <1>3, <1>4, ReadableStep, PTL DEF Spec

=============================================================================
