------------------------------ MODULE PodsProof ------------------------------
(***************************************************************************)
(* Proofs about the loops a pod runs while it leads or follows, for every  *)
(* set of pods, however their elections overlap: the reconciler and its    *)
(* finalizer (Finalizers), for every set of other finalizers, and the      *)
(* stream workers (StreamWorkers), for every set of messages, with any     *)
(* losses of acknowledgements and redeliveries.                            *)
(***************************************************************************)
EXTENDS Finalizers, StreamWorkers, TLAPS

Held == object # Gone /\ Own \in object.finalizers

\* Old copies: whoever saw the finalizer in place saw what holds until cleanup has
\* succeeded; and only who has cleaned up takes it away.
HeldInv ==
  /\ object \in Objects \cup {Gone}
  /\ cache \in [Reconcilers -> Objects \cup {Gone}]
  /\ step \in [Reconcilers -> Steps]
  /\ seen \in [Reconcilers -> Objects \cup {Gone}]
  /\ \A p \in Reconcilers : step[p] # "idle" => seen[p] # Gone
  /\ \A p \in Reconcilers : cache[p] # Gone /\ Own \in cache[p].finalizers => cleaned \/ Held
  /\ \A p \in Reconcilers : step[p] \in {"cleanup", "reconciling"} => cleaned \/ Held
  /\ \A p \in Reconcilers : step[p] = "removing" => cleaned

-----------------------------------------------------------------------------

LEMMA GoneIsNoObject == Gone \notin Objects
BY GoneAssumption

\* A change of the object that leaves the finalizer where it is.
LEMMA KeptHeldKeepsInv ==
  ASSUME HeldInv, object' \in Objects \cup {Gone}, Held => Held',
         UNCHANGED <<cache, step, seen, cleaned>>
  PROVE  HeldInv'
BY DEF HeldInv, Held

LEMMA WithIsObject ==
  ASSUME NEW finalizers \in SUBSET (Others \cup {Own}), object \in Objects
  PROVE  /\ With(finalizers) \in Objects \cup {Gone}
         /\ Own \in finalizers => With(finalizers) # Gone
         /\ With(finalizers) # Gone => With(finalizers).finalizers = finalizers
<1>1. [object EXCEPT !.finalizers = finalizers] \in Objects
  BY DEF Objects
<1>2. [object EXCEPT !.finalizers = finalizers].finalizers = finalizers
  BY DEF Objects
<1> QED BY <1>1, <1>2, GoneIsNoObject DEF With

LEMMA OthersKeepInv ==
  ASSUME HeldInv, NEW f \in Others, OtherAdds(f) \/ OtherRemoves(f)
  PROVE  HeldInv' /\ (Held => Held')
<1>1. object \in Objects /\ UNCHANGED <<cache, step, seen, cleaned>>
  BY DEF OtherAdds, OtherRemoves, HeldInv
<1>2. PICK finalizers \in SUBSET (Others \cup {Own}) :
        /\ object' = With(finalizers)
        /\ Own \in object.finalizers => Own \in finalizers
  <2>1. object.finalizers \in SUBSET (Others \cup {Own})
    BY <1>1 DEF Objects
  <2> QED BY <2>1, FinalizerAssumption DEF OtherAdds, OtherRemoves
<1>3. object' \in Objects \cup {Gone} /\ (Held => Held')
  BY <1>1, <1>2, WithIsObject DEF Held
<1> QED BY <1>1, <1>3, KeptHeldKeepsInv

LEMMA DeleteKeepsInv ==
  ASSUME HeldInv, Delete
  PROVE  HeldInv' /\ (Held => Held')
<1>1. /\ object \in Objects /\ UNCHANGED <<cache, step, seen, cleaned>>
      /\ object' = IF object.finalizers = {} THEN Gone
                   ELSE [object EXCEPT !.deleting = TRUE]
  BY DEF Delete, HeldInv
<1>2. [object EXCEPT !.deleting = TRUE] \in Objects
  BY <1>1 DEF Objects
<1>3. [object EXCEPT !.deleting = TRUE].finalizers = object.finalizers
  BY <1>1 DEF Objects
<1>4. object' \in Objects \cup {Gone} /\ (Held => Held')
  BY <1>1, <1>2, <1>3, GoneIsNoObject DEF Held
<1> QED BY <1>1, <1>4, KeptHeldKeepsInv

-----------------------------------------------------------------------------
(* A patch: made from an old copy, with the finalizer or after cleanup. *)

LEMMA AddKeepsInv ==
  ASSUME HeldInv, NEW p \in Reconcilers, NEW answered \in BOOLEAN, AddFinalizer(p, answered)
  PROVE  HeldInv' /\ Held'
<1> DEFINE finalizers == seen[p].finalizers \cup {Own}
           next == IF answered THEN "reconciling" ELSE "idle"
<1>1. /\ step[p] = "adding" /\ object # Gone /\ object' = With(finalizers)
      /\ step' = [step EXCEPT ![p] = next]
      /\ seen' = IF next = "idle" THEN [seen EXCEPT ![p] = Gone] ELSE seen
      /\ UNCHANGED <<cache, cleaned>>
  BY DEF AddFinalizer, Patch, Accepts, StepTo
<1>2. object \in Objects /\ seen[p] \in Objects
  BY <1>1 DEF HeldInv
<1>3. finalizers \in SUBSET (Others \cup {Own}) /\ Own \in finalizers
  BY <1>2 DEF Objects
<1>4. object' \in Objects \cup {Gone} /\ Held'
  BY <1>1, <1>2, <1>3, WithIsObject DEF Held
<1> HIDE DEF finalizers
<1> QED BY <1>1, <1>4 DEF HeldInv, Steps

LEMMA RemoveKeepsInv ==
  ASSUME HeldInv, NEW p \in Reconcilers, RemoveFinalizer(p)
  PROVE  HeldInv' /\ cleaned
<1> DEFINE finalizers == seen[p].finalizers \ {Own}
<1>1. /\ step[p] = "removing" /\ object # Gone /\ object' = With(finalizers)
      /\ step' = [step EXCEPT ![p] = "idle"]
      /\ seen' = [seen EXCEPT ![p] = Gone]
      /\ UNCHANGED <<cache, cleaned>>
  BY DEF RemoveFinalizer, Patch, Accepts, StepTo
<1>2. object \in Objects /\ seen[p] \in Objects /\ cleaned
  BY <1>1 DEF HeldInv
<1>3. finalizers \in SUBSET (Others \cup {Own})
  BY <1>2 DEF Objects
<1>4. object' \in Objects \cup {Gone}
  BY <1>1, <1>2, <1>3, WithIsObject
<1> HIDE DEF finalizers
<1> QED BY <1>1, <1>2, <1>4 DEF HeldInv, Steps

\* The rest of a controller leaves the object alone.
LEMMA ControllerKeepsInv ==
  ASSUME HeldInv, NEW p \in Reconcilers,
         \/ Lead(p) \/ Lose(p) \/ Observe(p) \/ Begin(p) \/ CleanupSucceeds(p)
         \/ CleanupFails(p) \/ PatchFails(p) \/ Creates(p) \/ ReconcileEnds(p)
  PROVE  HeldInv' /\ (Held => Held')
<1>1. object' = object
  BY DEF Lead, Lose, Observe, Begin, CleanupSucceeds, CleanupFails, PatchFails,
         Creates, ReconcileEnds
<1>2. CASE Lead(p) \/ Observe(p)
  BY <1>1, <1>2 DEF Lead, Observe, HeldInv, Held
<1>3. CASE Lose(p)
  BY <1>1, <1>3 DEF Lose, HeldInv, Held, Steps
<1>4. CASE Begin(p)
  <2>1. /\ cache[p] # Gone
        /\ step' = [step EXCEPT ![p] = FirstStep(cache[p])]
        /\ seen' = [seen EXCEPT ![p] = cache[p]]
        /\ UNCHANGED <<cache, cleaned>>
    BY <1>4 DEF Begin
  <2>2. cache[p] \in Objects
    BY <2>1 DEF HeldInv
  <2>3. /\ FirstStep(cache[p]) \in Steps /\ FirstStep(cache[p]) # "removing"
        /\ FirstStep(cache[p]) \in {"cleanup", "reconciling"} =>
             Own \in cache[p].finalizers
    BY <2>2 DEF FirstStep, Steps, Objects
  <2> QED BY <1>1, <2>1, <2>2, <2>3 DEF HeldInv, Held
<1>5. CASE CleanupSucceeds(p)
  BY <1>1, <1>5 DEF CleanupSucceeds, StepTo, HeldInv, Held, Steps
<1>6. CASE CleanupFails(p) \/ PatchFails(p) \/ ReconcileEnds(p)
  BY <1>1, <1>6 DEF CleanupFails, PatchFails, ReconcileEnds, StepTo, HeldInv, Held, Steps
<1>7. CASE Creates(p)
  BY <1>1, <1>7 DEF Creates, HeldInv, Held
<1> QED BY <1>2, <1>3, <1>4, <1>5, <1>6, <1>7

LEMMA HeldInvStep ==
  HeldInv /\ [ObjectNext]_objectVars => HeldInv' /\ (Held => cleaned \/ Held')
<1> SUFFICES ASSUME HeldInv, [ObjectNext]_objectVars
             PROVE  HeldInv' /\ (Held => cleaned \/ Held')
  OBVIOUS
<1>1. CASE Delete
  BY <1>1, DeleteKeepsInv
<1>2. ASSUME NEW f \in Others, OtherAdds(f) \/ OtherRemoves(f)
      PROVE  HeldInv' /\ (Held => cleaned \/ Held')
  BY <1>2, OthersKeepInv
<1>3. ASSUME NEW p \in Reconcilers, Controller(p)
      PROVE  HeldInv' /\ (Held => cleaned \/ Held')
  BY <1>3, AddKeepsInv, RemoveKeepsInv, ControllerKeepsInv DEF Controller
<1>4. CASE UNCHANGED objectVars
  BY <1>4 DEF objectVars, HeldInv, Held
<1> QED BY <1>1, <1>2, <1>3, <1>4 DEF ObjectNext

LEMMA HeldInvInit == ObjectInit => HeldInv
BY GoneIsNoObject DEF ObjectInit, Fresh, Objects, HeldInv, Steps

-----------------------------------------------------------------------------

\* Nobody takes the finalizer away before a cleanup has succeeded: not the pod that
\* patches from an old copy, not the other controllers, not a delete.
THEOREM LetGoIsCleaned == ObjectSpec => LetGoOnlyCleaned
<1>1. HeldInv /\ [ObjectNext]_objectVars =>
        [object # Gone /\ Own \in object.finalizers =>
           \/ cleaned
           \/ object' # Gone /\ Own \in object'.finalizers]_objectVars
  BY HeldInvStep DEF Held
<1> QED BY <1>1, HeldInvInit, HeldInvStep, PTL DEF ObjectSpec, LetGoOnlyCleaned

\* The types of what reconciles have made, and of the terms.
LEMMA MadeTypes ==
  ASSUME ObjectTypeOK, [ObjectNext]_objectVars
  PROVE  created' \subseteq Reconcilers /\ overtaken' \subseteq Reconcilers
<1> USE DEF ObjectTypeOK
<1>1. CASE Delete \/ (\E f \in Others : OtherAdds(f) \/ OtherRemoves(f)) \/ UNCHANGED objectVars
  BY <1>1 DEF Delete, OtherAdds, OtherRemoves, objectVars, made
<1>2. ASSUME NEW p \in Reconcilers, Controller(p)
      PROVE  created' \subseteq Reconcilers /\ overtaken' \subseteq Reconcilers
  BY <1>2 DEF Controller, Lead, Lose, Observe, Begin, CleanupSucceeds, CleanupFails,
              RemoveFinalizer, AddFinalizer, Patch, PatchFails, Creates, ReconcileEnds, made
<1> QED BY <1>1, <1>2 DEF ObjectNext

\* A reconcile is given an object and holds on to it until it ends, however it ends.
THEOREM ObjectTypeCorrect == ObjectSpec => []ObjectTypeOK
<1>1. ObjectInit => ObjectTypeOK
  <2> SUFFICES ASSUME ObjectInit PROVE ObjectTypeOK
    OBVIOUS
  <2>1. HeldInv
    BY HeldInvInit
  <2>2. /\ leads \in [Reconcilers -> BOOLEAN] /\ cleaned \in BOOLEAN
        /\ created = {} /\ overtaken = {}
        /\ \A p \in Reconcilers : seen[p] = Gone /\ step[p] = "idle"
    BY DEF ObjectInit
  <2> QED BY <2>1, <2>2 DEF HeldInv, ObjectTypeOK
<1>2. ASSUME HeldInv, HeldInv', ObjectTypeOK, [ObjectNext]_objectVars PROVE ObjectTypeOK'
  <2> DEFINE Given == \A p \in Reconcilers : seen[p] = Gone <=> step[p] = "idle"
  <2>1. SUFFICES leads' \in [Reconcilers -> BOOLEAN] /\ cleaned' \in BOOLEAN /\ Given'
    BY <1>2, MadeTypes DEF HeldInv, ObjectTypeOK
  <2>2. leads \in [Reconcilers -> BOOLEAN] /\ cleaned \in BOOLEAN /\ Given
    BY <1>2 DEF ObjectTypeOK
  <2>3. step \in [Reconcilers -> Steps] /\ seen \in [Reconcilers -> Objects \cup {Gone}]
    BY <1>2 DEF HeldInv
  <2>4. CASE Delete \/ (\E f \in Others : OtherAdds(f) \/ OtherRemoves(f)) \/ UNCHANGED objectVars
    BY <2>2, <2>4 DEF Delete, OtherAdds, OtherRemoves, objectVars
  <2>5. ASSUME NEW p \in Reconcilers, Lead(p) \/ Observe(p) \/ Lose(p)
        PROVE  leads' \in [Reconcilers -> BOOLEAN] /\ cleaned' \in BOOLEAN /\ Given'
    BY <2>2, <2>3, <2>5 DEF Lead, Observe, Lose
  <2>6. ASSUME NEW p \in Reconcilers, Begin(p)
        PROVE  leads' \in [Reconcilers -> BOOLEAN] /\ cleaned' \in BOOLEAN /\ Given'
    BY <2>2, <2>3, <2>6 DEF Begin
  <2>7. ASSUME NEW p \in Reconcilers, step[p] # "idle", NEW next \in Steps, StepTo(p, next)
        PROVE  leads' \in [Reconcilers -> BOOLEAN] /\ Given'
    BY <2>2, <2>3, <2>7 DEF StepTo
  <2>8. ASSUME NEW p \in Reconcilers,
               CleanupSucceeds(p) \/ CleanupFails(p) \/ PatchFails(p) \/ ReconcileEnds(p)
        PROVE  /\ step[p] # "idle" /\ cleaned' \in BOOLEAN
               /\ \E next \in Steps : StepTo(p, next)
    BY <2>2, <2>8 DEF CleanupSucceeds, CleanupFails, PatchFails, ReconcileEnds, Steps
  <2>9. ASSUME NEW p \in Reconcilers, NEW answered \in BOOLEAN,
               RemoveFinalizer(p) \/ AddFinalizer(p, answered)
        PROVE  /\ step[p] # "idle" /\ cleaned' \in BOOLEAN
               /\ \E next \in Steps : StepTo(p, next)
    BY <2>2, <2>9 DEF RemoveFinalizer, AddFinalizer, Patch, Steps
  <2>10. ASSUME NEW p \in Reconcilers, Creates(p)
         PROVE  leads' \in [Reconcilers -> BOOLEAN] /\ cleaned' \in BOOLEAN /\ Given'
    BY <2>2, <2>10 DEF Creates
  <2> HIDE DEF Given
  <2> QED BY <1>2, <2>4, <2>5, <2>6, <2>7, <2>8, <2>9, <2>10 DEF ObjectNext, Controller
<1> QED BY <1>1, <1>2, HeldInvInit, HeldInvStep, PTL DEF ObjectSpec

-----------------------------------------------------------------------------
(* What reconciles have made, and who may not know of the deletion. *)

\* The object is being deleted or gone, which nothing takes back.
Doomed == object = Gone \/ object.deleting

\* A pod cleans up, or has.
CleansUp == cleaned \/ \E p \in Reconcilers : step[p] = "cleanup"

\* Who still holds an old copy when a cleanup begins is overtaken, and nobody comes by
\* such a copy later; so what is made once a cleanup has succeeded, overtaken pods make,
\* and until one has succeeded the finalizer holds what is made.
LeftInv ==
  /\ \A p \in Reconcilers : \A o \in {cache[p], seen[p]} : o # Gone /\ o.deleting => Doomed
  /\ \A p \in Reconcilers : step[p] = "idle" => seen[p] = Gone
  /\ \A p \in Reconcilers : step[p] = "cleanup" => seen[p] # Gone /\ seen[p].deleting
  /\ \A p \in Reconcilers : step[p] \in {"adding", "reconciling"} =>
       seen[p] # Gone /\ ~seen[p].deleting
  /\ cleaned => Doomed
  /\ CleansUp => \A q \in Reconcilers : HoldsOld(q) => q \in overtaken
  /\ cleaned => created \subseteq overtaken
  /\ created # {} => cleaned \/ Held

\* A change of the object, which stays doomed and held.
LEMMA ObjectChangeKeepsLeft ==
  ASSUME LeftInv, Doomed => Doomed', Held => cleaned \/ Held',
         UNCHANGED <<cache, step, seen, cleaned, made>>
  PROVE  LeftInv'
<1>1. (\A p : HoldsOld(p)' <=> HoldsOld(p)) /\ (CleansUp' <=> CleansUp)
  BY DEF HoldsOld, CleansUp
<1> QED BY <1>1 DEF LeftInv, made

LEMMA DoomedStays ==
  ASSUME HeldInv, [ObjectNext]_objectVars, Doomed
  PROVE  Doomed'
<1>1. \A finalizers : object # Gone => With(finalizers) = Gone \/ With(finalizers).deleting
  <2>1. object # Gone => object.deleting /\ object \in Objects
    BY DEF Doomed, HeldInv
  <2> QED BY <2>1 DEF With, Objects
<1>2. CASE Delete \/ (\E f \in Others : OtherAdds(f) \/ OtherRemoves(f)) \/ UNCHANGED objectVars
  <2>1. CASE Delete \/ UNCHANGED objectVars
    BY <2>1 DEF Delete, objectVars, Doomed
  <2>2. ASSUME NEW f \in Others, OtherAdds(f) \/ OtherRemoves(f) PROVE Doomed'
    <3>1. \E finalizers : object # Gone /\ object' = With(finalizers)
      BY <2>2 DEF OtherAdds, OtherRemoves
    <3> QED BY <1>1, <3>1 DEF Doomed
  <2> QED BY <1>2, <2>1, <2>2
<1>3. ASSUME NEW p \in Reconcilers, Controller(p) PROVE Doomed'
  <2>1. CASE RemoveFinalizer(p) \/ \E answered \in BOOLEAN : AddFinalizer(p, answered)
    BY <1>1, <2>1 DEF RemoveFinalizer, AddFinalizer, Patch, Accepts, Doomed
  <2>2. CASE \/ Lead(p) \/ Lose(p) \/ Observe(p) \/ Begin(p) \/ CleanupSucceeds(p)
             \/ CleanupFails(p) \/ PatchFails(p) \/ Creates(p) \/ ReconcileEnds(p)
    BY <2>2 DEF Lead, Lose, Observe, Begin, CleanupSucceeds, CleanupFails, PatchFails,
                Creates, ReconcileEnds, Doomed
  <2> QED BY <1>3, <2>1, <2>2 DEF Controller
<1> QED BY <1>2, <1>3 DEF ObjectNext

\* A reconcile ends, or goes on to what it still does with the object it was given.
LEMMA StepToKeepsLeft ==
  ASSUME HeldInv, LeftInv, NEW p \in Reconcilers, step[p] # "idle", NEW next \in Steps,
         StepTo(p, next), next \in {"idle", "removing", "reconciling"},
         next = "reconciling" => step[p] = "adding",
         next = "removing" => step[p] = "cleanup",
         Doomed => Doomed', Held => cleaned' \/ Held',
         overtaken' = overtaken,
         \/ UNCHANGED <<cleaned, created>>
         \/ step[p] = "cleanup" /\ cleaned' = TRUE /\ created' = {}
  PROVE  LeftInv'
<1>1. /\ step' = [step EXCEPT ![p] = next] /\ cache' = cache
      /\ seen' = IF next = "idle" THEN [seen EXCEPT ![p] = Gone] ELSE seen
  BY DEF StepTo
<1>2. step \in [Reconcilers -> Steps] /\ seen \in [Reconcilers -> Objects \cup {Gone}]
  BY DEF HeldInv
<1>3. \A q \in Reconcilers : /\ step'[q] = IF q = p THEN next ELSE step[q]
                             /\ seen'[q] = IF q = p /\ next = "idle" THEN Gone ELSE seen[q]
  BY <1>1, <1>2
<1>4. \A q \in Reconcilers : /\ HoldsOld(q)' => HoldsOld(q)
                             /\ next # "idle" => (HoldsOld(q)' <=> HoldsOld(q))
                             /\ q # p => (HoldsOld(q)' <=> HoldsOld(q))
  BY <1>1, <1>3 DEF HoldsOld
<1>5. CleansUp' => CleansUp
  BY <1>3 DEF CleansUp
<1>6. step[p] = "cleanup" => Doomed
  BY DEF LeftInv
<1>7. \A q \in Reconcilers : step'[q] \in {"adding", "reconciling"} =>
        seen'[q] # Gone /\ ~seen'[q].deleting
  BY <1>3 DEF LeftInv
<1>8. \A q \in Reconcilers :
        \A o \in {cache'[q], seen'[q]} : o # Gone /\ o.deleting => Doomed'
  BY <1>1, <1>3 DEF LeftInv
<1>9. \A q \in Reconcilers : /\ step'[q] = "idle" => seen'[q] = Gone
                             /\ step'[q] = "cleanup" => seen'[q] # Gone /\ seen'[q].deleting
  BY <1>3 DEF LeftInv
<1>10. cleaned' => Doomed' /\ created' \subseteq overtaken'
  BY <1>6 DEF LeftInv
<1>11. created' # {} => cleaned' \/ Held'
  BY DEF LeftInv
<1>12. CleansUp' => \A q \in Reconcilers : HoldsOld(q)' => q \in overtaken'
  BY <1>4, <1>5 DEF LeftInv
<1> QED BY <1>7, <1>8, <1>9, <1>10, <1>11, <1>12 DEF LeftInv

LEMMA LeftInvStep == HeldInv /\ LeftInv /\ [ObjectNext]_objectVars => LeftInv'
<1> SUFFICES ASSUME HeldInv, LeftInv, [ObjectNext]_objectVars PROVE LeftInv'
  OBVIOUS
<1>1. (Doomed => Doomed') /\ (Held => cleaned \/ Held')
  BY DoomedStays, HeldInvStep
<1>2. /\ cache \in [Reconcilers -> Objects \cup {Gone}] /\ step \in [Reconcilers -> Steps]
      /\ seen \in [Reconcilers -> Objects \cup {Gone}] /\ object \in Objects \cup {Gone}
  BY DEF HeldInv
<1>3. CASE Delete \/ (\E f \in Others : OtherAdds(f) \/ OtherRemoves(f)) \/ UNCHANGED objectVars
  BY <1>1, <1>3, ObjectChangeKeepsLeft DEF Delete, OtherAdds, OtherRemoves, objectVars
<1>4. ASSUME NEW p \in Reconcilers, Lead(p) \/ Observe(p) PROVE LeftInv'
  <2>1. cache' = [cache EXCEPT ![p] = object] /\ UNCHANGED <<object, step, seen, cleaned, made>>
    BY <1>4 DEF Lead, Observe
  <2>2. \A q \in Reconcilers : cache'[q] = IF q = p THEN object ELSE cache[q]
    BY <1>2, <2>1
  <2>3. /\ \A q \in Reconcilers : HoldsOld(q)' => HoldsOld(q) \/ ~Doomed
        /\ CleansUp' <=> CleansUp
        /\ CleansUp => Doomed
    BY <2>1, <2>2 DEF HoldsOld, Doomed, CleansUp, LeftInv
  <2> QED BY <2>1, <2>2, <2>3 DEF LeftInv, Doomed, Held, made
<1>5. ASSUME NEW p \in Reconcilers, Lose(p) PROVE LeftInv'
  <2>1. \A q \in Reconcilers : /\ cache'[q] = IF q = p THEN Gone ELSE cache[q]
                               /\ seen'[q] = IF q = p THEN Gone ELSE seen[q]
                               /\ step'[q] = IF q = p THEN "idle" ELSE step[q]
    BY <1>2, <1>5 DEF Lose
  <2>2. UNCHANGED <<object, cleaned, created, overtaken>>
    BY <1>5 DEF Lose, made
  <2>3. /\ \A q \in Reconcilers : HoldsOld(q)' => HoldsOld(q)
        /\ CleansUp' => CleansUp
    BY <2>1, <2>2 DEF HoldsOld, CleansUp
  <2> QED BY <2>1, <2>2, <2>3 DEF LeftInv, Doomed, Held
<1>6. ASSUME NEW p \in Reconcilers, Begin(p) PROVE LeftInv'
  <2>1. /\ step[p] = "idle" /\ cache[p] # Gone /\ FirstStep(cache[p]) # "idle"
        /\ UNCHANGED <<object, cache, cleaned, created>>
        /\ \A q \in Reconcilers :
             /\ seen'[q] = IF q = p THEN cache[p] ELSE seen[q]
             /\ step'[q] = IF q = p THEN FirstStep(cache[p]) ELSE step[q]
    BY <1>2, <1>6 DEF Begin
  <2>2. cache[p] \in Objects
    BY <1>2, <2>1
  <2>3. /\ FirstStep(cache[p]) = "cleanup" => cache[p].deleting
        /\ FirstStep(cache[p]) \in {"adding", "reconciling"} => ~cache[p].deleting
        /\ FirstStep(cache[p]) \in {"cleanup", "adding", "reconciling"}
    BY <2>1, <2>2 DEF FirstStep, Objects
  <2>4. \A q \in Reconcilers : HoldsOld(q)' => HoldsOld(q)
    BY <2>1 DEF HoldsOld
  <2>5. /\ overtaken \subseteq overtaken'
        /\ FirstStep(cache[p]) = "cleanup" =>
             \A q \in Reconcilers : HoldsOld(q) => q \in overtaken'
    BY <1>6 DEF Begin
  <2>6. CleansUp' => CleansUp \/ FirstStep(cache[p]) = "cleanup"
    BY <2>1 DEF CleansUp
  <2>7. CleansUp' => \A q \in Reconcilers : HoldsOld(q)' => q \in overtaken'
    BY <2>4, <2>5, <2>6 DEF LeftInv
  <2>8. Doomed' = Doomed /\ Held' = Held
    BY <2>1 DEF Doomed, Held
  <2>9. \A q \in Reconcilers :
          \A o \in {cache'[q], seen'[q]} : o # Gone /\ o.deleting => Doomed
    BY <2>1 DEF LeftInv
  <2>10. \A q \in Reconcilers :
           /\ step'[q] = "idle" => seen'[q] = Gone
           /\ step'[q] = "cleanup" => seen'[q] # Gone /\ seen'[q].deleting
           /\ step'[q] \in {"adding", "reconciling"} => seen'[q] # Gone /\ ~seen'[q].deleting
    BY <2>1, <2>3 DEF LeftInv
  <2>11. /\ cleaned' => Doomed /\ created' \subseteq overtaken'
         /\ created' # {} => cleaned' \/ Held
    BY <2>1, <2>5 DEF LeftInv
  <2> QED BY <2>7, <2>8, <2>9, <2>10, <2>11 DEF LeftInv
<1>7. ASSUME NEW p \in Reconcilers, CleanupSucceeds(p) PROVE LeftInv'
  BY <1>1, <1>7, StepToKeepsLeft DEF CleanupSucceeds, Steps
<1>8. ASSUME NEW p \in Reconcilers, CleanupFails(p) \/ PatchFails(p) \/ ReconcileEnds(p)
      PROVE  LeftInv'
  BY <1>1, <1>8, StepToKeepsLeft DEF CleanupFails, PatchFails, ReconcileEnds, Steps, made
<1>9. ASSUME NEW p \in Reconcilers, NEW answered \in BOOLEAN,
             RemoveFinalizer(p) \/ AddFinalizer(p, answered)
      PROVE  LeftInv'
  BY <1>1, <1>9, StepToKeepsLeft DEF RemoveFinalizer, AddFinalizer, Patch, Steps, made
<1>10. ASSUME NEW p \in Reconcilers, Creates(p) PROVE LeftInv'
  <2>1. /\ step[p] = "reconciling" /\ created' = created \cup {p}
        /\ UNCHANGED <<object, cache, step, seen, cleaned, overtaken>>
    BY <1>10 DEF Creates
  <2>2. HoldsOld(p) /\ (cleaned \/ Held)
    BY <2>1 DEF HoldsOld, LeftInv, HeldInv
  <2>3. cleaned => p \in overtaken
    BY <2>2 DEF LeftInv, CleansUp
  <2>4. /\ \A q \in Reconcilers : HoldsOld(q)' <=> HoldsOld(q)
        /\ (CleansUp' <=> CleansUp) /\ Doomed' = Doomed /\ Held' = Held
    BY <2>1 DEF HoldsOld, CleansUp, Doomed, Held
  <2> QED BY <2>1, <2>2, <2>3, <2>4 DEF LeftInv
<1> QED BY <1>3, <1>4, <1>5, <1>6, <1>7, <1>8, <1>9, <1>10 DEF ObjectNext, Controller

\* What reconciles make is cleaned up before the object goes, by whichever pod, unless
\* it was made under an old copy by a pod that another one's cleanup has overtaken.
THEOREM NothingIsLeft == ObjectSpec => []NothingLeftBehind
<1>1. ObjectInit => LeftInv
  BY GoneIsNoObject DEF ObjectInit, LeftInv, CleansUp
<1>2. HeldInv /\ LeftInv => NothingLeftBehind
  BY DEF LeftInv, NothingLeftBehind, Held
<1> QED BY <1>1, <1>2, HeldInvInit, HeldInvStep, LeftInvStep, PTL DEF ObjectSpec

-----------------------------------------------------------------------------
(* The stream workers: what an acknowledgement stands for. *)

AckInv ==
  /\ at \in [Pods -> WorkerPlaces]
  /\ msg \in [Messages -> {"unsent", "ready", "out", "gone"}]
  /\ hand \in [Pods -> Messages \cup {None}]
  /\ buffer \in [Pods -> SUBSET Messages]
  /\ \A p \in Pods : at[p] \in {"handling", "acking"} => hand[p] \in Messages
  /\ \A p \in Pods : at[p] = "acking" => hand[p] \in done \cup bad
  /\ GoneIsDone

\* The steps that touch neither a worker nor a message in the stream.
LEMMA OthersKeepAckInv ==
  ASSUME AckInv, UNCHANGED <<at, hand, buffer, msg, done, bad>>
  PROVE  AckInv'
BY DEF AckInv, GoneIsDone

\* Where a worker goes when it lets go of what it holds, and nothing is acknowledged.
LEMMA CancelKeepsAckInv ==
  ASSUME AckInv, NEW p \in Pods, NEW place \in {"waiting", "ended"}, Cancel(p, place)
  PROVE  AckInv'
BY DEF AckInv, GoneIsDone, Cancel, Goes, WorkerOnly, election, WorkerPlaces,
       Following, Consuming

LEMMA WorkerKeepsAckInv ==
  ASSUME AckInv, NEW p \in Pods, Worker(p)
  PROVE  AckInv'
<1> USE DEF WorkerPlaces, Following, Consuming, Goes, WorkerOnly, election
<1>1. CASE WaitForFollower(p) \/ FindStream(p) \/ CreateConsumer(p)
  <2>1. /\ \E place \in {"stream", "ended", "create", "next", "failed"} :
             at' = [at EXCEPT ![p] = place]
        /\ UNCHANGED <<hand, buffer, msg, done, bad>>
    BY <1>1 DEF WaitForFollower, FindStream, CreateConsumer
  <2> QED BY <2>1 DEF AckInv, GoneIsDone
<1>2. CASE Take(p)
  <2>1. PICK m \in buffer[p] :
          /\ hand' = [hand EXCEPT ![p] = m]
          /\ buffer' = [buffer EXCEPT ![p] = @ \ {m}]
          /\ at' = [at EXCEPT ![p] = IF m \in bad THEN "acking" ELSE "handling"]
    BY <1>2 DEF Take
  <2>2. UNCHANGED <<msg, done, bad>> /\ m \in Messages
    BY <1>2 DEF Take, AckInv
  <2> QED BY <2>1, <2>2 DEF AckInv, GoneIsDone
<1>3. CASE HandleEnds(p)
  BY <1>3 DEF HandleEnds, AckInv, GoneIsDone
<1>4. CASE HandleRetry(p)
  BY <1>4 DEF HandleRetry, AckInv, GoneIsDone
<1>5. ASSUME NEW reached \in BOOLEAN, Acked(p, reached) PROVE AckInv'
  BY <1>5 DEF Acked, AckInv, GoneIsDone
<1>6. CASE StreamEnds(p) \/ FollowerLost(p)
  BY <1>6, CancelKeepsAckInv DEF StreamEnds, FollowerLost
<1> QED BY <1>1, <1>2, <1>3, <1>4, <1>5, <1>6 DEF Worker

LEMMA AckInvStep == AckInv /\ [Next]_vars => AckInv'
<1> SUFFICES ASSUME AckInv, [Next]_vars PROVE AckInv'
  OBVIOUS
<1>1. ASSUME NEW p \in Pods, Elect(p) \/ Close(p) PROVE AckInv'
  BY <1>1, OthersKeepAckInv DEF Elect, Close, worker
<1>2. ASSUME NEW p \in Pods, Reconciler(p) PROVE AckInv'
  <2>1. ASSUME NEW m \in Messages, Publish(p, m) PROVE AckInv'
    BY <2>1 DEF Publish, AckInv, GoneIsDone, election, worker
  <2>2. ASSUME WaitForLeadership(p) \/ CreateStream(p) \/ ControllerEnds(p)
                 \/ LeadershipLost(p)
        PROVE  AckInv'
    BY <2>2, OthersKeepAckInv
       DEF WaitForLeadership, CreateStream, ControllerEnds, LeadershipLost,
           ReconcilerGoes, election, worker
  <2> QED BY <1>2, <2>1, <2>2 DEF Reconciler
<1>3. ASSUME NEW p \in Pods, Worker(p) PROVE AckInv'
  BY <1>3, WorkerKeepsAckInv
<1>4. ASSUME NEW p \in Pods, NEW m \in Messages, Deliver(p, m) PROVE AckInv'
  BY <1>4 DEF Deliver, AckInv, GoneIsDone, election
<1>5. ASSUME NEW m \in Messages, Expire(m) PROVE AckInv'
  BY <1>5 DEF Expire, AckInv, GoneIsDone, election, worker
<1>6. CASE UNCHANGED vars
  BY <1>6, OthersKeepAckInv DEF vars, worker, election
<1> QED BY <1>1, <1>2, <1>3, <1>4, <1>5, <1>6 DEF Next

\* Nothing leaves the stream that a handler has not said Ack or Skip to, but what
\* does not parse: cancellations, retries and redeliveries lose nothing.
THEOREM NothingIsLost == Spec => []GoneIsDone
<1>1. Init => AckInv
  BY DEF Init, AckInv, GoneIsDone, WorkerPlaces, Following, Consuming
<1>2. AckInv => GoneIsDone
  BY DEF AckInv
<1> QED BY <1>1, <1>2, AckInvStep, PTL DEF Spec

\* What a handler has in hand is of the application: a message that does not parse
\* never reaches one.
HandInv ==
  /\ TypeOK
  /\ \A p \in Pods : at[p] = "handling" => hand[p] \notin bad

\* The election and the reconcilers leave the workers alone.
LEMMA OthersKeepHandInv ==
  ASSUME HandInv, UNCHANGED <<ha, bad, at, hand, done, msg, buffer>>,
         stream' \in BOOLEAN, leader' \subseteq Pods, closed' \subseteq Closing,
         rat' \in [Pods -> ReconcilerPlaces]
  PROVE  HandInv'
BY DEF HandInv, TypeOK

LEMMA WorkerKeepsHandInv ==
  ASSUME HandInv, AckInv', NEW p \in Pods, Worker(p)
  PROVE  HandInv'
<1> USE DEF WorkerPlaces, Following, Consuming, Goes, WorkerOnly, election
<1>1. at' \in [Pods -> WorkerPlaces] /\ msg' \in [Messages -> {"unsent", "ready", "out", "gone"}]
      /\ hand' \in [Pods -> Messages \cup {None}] /\ buffer' \in [Pods -> SUBSET Messages]
  BY DEF AckInv
<1>2. UNCHANGED <<ha, bad, leader, closed, stream, rat>>
  BY DEF Worker, WaitForFollower, FindStream, CreateConsumer, Take, HandleEnds, HandleRetry,
         Acked, StreamEnds, FollowerLost, Cancel
<1> DEFINE Holding == \A q \in Pods : hand[q] # None <=> at[q] \in {"handling", "acking"}
           Apart == \A q \in Pods : at[q] = "handling" => hand[q] \notin bad
<1>3. /\ Holding /\ Apart /\ done \subseteq Messages \ bad
      /\ at \in [Pods -> WorkerPlaces] /\ hand \in [Pods -> Messages \cup {None}]
      /\ buffer \in [Pods -> SUBSET Messages]
  BY DEF HandInv, TypeOK
<1>4. Holding' /\ Apart' /\ done' \subseteq Messages \ bad
  <2>1. CASE WaitForFollower(p) \/ FindStream(p) \/ CreateConsumer(p)
    <3>1. /\ at[p] \notin {"handling", "acking"}
          /\ \E place \in {"stream", "ended", "create", "next", "failed"} :
                 at' = [at EXCEPT ![p] = place]
          /\ UNCHANGED <<hand, bad, done>>
      BY <2>1 DEF WaitForFollower, FindStream, CreateConsumer
    <3> QED BY <1>3, <3>1
  <2>2. CASE Take(p)
    <3>1. PICK m \in buffer[p] :
            /\ hand' = [hand EXCEPT ![p] = m]
            /\ at' = [at EXCEPT ![p] = IF m \in bad THEN "acking" ELSE "handling"]
      BY <2>2 DEF Take
    <3>2. m # None /\ UNCHANGED <<bad, done>>
      BY <1>3, <2>2, StreamAssumption DEF Take
    <3> QED BY <1>3, <3>1, <3>2
  <2>3. CASE HandleEnds(p)
    <3>1. hand[p] \in Messages \ bad
      BY <1>3, <2>3 DEF HandleEnds
    <3> QED BY <1>2, <1>3, <2>3, <3>1 DEF HandleEnds
  <2>4. CASE HandleRetry(p) \/ (\E reached \in BOOLEAN : Acked(p, reached))
    <3>1. /\ at' = [at EXCEPT ![p] = "next"] /\ hand' = [hand EXCEPT ![p] = None]
          /\ UNCHANGED <<bad, done>>
      BY <2>4 DEF HandleRetry, Acked
    <3> QED BY <1>3, <3>1
  <2>5. CASE StreamEnds(p) \/ FollowerLost(p)
    <3>1. /\ \E place \in {"waiting", "ended"} : at' = [at EXCEPT ![p] = place]
          /\ hand' = [hand EXCEPT ![p] = None] /\ UNCHANGED <<bad, done>>
      BY <2>5 DEF StreamEnds, FollowerLost, Cancel
    <3> QED BY <1>3, <3>1
  <2> QED BY <2>1, <2>2, <2>3, <2>4, <2>5 DEF Worker
<1> HIDE DEF Holding, Apart
<1> QED BY <1>1, <1>2, <1>4 DEF HandInv, TypeOK, Holding, Apart

LEMMA HandInvStep == AckInv' /\ HandInv /\ [Next]_vars => HandInv'
<1> SUFFICES ASSUME AckInv', HandInv, [Next]_vars PROVE HandInv'
  OBVIOUS
<1> USE DEF election, worker
<1>1. ASSUME NEW p \in Pods, Elect(p) \/ Close(p) PROVE HandInv'
  BY <1>1, OthersKeepHandInv DEF Elect, Close, HandInv, TypeOK
<1>2. ASSUME NEW p \in Pods, Reconciler(p) PROVE HandInv'
  <2>1. ASSUME NEW m \in Messages, Publish(p, m) PROVE HandInv'
    BY <2>1 DEF Publish, HandInv, TypeOK
  <2>2. ASSUME WaitForLeadership(p) \/ CreateStream(p) \/ ControllerEnds(p) \/ LeadershipLost(p)
        PROVE  HandInv'
    <3>1. \E place \in ReconcilerPlaces : ReconcilerGoes(p, place)
      BY <2>2 DEF WaitForLeadership, CreateStream, ControllerEnds, LeadershipLost,
                  ReconcilerPlaces
    <3>2. stream' \in BOOLEAN
      BY <2>2 DEF WaitForLeadership, CreateStream, ControllerEnds, LeadershipLost, HandInv, TypeOK
    <3> QED BY <3>1, <3>2, OthersKeepHandInv DEF ReconcilerGoes, HandInv, TypeOK
  <2> QED BY <1>2, <2>1, <2>2 DEF Reconciler
<1>3. ASSUME NEW p \in Pods, Worker(p) PROVE HandInv'
  BY <1>3, WorkerKeepsHandInv
<1>4. ASSUME NEW p \in Pods, NEW m \in Messages, Deliver(p, m) PROVE HandInv'
  BY <1>4 DEF Deliver, HandInv, TypeOK
<1>5. ASSUME NEW m \in Messages, Expire(m) PROVE HandInv'
  BY <1>5 DEF Expire, HandInv, TypeOK
<1>6. CASE UNCHANGED vars
  BY <1>6, OthersKeepHandInv DEF vars, HandInv, TypeOK
<1> QED BY <1>1, <1>2, <1>3, <1>4, <1>5, <1>6 DEF Next

\* A worker holds a message exactly while it handles or acknowledges one, and what a
\* handler said Ack or Skip to did parse.
THEOREM WorkersTypeCorrect == Spec => []TypeOK
<1>1. Init => AckInv
  BY DEF Init, AckInv, GoneIsDone, WorkerPlaces, Following, Consuming
<1>2. Init => HandInv
  BY DEF Init, HandInv, TypeOK, WorkerPlaces, ReconcilerPlaces, Following, Consuming
<1>3. HandInv => TypeOK
  BY DEF HandInv
<1> QED BY <1>1, <1>2, <1>3, AckInvStep, HandInvStep, PTL DEF Spec

-----------------------------------------------------------------------------
(* The stream workers and their stream. *)

\* A worker that has found the stream finds it there when it creates its consumer.
StreamInv ==
  /\ at \in [Pods -> WorkerPlaces]
  /\ \A p \in Pods : at[p] = "create" => stream
  /\ WorkersOutwaitStream

LEMMA StreamInvStep == StreamInv /\ [Next]_vars => StreamInv'
<1> SUFFICES ASSUME StreamInv, [Next]_vars PROVE StreamInv'
  OBVIOUS
<1> USE DEF WorkerPlaces, Following, Consuming, Goes, WorkerOnly, election,
            worker
<1>1. ASSUME UNCHANGED at, stream => stream' PROVE StreamInv'
  BY <1>1 DEF StreamInv, WorkersOutwaitStream
<1>2. ASSUME NEW p \in Pods, UNCHANGED stream,
             NEW place \in WorkerPlaces \ {"failed"}, place = "create" => stream,
             at' = [at EXCEPT ![p] = place]
      PROVE  StreamInv'
  BY <1>2 DEF StreamInv, WorkersOutwaitStream
<1>3. ASSUME NEW p \in Pods, Elect(p) \/ Close(p) \/ Reconciler(p) PROVE StreamInv'
  BY <1>1, <1>3 DEF Elect, Close, Reconciler, WaitForLeadership, CreateStream,
                    ControllerEnds, LeadershipLost, Publish, ReconcilerGoes
<1>4. ASSUME NEW p \in Pods, Worker(p) PROVE StreamInv'
  <2>1. CASE WaitForFollower(p) \/ FindStream(p) \/ CreateConsumer(p)
    BY <1>2, <2>1 DEF WaitForFollower, FindStream, CreateConsumer, StreamInv
  <2>2. CASE Take(p) \/ HandleEnds(p) \/ HandleRetry(p)
    BY <1>2, <2>2 DEF Take, HandleEnds, HandleRetry
  <2>3. ASSUME NEW reached \in BOOLEAN, Acked(p, reached) PROVE StreamInv'
    BY <1>2, <2>3 DEF Acked
  <2>4. CASE StreamEnds(p) \/ FollowerLost(p)
    BY <1>2, <2>4 DEF StreamEnds, FollowerLost, Cancel
  <2> QED BY <1>4, <2>1, <2>2, <2>3, <2>4 DEF Worker
<1>5. ASSUME NEW p \in Pods, NEW m \in Messages, Deliver(p, m) PROVE StreamInv'
  BY <1>1, <1>5 DEF Deliver
<1>6. ASSUME NEW m \in Messages, Expire(m) PROVE StreamInv'
  BY <1>1, <1>6 DEF Expire
<1>7. CASE UNCHANGED vars
  BY <1>1, <1>7 DEF vars
<1> QED BY <1>3, <1>4, <1>5, <1>6, <1>7 DEF Next

\* No worker fails for having started before the stream exists.
THEOREM StreamIsAwaited == Spec => []WorkersOutwaitStream
<1>1. Init => StreamInv
  BY DEF Init, StreamInv, WorkersOutwaitStream, WorkerPlaces, Following, Consuming
<1>2. StreamInv => WorkersOutwaitStream
  BY DEF StreamInv
<1> QED BY <1>1, <1>2, StreamInvStep, PTL DEF Spec

=============================================================================
