----------------------------- MODULE Finalizers -----------------------------
(***************************************************************************)
(* The life of one Kubernetes object under a reconciler with a finalizer   *)
(* (reconcile_with_finalizer, add_finalizer and remove_finalizer,          *)
(* crates/flatbed/src/k8s.rs).  Every pod reconciles while its election    *)
(* says that it leads, from a cached copy that may be old; the elections   *)
(* of two pods may overlap.  Other controllers have finalizers of their    *)
(* own on the same object, and edit no entry but theirs.                   *)
(*                                                                         *)
(* The API server is external: an object being deleted takes no new        *)
(* finalizers, and goes when it has none; a merge patch replaces the whole *)
(* list.  The object is not created anew under its name.                   *)
(***************************************************************************)
EXTENDS FiniteSets

CONSTANTS
  Reconcilers,  \* the pods that run the reconciler
  Own,          \* KubeReconciler::FINALIZER
  Others,       \* finalizers of other controllers
  Gone

ASSUME FinalizerAssumption == Own \notin Others

VARIABLES
  object,   \* what the API server holds: its finalizers, and whether it is deleting
  leads,    \* per pod: the controller runs
  cache,    \* per pod: the object in the controller's cache
  step,     \* per pod: where reconcile_with_finalizer is
  seen,     \* per pod: the object the running reconcile was given
  cleaned,  \* cleanup has succeeded
  \* Of what the application's reconcile makes elsewhere:
  created,  \* the pods that have made something since the last cleanup succeeded
  overtaken \* the pods that held a copy from before the deletion when another one
            \* began to clean up

made == <<created, overtaken>>
objectVars == <<object, leads, cache, step, seen, cleaned, made>>

-----------------------------------------------------------------------------

Objects == [finalizers : SUBSET (Others \cup {Own}), deleting : BOOLEAN]

ASSUME GoneAssumption == Gone \notin Objects

Fresh == [finalizers |-> {}, deleting |-> FALSE]
Steps == {"idle", "cleanup", "removing", "adding", "reconciling"}

ObjectInit ==
  /\ object = Fresh
  /\ leads = [p \in Reconcilers |-> FALSE]
  /\ cache = [p \in Reconcilers |-> Gone]
  /\ step = [p \in Reconcilers |-> "idle"]
  /\ seen = [p \in Reconcilers |-> Gone]
  /\ cleaned = FALSE
  /\ created = {} /\ overtaken = {}

-----------------------------------------------------------------------------
(* The API server and the others *)

\* What becomes of the object when its finalizers are replaced.
With(finalizers) ==
  IF object.deleting /\ finalizers = {} THEN Gone
  ELSE [object EXCEPT !.finalizers = finalizers]

Accepts(finalizers) ==
  object # Gone /\ (object.deleting => finalizers \subseteq object.finalizers)

Delete ==
  /\ object # Gone /\ ~object.deleting
  /\ object' = IF object.finalizers = {} THEN Gone
               ELSE [object EXCEPT !.deleting = TRUE]
  /\ UNCHANGED <<leads, cache, step, seen, cleaned, made>>

OtherAdds(f) ==
  /\ object # Gone /\ ~object.deleting
  /\ object' = With(object.finalizers \cup {f})
  /\ UNCHANGED <<leads, cache, step, seen, cleaned, made>>

OtherRemoves(f) ==
  /\ object # Gone /\ f \in object.finalizers
  /\ object' = With(object.finalizers \ {f})
  /\ UNCHANGED <<leads, cache, step, seen, cleaned, made>>

-----------------------------------------------------------------------------
(* The controller of a pod *)

\* `wait_for_leadership`, then a controller with a list of its own.
Lead(p) ==
  /\ ~leads[p]
  /\ leads' = [leads EXCEPT ![p] = TRUE]
  /\ cache' = [cache EXCEPT ![p] = object]
  /\ UNCHANGED <<object, step, seen, cleaned, made>>

\* `wait_for_leadership_loss` drops the controller wherever its reconcile waits.
Lose(p) ==
  /\ leads[p]
  /\ leads' = [leads EXCEPT ![p] = FALSE]
  /\ cache' = [cache EXCEPT ![p] = Gone]
  /\ step' = [step EXCEPT ![p] = "idle"]
  /\ seen' = [seen EXCEPT ![p] = Gone]
  /\ UNCHANGED <<object, cleaned, made>>

\* A watch event brings the cache up to date.
Observe(p) ==
  /\ leads[p] /\ cache[p] # object
  /\ cache' = [cache EXCEPT ![p] = object]
  /\ UNCHANGED <<object, leads, step, seen, cleaned, made>>

StepTo(p, next) ==
  /\ step' = [step EXCEPT ![p] = next]
  /\ seen' = IF next = "idle" THEN [seen EXCEPT ![p] = Gone] ELSE seen
  /\ UNCHANGED <<leads, cache>>

\* Mutant: an object without the finalizer is reconciled as it is.
StepNoAdd(o) ==
  CASE o.deleting /\ Own \in o.finalizers -> "cleanup"
    [] o.deleting /\ Own \notin o.finalizers -> "idle"
    [] OTHER -> "reconciling"

\* What reconcile_with_finalizer does first with the object it is given.
FirstStep(o) ==
  CASE o.deleting /\ Own \in o.finalizers -> "cleanup"
    [] o.deleting /\ Own \notin o.finalizers -> "idle"
    [] ~o.deleting /\ Own \notin o.finalizers -> "adding"
    [] OTHER -> "reconciling"

HoldsOld(p) == \E o \in {cache[p], seen[p]} : o # Gone /\ ~o.deleting

\* The controller runs the reconcile of an object that has changed or is due.
Begin(p) ==
  /\ leads[p] /\ step[p] = "idle" /\ cache[p] # Gone
  /\ FirstStep(cache[p]) # "idle"
  /\ step' = [step EXCEPT ![p] = FirstStep(cache[p])]
  /\ seen' = [seen EXCEPT ![p] = cache[p]]
  /\ overtaken' = IF FirstStep(cache[p]) = "cleanup"
                  THEN overtaken \cup {q \in Reconcilers : HoldsOld(q)} ELSE overtaken
  /\ UNCHANGED <<object, leads, cache, cleaned, created>>

\* The application's cleanup undoes what reconciles have made, whoever ran them.
CleanupSucceeds(p) ==
  /\ step[p] = "cleanup"
  /\ cleaned' = TRUE /\ created' = {}
  /\ StepTo(p, "removing") /\ UNCHANGED <<object, overtaken>>

\* Mutant: an error of cleanup is passed over.
CleanupErrorIgnored(p) ==
  /\ step[p] = "cleanup"
  /\ StepTo(p, "removing") /\ UNCHANGED <<object, cleaned, made>>

\* The error ends the reconcile; the error policy asks for another in a minute.
CleanupFails(p) ==
  /\ step[p] = "cleanup"
  /\ StepTo(p, "idle") /\ UNCHANGED <<object, cleaned, made>>

\* The patch is made from the object the reconcile was given.
Patch(p, finalizers, next) ==
  /\ Accepts(finalizers)
  /\ object' = With(finalizers)
  /\ StepTo(p, next)
  /\ UNCHANGED <<cleaned, made>>

\* Mutant: the object being cleaned up keeps the finalizer it is told to lose.
RemoveNothing(p) ==
  /\ step[p] = "removing"
  /\ Patch(p, seen[p].finalizers, "idle")

RemoveFinalizer(p) ==
  /\ step[p] = "removing"
  /\ Patch(p, seen[p].finalizers \ {Own}, "idle")

\* An answer that is lost ends the reconcile like an error.
AddFinalizer(p, answered) ==
  /\ step[p] = "adding"
  /\ Patch(p, seen[p].finalizers \cup {Own}, IF answered THEN "reconciling" ELSE "idle")

\* The patch is refused, or does not reach the API server.
PatchFails(p) ==
  /\ step[p] \in {"removing", "adding"}
  /\ StepTo(p, "idle") /\ UNCHANGED <<object, cleaned, made>>

\* A reconcile makes something, at any moment until it ends or is dropped.
Creates(p) ==
  /\ step[p] = "reconciling" /\ p \notin created
  /\ created' = created \cup {p}
  /\ UNCHANGED <<object, leads, cache, step, seen, cleaned, overtaken>>

ReconcileEnds(p) ==
  /\ step[p] = "reconciling"
  /\ StepTo(p, "idle") /\ UNCHANGED <<object, cleaned, made>>

-----------------------------------------------------------------------------

Controller(p) ==
  \/ Lead(p) \/ Lose(p) \/ Observe(p) \/ Begin(p)
  \/ CleanupSucceeds(p) \/ CleanupFails(p)
  \/ RemoveFinalizer(p) \/ \E answered \in BOOLEAN : AddFinalizer(p, answered)
  \/ PatchFails(p) \/ Creates(p) \/ ReconcileEnds(p)

ObjectNext ==
  \/ Delete
  \/ \E f \in Others : OtherAdds(f) \/ OtherRemoves(f)
  \/ \E p \in Reconcilers : Controller(p)

ObjectSpec == ObjectInit /\ [][ObjectNext]_objectVars

\* A controller sees what changes and reconciles it, its calls return, and neither
\* cleanup nor the patch fails for ever; the others let go of a deleted object.
ObjectFairness ==
  /\ \A f \in Others : SF_objectVars(object # Gone /\ object.deleting /\ OtherRemoves(f))
  /\ \A p \in Reconcilers :
       /\ SF_objectVars(Observe(p)) /\ WF_objectVars(Begin(p))
       /\ WF_objectVars(CleanupSucceeds(p) \/ CleanupFails(p)) /\ SF_objectVars(CleanupSucceeds(p))
       /\ WF_objectVars(RemoveFinalizer(p) \/ PatchFails(p)) /\ SF_objectVars(RemoveFinalizer(p))
       /\ WF_objectVars(AddFinalizer(p, TRUE) \/ PatchFails(p)) /\ WF_objectVars(ReconcileEnds(p))

FairObjectSpec == ObjectSpec /\ ObjectFairness

-----------------------------------------------------------------------------
(* Properties *)

ObjectTypeOK ==
  /\ object \in Objects \cup {Gone}
  /\ leads \in [Reconcilers -> BOOLEAN]
  /\ cache \in [Reconcilers -> Objects \cup {Gone}]
  /\ step \in [Reconcilers -> Steps]
  /\ seen \in [Reconcilers -> Objects \cup {Gone}]
  /\ \A p \in Reconcilers : seen[p] = Gone <=> step[p] = "idle"
  /\ cleaned \in BOOLEAN
  /\ created \subseteq Reconcilers /\ overtaken \subseteq Reconcilers

\* The finalizer leaves the object only after a cleanup that succeeded, whatever
\* fails, is cancelled or overlaps, and whoever patches from an old copy
\* (reconcile_with_finalizer).
LetGoOnlyCleaned ==
  [][object # Gone /\ Own \in object.finalizers =>
       \/ cleaned
       \/ object' # Gone /\ Own \in object'.finalizers]_objectVars

\* When the object is gone, nothing is left of what its reconciles made, through
\* failed cleanups, lost patches and changes of leader: a cleanup that succeeded came
\* after it.  The exception is a pod whose term overlapped: it held a copy from before
\* the deletion when another pod began to clean up (reconcile_with_finalizer).
NothingLeftBehind == object = Gone => created \subseteq overtaken

\* The controller that leads brings the deletion of an object to its end.
DeletionEnds ==
  (\E p \in Reconcilers : <>[]leads[p]) =>
    (object # Gone /\ object.deleting) ~> object = Gone

\* The finalizers of other controllers are theirs alone (add_finalizer: the operator
\* exclusively owns its finalizer field).
OthersKept ==
  [][\A p \in Reconcilers : \A answered \in BOOLEAN :
       RemoveFinalizer(p) \/ AddFinalizer(p, answered) =>
         object' = Gone \/ object'.finalizers \ {Own} = object.finalizers \ {Own}]_objectVars

=============================================================================
