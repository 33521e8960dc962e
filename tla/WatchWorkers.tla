---------------------------- MODULE WatchWorkers ----------------------------
(***************************************************************************)
(* The two workers that keep a local view of something others write: the   *)
(* KV worker (run_kv_worker, crates/flatbed/src/kv.rs), whose watch shows  *)
(* only what changes while it is open, and the Kubernetes watcher          *)
(* (run_kube_watcher, crates/flatbed/src/k8s.rs), whose watch begins with  *)
(* a list and which may be gated by leadership.  A behaviour runs one of   *)
(* them.                                                                   *)
(*                                                                         *)
(* What the application does in its callbacks is the simplest thing the    *)
(* traits' documentation describes: on_put and on_delete change one entry, *)
(* and a watcher fills a buffer between Init and InitDone.                 *)
(***************************************************************************)
EXTENDS Naturals, Sequences, FiniteSets, SequencesExt

CONSTANTS
  Keys,
  Values,
  Garbled,     \* the values that parse_value rejects
  None,
  MaxWrites    \* bound: writes to the store

ASSUME WatchAssumption ==
  /\ IsFiniteSet(Keys) /\ Garbled \subseteq Values
  /\ None \notin Values /\ None \notin Keys /\ MaxWrites \in Nat

VARIABLES
  kind,    \* which worker runs: kv, or kube with or without the leader's gate
  store,   \* the bucket, or the objects of the API server
  writes,
  leader,  \* the is_leader watch of the pod
  closed,  \* the watch has lost its sender
  at,      \* where the worker is
  queue,   \* events the watch has delivered and the worker has not taken
  view,    \* what the worker's callbacks have built
  burst,   \* kube: what the callbacks have buffered since the last Init
  stale    \* keys whose last change the watch will never show, or not readably

vars == <<kind, store, writes, leader, closed, at, queue, view, burst, stale>>

Kube == kind # "kv"
Gated == kind = "kube gated"

Nothing == [k \in Keys |-> None]
Entries == [Keys -> Values \cup {None}]

Event(op, k, v) == [op |-> op, key |-> k, value |-> v]
Mark(op) == Event(op, None, None)

Init ==
  /\ kind \in {"kv", "kube", "kube gated"}
  /\ store \in {Nothing} \cup [Keys -> Values \ Garbled]
  /\ writes = 0 /\ leader = FALSE /\ closed = FALSE
  /\ at = IF kind = "kv" THEN "lookup" ELSE IF Gated THEN "waiting" ELSE "open"
  /\ queue = <<>> /\ view = Nothing /\ burst = Nothing
  /\ stale = {k \in Keys : store[k] # None}

-----------------------------------------------------------------------------
(* Those who write *)

Watching == at = "watching"

Write(k, v, op) ==
  /\ writes < MaxWrites
  /\ store' = [store EXCEPT ![k] = v] /\ writes' = writes + 1
  /\ queue' = IF Watching THEN Append(queue, Event(op, k, v)) ELSE queue
  /\ stale' = IF Watching /\ v \notin Garbled THEN stale \ {k} ELSE stale \cup {k}
  /\ UNCHANGED <<kind, leader, closed, at, view, burst>>

Writes ==
  \E k \in Keys :
    \/ \E v \in Values :
         IF Kube THEN v \notin Garbled /\ Write(k, v, "Apply") ELSE Write(k, v, "Put")
    \/ \E op \in IF Kube THEN {"Delete"} ELSE {"Delete", "Purge"} :
         store[k] # None /\ Write(k, None, op)

-----------------------------------------------------------------------------
(* KvWorker *)

Goes(place) ==
  /\ at' = place /\ UNCHANGED <<kind, store, writes, leader, closed, view, burst>>

\* `get_key_value` finds the bucket; while it does not, the worker tries again.
LookupBucket ==
  /\ at = "lookup" /\ ~Kube
  /\ Goes("open") /\ UNCHANGED <<queue, stale>>

\* `watch_cycle`: watch_all opens, or fails and the cycle returns after a pause.
OpenWatch ==
  /\ at = "open" /\ ~Kube
  /\ \E place \in {"watching", "lookup"} : Goes(place)
  /\ UNCHANGED <<queue, stale>>

\* An entry error, or the end of the stream: what was under way is lost.
WatchEnds ==
  /\ Watching /\ ~Kube
  /\ Goes("lookup")
  /\ queue' = <<>>
  /\ stale' = stale \cup {queue[i].key : i \in DOMAIN queue}

\* Mutant: a purge is no delete.
MapDeleteOnly(event) ==
  CASE event.op = "Put" -> "Put"
    [] event.op = "Delete" -> "Delete"
    [] OTHER -> "Other"

\* `map_operation`: Delete and Purge collapse.
MapOperation(event) == IF event.op = "Put" THEN "Put" ELSE "Delete"

\* `dispatch_event`: on_put or on_delete; a value that does not parse is skipped.
Entry(event) ==
  CASE MapOperation(event) = "Delete" -> [view EXCEPT ![event.key] = None]
    [] MapOperation(event) = "Put" /\ event.value \notin Garbled ->
         [view EXCEPT ![event.key] = event.value]
    [] OTHER -> view

DispatchEntry ==
  /\ Watching /\ ~Kube /\ queue # <<>>
  /\ view' = Entry(Head(queue))
  /\ queue' = Tail(queue)
  /\ UNCHANGED <<kind, store, writes, leader, closed, at, burst, stale>>

-----------------------------------------------------------------------------
(* KubeWatcher *)

\* What kube's watcher yields when it lists anew.
Relist ==
  <<Mark("Init")>>
    \o [i \in 1..Cardinality({k \in Keys : store[k] # None}) |->
          LET k == SetToSeq({j \in Keys : store[j] # None})[i] IN
          Event("InitApply", k, store[k])]
    \o <<Mark("InitDone")>>

ElectionChanges ==
  /\ Gated /\ ~closed
  /\ \/ leader' = ~leader /\ UNCHANGED closed
     \/ closed' = TRUE /\ UNCHANGED leader
  /\ UNCHANGED <<kind, store, writes, at, queue, view, burst, stale>>

\* `wait_for_leadership`: the value first, then the closed channel, which ends the
\* worker.
WaitForLeadership ==
  /\ at = "waiting"
  /\ \/ leader /\ Goes("open")
     \/ ~leader /\ closed /\ Goes("ended")
  /\ UNCHANGED <<queue, stale>>

\* `drive_kube_watcher` opens a watch of its own.
OpenList ==
  /\ at = "open" /\ Kube
  /\ Goes("watching")
  /\ queue' = Relist
  /\ UNCHANGED stale

\* The watch has failed: its error is an event, and kube's watcher lists anew.
WatchErrs ==
  /\ Watching /\ Kube
  /\ queue' = <<Mark("Err")>> \o Relist
  /\ UNCHANGED <<kind, store, writes, leader, closed, at, view, burst, stale>>

\* Mutant: a burst begins without on_init.
OnInitIgnored(event) ==
  CASE event.op = "InitApply" -> [burst EXCEPT ![event.key] = event.value]
    [] OTHER -> burst

\* on_init empties the buffer, on_init_apply fills it.
OnInit(event) ==
  CASE event.op = "Init" -> Nothing
    [] event.op = "InitApply" -> [burst EXCEPT ![event.key] = event.value]
    [] OTHER -> burst

\* `dispatch_kube_event`: every kind of event has its callback, an error has none.
DispatchKubeEvent ==
  /\ Watching /\ Kube /\ queue # <<>>
  /\ LET event == Head(queue) IN
       /\ burst' = OnInit(event)
       /\ view' = CASE event.op = "InitDone" -> burst
                    [] event.op \in {"Apply", "Delete"} ->
                         [view EXCEPT ![event.key] = event.value]
                    [] OTHER -> view
  /\ queue' = Tail(queue)
  /\ UNCHANGED <<kind, store, writes, leader, closed, at, stale>>

\* The stream has ended, or leadership or its channel is lost: the watch is dropped as
\* it is.
StreamReturns ==
  /\ Watching /\ Kube
  /\ Goes(IF Gated THEN "waiting" ELSE "open")
  /\ queue' = <<>> /\ UNCHANGED stale

LossNoticed ==
  /\ Gated /\ at \in {"open", "watching"} /\ (~leader \/ closed)
  /\ Goes("waiting")
  /\ queue' = <<>> /\ UNCHANGED stale

-----------------------------------------------------------------------------

KvWorker == LookupBucket \/ OpenWatch \/ WatchEnds \/ DispatchEntry

KubeWatcher ==
  \/ WaitForLeadership \/ OpenList \/ WatchErrs \/ DispatchKubeEvent
  \/ StreamReturns \/ LossNoticed

Next == Writes \/ ElectionChanges \/ KvWorker \/ KubeWatcher

Spec == Init /\ [][Next]_vars

-----------------------------------------------------------------------------
(* Properties *)

TypeOK ==
  /\ kind \in {"kv", "kube", "kube gated"}
  /\ store \in Entries /\ writes \in 0..MaxWrites /\ leader \in BOOLEAN
  /\ closed \in BOOLEAN /\ at \in {"lookup", "waiting", "open", "watching", "ended"}
  /\ \A i \in DOMAIN queue : queue[i].key \in Keys \cup {None}
  /\ view \in Entries /\ burst \in Entries
  /\ \A k \in Keys : view[k] \notin Garbled /\ burst[k] \notin Garbled
  /\ stale \subseteq Keys

Underway(k) == \E i \in DOMAIN queue : queue[i].key = k

\* The view of a key is the bucket's entry, unless its last change fell into a time
\* without an open watch, was lost with one, or did not parse: no reopening, purge or
\* skipped entry disturbs a key whose changes the watch has shown
\* (watch_cycle, dispatch_event).
KvViewIsStore ==
  \A k \in Keys : ~Kube /\ k \notin stale /\ ~Underway(k) => view[k] = store[k]

\* Once a watcher has taken what its watch has delivered, its view is what the API
\* server holds, with the deletes that fell between two watches and whatever burst
\* was cut short (dispatch_kube_event, on_init, on_init_done).
KubeViewIsStore == Kube /\ Watching /\ queue = <<>> => view = store

=============================================================================
