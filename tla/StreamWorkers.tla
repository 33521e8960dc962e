---------------------------- MODULE StreamWorkers ----------------------------
(***************************************************************************)
(* The pods of one service that share a JetStream stream: on every pod a   *)
(* reconciler (run_kube_reconciler, crates/flatbed/src/k8s.rs) that runs   *)
(* while the pod leads, creates the stream and publishes tasks, and a      *)
(* stream worker (run_stream_worker, crates/flatbed/src/nats.rs) that      *)
(* consumes them while the pod follows, through one durable consumer.      *)
(* Each loop watches the election through a receiver of its own.           *)
(*                                                                         *)
(* The election and the broker are external: the watch shows any value,    *)
(* its sender may be dropped, a message that was delivered and not         *)
(* acknowledged is delivered again.  The broker is reachable and keeps its *)
(* stream; the handler decides what becomes of a message.                  *)
(***************************************************************************)
EXTENDS FiniteSets

CONSTANTS
  Pods,
  Messages,
  Closing,  \* pods whose election may drop its sender
  None

ASSUME StreamAssumption ==
  /\ Closing \subseteq Pods
  /\ None \notin Messages

VARIABLES
  ha,      \* HasLeaderElection::ha_enabled
  bad,     \* the messages that parse_message rejects
  leader,  \* the pods whose is_leader watch holds true
  closed,  \* the pods whose watch has lost its sender
  stream,  \* the stream exists
  msg,     \* per message: unsent, ready for delivery, out, or gone
  at,      \* per pod: where run_stream_worker is
  buffer,  \* per pod: messages delivered and not yet taken
  hand,    \* per pod: the message being handled or acknowledged
  rat,     \* per pod: where run_kube_reconciler is
  done     \* messages a handler has said Ack or Skip to

election == <<ha, bad, leader, closed>>
worker == <<at, buffer, hand>>
vars == <<election, stream, msg, worker, rat, done>>

-----------------------------------------------------------------------------

Consuming == {"next", "handling", "acking"}
Following == {"stream", "create"} \cup Consuming
WorkerPlaces == {"waiting", "ended", "failed"} \cup Following
ReconcilerPlaces == {"waiting", "creating", "running", "ended"}

\* Without leader election every pod is its own leader, and stays it.
Init ==
  /\ ha \in BOOLEAN /\ bad \in SUBSET Messages
  /\ leader = IF ha THEN {} ELSE Pods
  /\ closed = {}
  /\ stream = FALSE
  /\ msg = [m \in Messages |-> "unsent"]
  /\ at = [p \in Pods |-> IF ha THEN "waiting" ELSE "stream"]
  /\ buffer = [p \in Pods |-> {}]
  /\ hand = [p \in Pods |-> None]
  /\ rat = [p \in Pods |-> "waiting"]
  /\ done = {}

Goes(p, place) == at' = [at EXCEPT ![p] = place]

-----------------------------------------------------------------------------
(* The election *)

Elect(p) ==
  /\ ha /\ p \notin closed
  /\ leader' = IF p \in leader THEN leader \ {p} ELSE leader \cup {p}
  /\ UNCHANGED <<ha, bad, closed, stream, msg, worker, rat, done>>

Close(p) ==
  /\ ha /\ p \in Closing \ closed
  /\ closed' = closed \cup {p}
  /\ UNCHANGED <<ha, bad, leader, stream, msg, worker, rat, done>>

-----------------------------------------------------------------------------
(* The reconciler of a pod *)

ReconcilerGoes(p, place) ==
  /\ rat' = [rat EXCEPT ![p] = place]
  /\ UNCHANGED <<election, msg, worker, done>>

\* `wait_for_leadership`: the value first, then the closed channel.
WaitForLeadership(p) ==
  /\ rat[p] = "waiting"
  /\ \/ p \in leader /\ ReconcilerGoes(p, "creating")
     \/ p \notin leader /\ p \in closed /\ ReconcilerGoes(p, "ended")
  /\ UNCHANGED stream

\* `get_or_create_stream`; a loss of leadership does not cancel it.
CreateStream(p) ==
  /\ rat[p] = "creating"
  /\ stream' = TRUE
  /\ ReconcilerGoes(p, "running")

\* A reconcile of the application publishes a task.
Publish(p, m) ==
  /\ rat[p] = "running" /\ msg[m] = "unsent"
  /\ msg' = [msg EXCEPT ![m] = "ready"]
  /\ UNCHANGED <<election, stream, worker, rat, done>>

\* The select ends: the controller has ended, or leadership or its channel is lost.
ControllerEnds(p) ==
  /\ rat[p] = "running"
  /\ ReconcilerGoes(p, "waiting") /\ UNCHANGED stream

LeadershipLost(p) ==
  /\ rat[p] = "running" /\ (p \notin leader \/ p \in closed)
  /\ ReconcilerGoes(p, "waiting") /\ UNCHANGED stream

-----------------------------------------------------------------------------
(* The stream worker of a pod *)

WorkerOnly(p) == UNCHANGED <<election, stream, rat, done>>

\* Mutant: a pod that leads consumes as well.
WaitForNothing(p) ==
  /\ at[p] = "waiting"
  /\ Goes(p, "stream")
  /\ UNCHANGED <<msg, buffer, hand>> /\ WorkerOnly(p)

\* Mutant: a closed channel is waited on.
WaitThroughClose(p) ==
  /\ at[p] = "waiting" /\ p \notin leader
  /\ Goes(p, "stream")
  /\ UNCHANGED <<msg, buffer, hand>> /\ WorkerOnly(p)

\* `wait_for_follower`.
WaitForFollower(p) ==
  /\ at[p] = "waiting"
  /\ \/ p \notin leader /\ Goes(p, "stream")
     \/ p \in leader /\ p \in closed /\ Goes(p, "ended")
  /\ UNCHANGED <<msg, buffer, hand>> /\ WorkerOnly(p)

\* Mutant: an error of get_stream ends the wait for the stream.
FindStreamOnce(p) ==
  /\ at[p] = "stream"
  /\ Goes(p, "create")
  /\ UNCHANGED <<msg, buffer, hand>> /\ WorkerOnly(p)

\* `consume_loop` polls until the stream exists.
FindStream(p) ==
  /\ at[p] = "stream" /\ stream
  /\ Goes(p, "create")
  /\ UNCHANGED <<msg, buffer, hand>> /\ WorkerOnly(p)

\* `create_consumer_on_stream` and `messages`.
CreateConsumer(p) ==
  /\ at[p] = "create"
  /\ Goes(p, IF stream THEN "next" ELSE "failed")
  /\ UNCHANGED <<msg, buffer, hand>> /\ WorkerOnly(p)

\* Mutant: a message that does not parse is skipped without acknowledgement.
TakeSkips(p) ==
  /\ at[p] = "next"
  /\ \E m \in buffer[p] :
       /\ buffer' = [buffer EXCEPT ![p] = @ \ {m}]
       /\ hand' = [hand EXCEPT ![p] = IF m \in bad THEN None ELSE m]
       /\ Goes(p, IF m \in bad THEN "next" ELSE "handling")
  /\ UNCHANGED msg /\ WorkerOnly(p)

\* A message that does not parse is acknowledged as it is.
Take(p) ==
  /\ at[p] = "next"
  /\ \E m \in buffer[p] :
       /\ hand' = [hand EXCEPT ![p] = m]
       /\ buffer' = [buffer EXCEPT ![p] = @ \ {m}]
       /\ Goes(p, IF m \in bad THEN "acking" ELSE "handling")
  /\ UNCHANGED msg /\ WorkerOnly(p)

\* The handler returns Ack or Skip.
HandleEnds(p) ==
  /\ at[p] = "handling"
  /\ Goes(p, "acking")
  /\ done' = done \cup {hand[p]}
  /\ UNCHANGED <<election, stream, msg, buffer, hand, rat>>

\* Mutant: Retry acknowledges as well.
RetryAcks(p) ==
  /\ at[p] = "handling"
  /\ Goes(p, "acking")
  /\ UNCHANGED <<msg, buffer, hand>> /\ WorkerOnly(p)

\* The handler returns Retry: no acknowledgement.
HandleRetry(p) ==
  /\ at[p] = "handling"
  /\ Goes(p, "next")
  /\ hand' = [hand EXCEPT ![p] = None]
  /\ UNCHANGED <<msg, buffer>> /\ WorkerOnly(p)

\* The acknowledgement reaches the broker or is lost; the loop goes on.
Acked(p, reached) ==
  /\ at[p] = "acking"
  /\ msg' = IF reached THEN [msg EXCEPT ![hand[p]] = "gone"] ELSE msg
  /\ hand' = [hand EXCEPT ![p] = None]
  /\ Goes(p, "next")
  /\ UNCHANGED buffer /\ WorkerOnly(p)

\* A future that is dropped takes its messages along; nothing is acknowledged.
Cancel(p, place) ==
  /\ Goes(p, place)
  /\ hand' = [hand EXCEPT ![p] = None]
  /\ buffer' = [buffer EXCEPT ![p] = {}]
  /\ UNCHANGED msg /\ WorkerOnly(p)

\* `messages.next` returns None: a follower starts over, a standalone worker ends.
StreamEnds(p) ==
  /\ at[p] = "next" /\ buffer[p] = {}
  /\ Cancel(p, IF ha THEN "waiting" ELSE "ended")

\* The select drops consume_loop wherever it waits.
FollowerLost(p) ==
  /\ ha /\ at[p] \in Following /\ (p \in leader \/ p \in closed)
  /\ Cancel(p, "waiting")

-----------------------------------------------------------------------------
(* The broker *)

Deliver(p, m) ==
  /\ at[p] \in Consuming /\ msg[m] = "ready"
  /\ msg' = [msg EXCEPT ![m] = "out"]
  /\ buffer' = [buffer EXCEPT ![p] = @ \cup {m}]
  /\ UNCHANGED <<election, stream, at, hand, rat, done>>

\* No acknowledgement within the consumer's ack_wait.
Expire(m) ==
  /\ msg[m] = "out"
  /\ msg' = [msg EXCEPT ![m] = "ready"]
  /\ UNCHANGED <<election, stream, worker, rat, done>>

-----------------------------------------------------------------------------

Reconciler(p) ==
  \/ WaitForLeadership(p) \/ CreateStream(p) \/ ControllerEnds(p)
  \/ LeadershipLost(p) \/ \E m \in Messages : Publish(p, m)

Worker(p) ==
  \/ WaitForFollower(p) \/ FindStream(p) \/ CreateConsumer(p) \/ Take(p)
  \/ HandleEnds(p) \/ HandleRetry(p) \/ \E reached \in BOOLEAN : Acked(p, reached)
  \/ StreamEnds(p) \/ FollowerLost(p)

Next ==
  \/ \E p \in Pods :
       Elect(p) \/ Close(p) \/ Reconciler(p) \/ Worker(p)
       \/ \E m \in Messages : Deliver(p, m)
  \/ \E m \in Messages : Expire(m)

Spec == Init /\ [][Next]_vars

\* Every loop runs on: what it awaits and is there, it gets.  A handler does not
\* ask for retries for ever, an acknowledgement is not lost for ever, and the
\* broker delivers what is ready to a consumer that keeps pulling.
Fairness ==
  /\ \A p \in Pods :
       /\ WF_vars(WaitForLeadership(p)) /\ WF_vars(CreateStream(p))
       /\ WF_vars(LeadershipLost(p))
       /\ WF_vars(WaitForFollower(p)) /\ WF_vars(FindStream(p))
       /\ WF_vars(CreateConsumer(p)) /\ WF_vars(Take(p)) /\ WF_vars(FollowerLost(p))
       /\ SF_vars(HandleEnds(p)) /\ SF_vars(Acked(p, TRUE))
       /\ \A m \in Messages : SF_vars(Deliver(p, m))
  /\ \A m \in Messages : WF_vars(Expire(m))

FairSpec == Spec /\ Fairness

-----------------------------------------------------------------------------
(* Properties *)

TypeOK ==
  /\ ha \in BOOLEAN /\ bad \subseteq Messages /\ stream \in BOOLEAN
  /\ leader \subseteq Pods /\ closed \subseteq Closing
  /\ msg \in [Messages -> {"unsent", "ready", "out", "gone"}]
  /\ at \in [Pods -> WorkerPlaces]
  /\ buffer \in [Pods -> SUBSET Messages]
  /\ hand \in [Pods -> Messages \cup {None}]
  /\ \A p \in Pods : hand[p] # None <=> at[p] \in {"handling", "acking"}
  /\ rat \in [Pods -> ReconcilerPlaces]
  /\ done \subseteq Messages \ bad

\* A message leaves the stream only when a handler has said Ack or Skip to it or
\* it does not parse: no redelivery, cancellation or retry loses one (NatsResult,
\* consume_loop).
GoneIsDone == \A m \in Messages : msg[m] = "gone" => m \in done \cup bad

\* No worker fails because it started before the reconciler had created the stream
\* (consume_loop's wait).
WorkersOutwaitStream == \A p \in Pods : at[p] # "failed"

Able(p) == at[p] # "ended" /\ (ha => p \notin leader \cup closed)

\* As long as one pod stays a follower, and its stream does not end for ever, every
\* message published is handled and leaves the stream, whatever the other pods do
\* (run_stream_worker).
EventuallyHandled ==
  (\E p \in Pods : <>[]Able(p) /\ <>[][~StreamEnds(p)]_vars) =>
    \A m \in Messages : msg[m] = "ready" ~> msg[m] = "gone"

\* A pod that leads for good stops consuming, in the middle of a message if need be
\* (run_stream_worker, wait_for_follower_loss).
LeaderStopsConsuming ==
  \A p \in Pods : <>[](ha /\ p \in leader) => <>[](at[p] \notin Consuming)

\* A pod whose election is gone does not go on as if nothing had happened: the loop
\* that waits for the value the watch will never show again returns, and its
\* supervisor sees it (wait_for_leadership, wait_for_follower).
ClosedElectionEndsLoop ==
  \A p \in Pods : p \in closed ~> (at[p] = "ended" \/ rat[p] = "ended")

=============================================================================
