# flatbed: specifications, model checking and proofs

Flatbed is a Rust runtime for services: HTTP and NATS routes with FlatBuffers
bodies, supervised background workers, and helpers for JetStream, KV buckets and
Kubernetes reconcilers. This directory holds TLA+ specifications of its run-time
logic, the TLC configurations that check them, and theorems that TLAPS checks.
Paths below are relative to `crates/flatbed/src/`.

## 1. Inventory

| Component | State | Operations | Talks to | Hard behaviour | What makes it correct |
|---|---|---|---|---|---|
| Local queue worker, `local_queue.rs` | a mutex over the line, the message in hand, the dead letters; a `Notify` | `send`, `requeue`, `forget`, `status`; executor `serve`, `handle_messages`, `attempt`, `dead_letter` | producers through a shared sender; the `is_leader` watch; the supervisor restarts it | resends during handling, wake-ups, cancellation at any await, restarts, limits | a key has one place; capacity; true counts; no lost wake-up; order; an ended term leaves nothing |
| Readiness gates, `readiness.rs` | a locked list of gates, a flag per gate, one atomic count | `gate`, `set_ready`, `is_ready`, `blocked_on` | connector and application set; every request reads | clones flip one gate at once; the count lags the flags | the count is exact; ready only when all gates are |
| HTTP service, `hyper/service.rs` | watches for health and boot, the context | `dispatch`, `is_ready`, `blocked_gates`, probes | readiness, supervisor states, router, route wrappers | two readings of readiness in one answer; errors that cross services | an answer names the true reason; an error is answered and reported once |
| Worker supervision, `supervisor.rs` | a state per worker, an attempt count, the health and shutdown watches | `supervise`, `run_once`, `terminate`, `fail` | spawned at boot; raises shutdown; its states are shown by `/healthz` and read by the drains | exit against shutdown, restart bound, back-off cut by shutdown | a worker that ends for good is never hidden; a policy grants exactly its restarts |
| Process life cycle, `lib.rs` (`Flatbed::run`), `hyper/server.rs`, `hyper/shutdown.rs` | boot latch, health, shutdown watch, context | boot, accept, drain, flush, exit | all of the above | SIGTERM during boot, requests in flight, drain budget | workers see a stored context; every started worker is drained; the process ends |
| NATS connector, `nats_connect.rs` | attempts, deadline, optional gate | `connect_with_retry`, event callback, `backoff` | broker, readiness gate | event order against `mark_connected`, deadline | the gate follows the connection; never past the deadline |
| Stream worker, `nats.rs` | the durable consumer's pending messages | `consume_loop`, `run_stream_worker` | JetStream, election | redelivery, lost acks, cancelled handlers | every message handled at least once, by followers only |
| KV worker, `kv.rs` | an open watch | `run_kv_worker`, `watch_cycle` | KV bucket | reopening, events in the gap | what the worker believes against the bucket |
| Reconcilers, finalizers, watcher, `k8s.rs` | cached objects, finalizer lists | `reconcile_with_finalizer`, `add_finalizer`, `remove_finalizer`, `run_kube_*` | API server, election | stale caches, merge patches, partial failure | cleanup before the finalizer goes; others' finalizers stay |
| NATS routes and requests, `nats_route.rs`, `nats_request.rs` | subscriptions, one task per message | `dispatch`, `typed_request`, `find_conflict` | broker | overlapping wildcards, replies at shutdown | each subject has one responder |
| Pagination, `pagination.rs` | none (signed cursors) | `page`, `mint`, `open` | a list that changes | walking back and forth, empty pages | pages cover the list once |
| Router and static files, `hyper/router.rs`, `hyper/static_files.rs` | a trie | `add_route`, `match_route`, `serve` | dispatch | greedy static match | agreement with the declared paths |

Left out: telemetry, OpenAPI documents, the generation of code by macros and by
`crates/flatbed_build`, the TypeScript client, examples, scripts and generated code
(section 9). `PROJECT.json` lists them with their reasons, and the hazards found in
the survey at their lines, those still without a property too.

## 2. Modules

| Modules | Model | Proofs | Section |
|---|---|---|---|
| `KeyedLine`, `KeyLifecycle`, `LocalQueue` | the local queue worker, and what `status` promises of a key | `LocalQueueProof` | 3 |
| `Readiness` | gates, their count and the answers built on it | `ReadinessProof` | 4 |
| `Supervisor`, `Lifecycle` | supervision, composed with `Flatbed::run` and the server | `LifecycleProof` | 5 |
| `Connector` | the NATS connector, which drives a gate of `Readiness` (INSTANCE) | `ConnectorProof` | 6.1 |
| `StreamWorkers` | pods with reconcilers and stream workers around one stream | `PodsProof` | 6.2 |
| `WatchWorkers` | the KV worker and the Kubernetes watcher | `WatchWorkersProof` | 6.3 |
| `Finalizers` | an object under several reconcilers | `PodsProof` | 6.4 |
| `Router`, `Pager`, `Serving` | routes, files and paginated lists from the client's side | `ServingProof` | 6.5 |
| `Exchange` | an HTTP request that asks over NATS | `ExchangeProof` | 6.6 |

`MC...` modules give TLC its instances. There is one run for each component, but for
two counterexamples (section 7) and the queue, whose liveness needs an instance of its
own. Properties are stated where several steps of several actors can break them; the
type invariants are stated and proved.

A next step would be time as a budget in `Lifecycle` (drains, flush and epilogue
against the shutdown timeout), the readiness of several replicas, and the parameters
of NATS subjects.

## 3. The local queue worker

### Modules

- `KeyedLine`: searching and editing a `VecDeque` of records with keys.
- `LocalQueue`: the component.
- `KeyLifecycle`: the abstract specification, what `status` tells of each key.
- `MCLocalQueue`: instances for TLC.
- `LocalQueueProof`: proofs.

### State and steps

| Specification | Code |
|---|---|
| `queued`, `inFlight`, `dead` | `State`, under one mutex; a critical section is one step |
| `permit` | the permit stored in the `Notify` |
| `prod[p] = "notify"` | a producer between unlocking and `notify_one` |
| `pc` | where the executor stands; `AwaitPoints` are the places where `select!` may drop it |
| `msg` | the copy `handle_messages` keeps while `handle` runs |
| `crashes`, `pc = "down"` | the worker's task unwound, and the supervisor has not restarted it yet |
| `ha`, `leader`, `chanOpen` | `ha_enabled()`, the value of the watch, whether its sender lives |
| `runs` | history: runs of `handle` for a key since its count was cleared |

`Send`, `Requeue`, `Forget` and `Notify` are the producers'. `Serve`,
`SeesLeadership`, `ServeReturns` and `LossNoticed` are `serve`; `PauseEnds` ends
`SETTLE` and `RETRY_DELAY`; `Take`, `FindsNothing` and `Listen` are `next`;
`HandleDone`, `HandleRetry`, `HandleExhausted`, `HandleFailed` and
`HandleTimedOut` are the outcomes of `attempt` with the call that follows each;
`HookEnds` ends `dead_letter`. `WorkerUnwinds` is the panic that `catch_unwind`
does not cover. A send refused changes nothing, and so does a coalesced one.
Without the `k8s` feature the code is the one with `ha = FALSE`.

Time is abstracted: a pause may end at any moment, and a handler may end, fail or
run into its timeout at any moment. Reasons are abstracted to the outcome that
left them. Payloads are values that only `LineKept` tells apart.

### Runs

- `local_queue_safety`: three keys, two payloads, two producers, capacity 2, two
  dead letters, two attempts, one restart, both modes. Three keys fill the queue
  and both dead letters and still leave one to evict or refuse; two producers
  interleave push and notification; two attempts reach the limit by way of a
  retry. Keys, payloads and producers are symmetric.
- `local_queue_liveness`: two keys, one producer, no limit on attempts, and a
  largest count of 2, so that counts saturate. No symmetry.
- `local_queue_panic`: a counterexample, section 7.

`MaxCrashes` bounds the restarts; the count of attempts needs no bound since the
code saturates it (`MaxU32` stands for 2^32 - 1); every queue is bounded by the
code. Two senders of different workers share nothing, so one queue is enough.

### Fairness

`WF(Executor)`: the runtime polls a task that can run, and `handle` and the hook
return or run into `HANDLE_TIMEOUT` (a worker without a timeout must return from
`handle` by itself: with an endless handler nothing is promised). It includes
`Serve` after an unwinding: liveness is stated for a worker whose restart policy
allows one restart. `SF(LossNoticed)`: the `select!` polls the loss branch
whenever the task is woken, so a lasting loss is seen although `handle_messages`
keeps leaving and reaching await points. `WF(Notify(p))`: a producer that has
pushed goes on to `notify_one`. Nothing is assumed of the election or of sends.

## 4. Readiness

`Readiness` has one action per atomic operation: `Count` and `List` register a
gate, `SetReady` is the swap, `Correct` the `fetch_add` or `fetch_sub` that an owner
still owes (`flip`), and a request goes through `ReadLatch`, `ReadCount`,
`ReadLatchAgain`, one `ReadGate` per gate under the registry's lock, and `Answer`.
`Holds` says which owners have a clone of which gate. `Modulus` stands for 2^64 and
must exceed the gates and owners together, as it does in any process. Atomics are
taken as sequentially consistent: each value is one location read and written by
`AcqRel` operations, and the properties relate the count to the flips under way,
which every interleaving of the steps includes.

- `readiness`: three owners, one gate that all of them hold a clone of, two gates with
  one owner each, and one request. Three clones are enough for a flip to overtake two
  others; the gates with one owner are those that a clone's late correction can hide.
  `HiddenOnlyByClones` says that nothing else can: with one owner for every gate, the
  use the documentation shows, a gate that is down and at rest always keeps the server
  from being ready. `RecoveryShows` rests on fair corrections (`WF(Correct)`: a thread
  inside `set_ready` finishes it); the count alone decides it, and it comes back to 0
  only if no flip is lost or counted twice.

## 5. Supervision and the life of the process

`Supervisor` holds what the supervisors share (`states`, the health and shutdown
watches) and, per worker, where `supervise` stands (`sup`), its `attempt` and the
`exit` it is judging. Its actions are the stretches between two points where another
task may act: `Check`, `Start`, `Ends` (the worker's own end, in any of three ways),
the four ways to judge an exit, the back-off's two ends, and the three steps of
`fail`, which are separate because health and shutdown are separate watches. The
worker is restarted although the shutdown has begun when the `select!` finds both the
sleep and the change ready. `Lifecycle` extends it with `main` (`Flatbed::run`),
`server` (`serve`), `spawner` (the task that waits for the latch) and one connection
state per client; each step of a supervisor leaves these unchanged, and the others
touch the supervisors only to spawn them, to mark the process alive and to signal.

Time is left out: that a run outlasted the policy's cap, that a back-off ends, that
drains end or exhaust their budget are choices. The error reporter's calls are
assumed to return; a reporter that panics inside `terminate` would leave a dead worker
that looks alive, which no document addresses. An error of `accept` ends `serve` at
once.

- `lifecycle`: `w1` may be restarted once, `w2` has no policy, `w3`'s policy allows
  the largest u32 (here 2), so that the saturated count is reached; one connection;
  a check that accepts, rejects or panics. 290 000 states, under two minutes.
  `DeadIsVisible`, `RestartsExact` and `DrainsReachWorkers` are safety, with
  `restarts` as the only history. `DrainsReachWorkers` speaks of a shutdown that runs
  drains: one that comes before the context is stored skips them, and workers that
  the boot function's late return still starts are never drained.

Fairness: `run`, `serve`, the spawning task and each supervisor are tasks the runtime
polls, and every wait of the shutdown has a timeout, hence weak fairness on each. None
is assumed of the boot function, of workers, requests, `accept` or signals. So
`WorkersStart` and `LoudFailureEnds` say what the runtime does by itself, and
`ShutdownEnds` has to except a boot function that never returns: SIGTERM during boot
is answered only after it. No deadlock is checked, since the process ends.

## 6. The other workers, and requests

### 6.1 Connector

`at` is where `connect_with_retry` stands, `clock` its `elapsed`, `due` the end of
what it awaits; the attempt's cut is the smaller of its timeout and what is left.
`Tick` may pass a timer that is due by nothing, as tokio's timers are taken to be
exact, and may delay the head of the loop. An attempt fails at any time before its
cut, with one of two errors. The pause is any value `backoff` can return. The client
sends its events to `inbox`, and its task handles them one at a time: `HandleEvent` is
the swap and `EventCounted` the correction, both of `Readiness`, as are `Mark` and
`MarkCounted` of the task that boots. `Application` holds a second gate and flips it.

- `connector`: a deadline of 8 units, attempts of 2, pauses of 1 to 3, so that a
  deadline cuts an attempt, forbids a pause and is met at the loop's head; three
  changes of the link, so that it may come back. 1.6 million states, half a minute.
  `GateTellsLink` states the order in which the gate does not follow the link (section
  7); `ImplementsReadiness` is the refinement, by which `CountExact` and
  `HiddenOnlyByClones` hold here as well.

### 6.2 Stream workers

Each pod has `rat`, where `run_kube_reconciler` is, and `at`, where
`run_stream_worker` is; both read the same watch (`leader`, `closed`) through receivers
of their own, so they see a change at different times. `msg` is the broker's state of
a message, `buffer` and `hand` the pod's. A future dropped by `select!` takes buffer
and hand along. The broker keeps its stream; an application that deletes it is outside.

- `stream_workers`: two pods, one of which may lose its election, one message, with
  and without leader election. Messages do not interact: the broker and the loop treat
  each alone, so one is enough, while two pods are needed for redelivery from one to
  the other. `done` is the only history.

Fairness: every loop gets what it awaits and is there (weak); a handler does not ask
for retries for ever, an acknowledgement is not lost for ever and the broker delivers
to a consumer that keeps pulling (strong, as each of these is disabled now and then);
a message unacknowledged expires (weak). None of the election, the closing, the stream's end.
`EventuallyHandled` has the premise that one pod stays a follower.

### 6.3 Watches

`WatchWorkers` runs one of three workers, chosen by `kind`. `queue` is what the watch
has delivered; `stale` is the history of the keys whose last change the KV watch will
never show. The Kubernetes watch begins with a list (`Relist`), and begins one again
after an error. The callbacks build `view` in the simplest way their documentation
describes.

- `watch_workers`: two keys, so that a list has several entries to be cut between, a
  value that parses and one that does not, four writes: two while the watch is closed and
  two while it is open. A gated watcher whose election closes while it waits ends, so the
  run has no deadlock check. Safety only: a store that is written for ever need not be caught
  up with.

### 6.4 Finalizers

Each pod has its cache, and `seen`, the object its running reconcile was given. Terms
may overlap, since each pod reads a watch of its own. Between the reading and the patch
anything may change; a patch may be refused, lost, or applied with its answer lost.
Two histories are about what the application's `reconcile` makes elsewhere (child objects,
rows, tasks) and its `cleanup` undoes: `created`, the pods that have made something since
the last cleanup succeeded, and `overtaken`, the pods that held a copy from before the
deletion when another one began to clean up. `NothingLeftBehind` says that only the latter
leave anything behind; with terms that do not overlap nobody is overtaken. The other
controllers edit their own entries only: one that patched like this operator could take the
operator's finalizer away, the reverse of disagreement 2.

- `finalizers`: two pods and one other controller; 24 000 states. Two pods are enough
  for each pair of overlapping reconciles, and more than one other controller would do
  the same thing again. `ObjectFairness`: a leading controller observes and reconciles, and
  neither cleanup nor the patch fails for ever; others let go of a deleted object.
- `finalizers_others`: a counterexample, section 7.

### 6.5 Serving

`Router` and `Pager` are operators; `Serving` builds the trie route by route in any
order, dispatches, and lets clients walk lists behind one of the routes. A cursor is the
record of what its HMAC covers. A fetch takes rows by their rank, which is how many rows
that match lie nearer to the cursor on the same side of it.

- `serving`: two tables, with static and parameter children side by side, several
  methods, names that differ at one node and a root; paths that lead to each, with empty
  segments, dots and missing assets; a mount at a prefix and one at the root, each with a
  fallback, and under the root a prefix that gets none. Two callers, two lists, three rows,
  three filters, pages of one and two rows, two changes; a row whose key cannot be minted
  under one filter, and one whose cursor is longer than a cursor may be under another.
  Three rows in pages of one have a first, an inner and a last page. A page size of 0
  configured as default or maximum is excluded, as are services whose `fetch` breaks its
  contract. A failed fetch, a refusal or a page that cannot be minted leaves the client where it is.
  `AnswersDeclared` compares the trie with a definition that knows no order
  (`Reached`): the route, the 405 and its `allow`, the parameters, and which file of which
  mount is given. The parameters are exactly those of the path when no name stands at two
  depths (`NamesApart`); otherwise the last one of a name replaces those before, and all
  that holds is that each one given is of the path. `NothingMissed` and `PagesAdjoin`
  compare walks with the list.

### 6.6 Exchange

One HTTP request, whose handler asks on a subject and passes on the error it hears with
`?`. Every step of the way is one operator: the reply's headers (`ReplyOk`, `ReplyErr`,
`ToWire`), what the requester makes of them (`Rejection`, `Heard`) and the HTTP answer
(`ErrorAnswer`, `Wrapped`, `Dispatched`). A message has a detached task per subscription
it reached; replicas come and go, subscriptions end, replies are lost or late.

- `exchange`: six tables of routes, of which some overlap and are refused, two on one
  subject among them; two
  replicas; a client's error and a server's; handlers that set the framework's own
  headers; an error code no header can carry; two faults. One request is enough: tasks
  of different requests share only the subscriptions, which nothing a request does changes.
  Safety only: nothing promises that a handler ends, and the requester's timeout answers.

## 7. Disagreements found

With a run that shows them:

1. **A panic in the call of `handle` stops the worker** (`local_queue.rs:785`,
   `:809`). `AssertUnwindSafe(worker.handle(..)).catch_unwind()` evaluates the call
   first; only the returned future is guarded. The documentation says that a panic
   sets the message aside and never stops the worker. Run `local_queue_panic`.
2. **A finalizer patch takes other controllers' finalizers away** (`k8s.rs:371`). The
   merge patch replaces the whole list with that of an old copy; the comment says that
   the operator owns the field alone. Run `finalizers_others`.

Seen while modelling, in behaviours of the modules, without a run of their own:

3. **An ended term may outlive its leadership** (`local_queue.rs:728`). `clear`
   follows the `select!`; a worker that is down when leadership is lost restarts
   through `release_in_flight` only, and keeps the line and the dead letters, which
   local_queue.rs:57-59 says are discarded. `UnbrokenWorkerDiscards` is what does hold.
4. **Ready with a gate down** (`readiness.rs:130`). Two clones of one gate that flip
   it at once let the count drop to 0 for a moment although another gate is down;
   readiness.rs:7-8 promises otherwise. `HiddenOnlyByClones` bounds the case.
5. **BOOTING from a booted process** (`hyper/service.rs:199`). Readiness is read
   twice for one answer; a gate that comes back in between leaves the list of reasons
   empty, and hyper/service.rs:66-71 reads that as a boot that has not finished.
6. **The drain of a disabled worker may run** (`hyper/server.rs:216`). The drains ask
   for the state `Disabled`, which a supervisor sets only after it has evaluated
   `enabled`; a shutdown close to the end of the boot comes first. lib.rs:1871 says
   that neither the worker nor its drain ever starts.
7. **No time for requests in flight** (`hyper/server.rs:171`). Every connection is
   dropped when the shutdown begins; the epilogue (`:205`) waits for connections that
   are gone.
8. **Ready on a dead link** (`nats_connect.rs:300`). The mark of the task that boots
   may follow the event task's report of a disconnection. `GateTellsLink` states that
   this is the only such order.
9. **Redelivery against "exactly once"** (`kv.rs:5`). The comment ascribes
   exactly-once semantics to the stream worker; a lost acknowledgement or a cancelled
   handler brings a message again (`Expire`). It is at least once: `GoneIsDone`,
   `EventuallyHandled`.
10. **A closed election makes the other loop spin** (`k8s.rs:152`). A pod whose
    election ended while it followed has `run_stream_worker` go round, cancelling its
    consumer at once each time; one that led does the same with its controller.
    `ClosedElectionEndsLoop` is what does hold: one of its loops returns, and its
    supervisor sees it.
11. **A code or a message that no header carries** (`nats_route.rs:377`).
    `set_header` takes what is not ASCII and `to_nats_headers` drops it: an error whose
    code is such is read as a success or as a body that does not decode.
    `VerdictReaches` excepts it by name.
12. **A success with a 5xx status is not reported** (`hyper/service.rs:332`), although
    error_reporting.rs:48 speaks of "A route answered with a 5xx status"; only errors are.
13. **A timeout may hide a rejection** (`nats_route.rs:18`). The documentation says that
    a requester's timeout never means a rejection and that only a handler that never
    completes sends no reply; a reply may be lost, late, or die with its detached task.
14. **The name of a parameter depends on a hash map** (`hyper/router.rs:76`). Two routes
    that name one segment differently share the name of the first one added;
    `validate_routes` compares paths as texts and lets them pass, and one of two such
    routes of one method replaces the other.
15. **What an overtaken pod makes outlives the object** (`k8s.rs:480`). When terms overlap,
    one pod may clean up and let the object go while another begins or continues a
    `reconcile` of a copy from before the deletion; no cleanup sees what it makes then. The
    finalizer keeps the object, not the other pods, from going on. `NothingLeftBehind` bounds the case.
16. **A page may give a cursor it will not take** (`pagination.rs:290`). `mint` bounds the
    key alone, by 65535 bytes, `open` the whole cursor, by 4096 characters: a longer one is
    given as `next` and answered with `INVALID_CURSOR`, and the walk ends there.

## 8. Proofs

| Theorem | States, for all values of the constants | Module |
|---|---|---|
| `QueueInvariant` | the inductive invariant | `LocalQueueProof` |
| `TypeCorrect` | `TypeOK` | `LocalQueueProof` |
| `KeysHaveOnePlace` | `OnePlacePerKey` | `LocalQueueProof` |
| `CapacityHeld` | `WithinCapacity` | `LocalQueueProof` |
| `HandledStaysInHand` | `HandledIsInHand` | `LocalQueueProof` |
| `NoWakeupLost` | `NoLostWakeup` | `LocalQueueProof` |
| `QueueImplementsLifecycle` | `ImplementsLifecycle`, the refinement of `KeyLifecycle` | `LocalQueueProof` |
| `NobodyOvertakes` | `LineKept` | `LocalQueueProof` |
| `OldestIsEvicted` | `OldestEvictedFirst` | `LocalQueueProof` |
| `CountsAreTrue` | `AttemptsCounted` | `LocalQueueProof` |
| `AttemptsAreBounded` | `AttemptsBounded` | `LocalQueueProof` |
| `CountIsExact` | `CountExact` | `ReadinessProof` |
| `QuietCountIsExact` | the count with no correction owed | `ReadinessProof` |
| `OnlyClonesHide` | `HiddenOnlyByClones` | `ReadinessProof` |
| `TypeCorrect` | `TypeOK` | `LifecycleProof` |
| `NoDeadWorkerHidden` | `DeadIsVisible` | `LifecycleProof` |
| `PolicyIsExact` | `RestartsExact` | `LifecycleProof` |
| `StartedWorkersDrained` | `DrainsReachWorkers` | `LifecycleProof` |
| `DeadlineIsHard` | `WithinDeadline` | `ConnectorProof` |
| `SourceIsKept` | `SourceIsLastFinished` | `ConnectorProof` |
| `ConnectorImplementsReadiness` | `ImplementsReadiness` | `ConnectorProof` |
| `GateFollowsLink` | `GateTellsLink` | `ConnectorProof` |
| `NothingIsLost` | `GoneIsDone` | `PodsProof` |
| `StreamIsAwaited` | `WorkersOutwaitStream` | `PodsProof` |
| `KvViewFollows` | `KvViewIsStore` | `WatchWorkersProof` |
| `KubeViewFollows` | `KubeViewIsStore` | `WatchWorkersProof` |
| `NothingIsLeft` | `NothingLeftBehind` | `PodsProof` |
| `LetGoIsCleaned` | `LetGoOnlyCleaned` | `PodsProof` |
| `AnswersAreDeclared` | `AnswersDeclared` | `ServingProof` |
| `WalkMissesNothing` | `NothingMissed` | `ServingProof` |
| `CursorsAdjoin` | `PagesAdjoin` | `ServingProof` |
| `OneAnswers` | `OneResponder` | `ExchangeProof` |
| `VerdictIsRead` | `VerdictReaches` | `ExchangeProof` |
| `OneReport` | `ReportedOnce` | `ExchangeProof` |
| `WalksStayListed` | `TypeOK` of `Readiness` | `ReadinessProof` |
| `TypeCorrect` | `TypeOK` of `Connector` | `ConnectorProof` |
| `ObjectTypeCorrect` | `ObjectTypeOK` of `Finalizers` | `PodsProof` |
| `WorkersTypeCorrect` | `TypeOK` of `StreamWorkers` | `PodsProof` |
| `ViewsAreReadable` | `TypeOK` of `WatchWorkers` | `WatchWorkersProof` |

The first lemmas of `LocalQueueProof` say what removing, replacing, appending and
trimming do to a line with distinct keys, and each step of the queue is one of
them. `OnePlacePerKey` is inductive only together with the executor's position
(`HandledIsInHand`): a set-aside needs the key in hand to know that it is not
dead already. `WithinCapacity` counts the message in hand, which is why a retry
needs no room of its own. `NoLostWakeup` is not inductive: it is strengthened by
`WakeInv`, which also speaks of the moment between the look at an empty line and
the wait, when a notification already sent must have left the permit. The
counting theorems come last: they need the key-by-key relation of the line to the
history `runs`; `AttemptsBounded` adds to it that a key not in hand has an attempt
left (`BoundInv`), or a resend could exceed the limit.

The refinement needs `QueueInv`: with one place for each key, a step changes the status
of one key, and a message set aside changes at most two, its own and that of the oldest
letter, which is forgotten; that the forgotten one makes room needs the dead letters to
be as many as the keys whose status is dead, which distinct keys give. With a
`DEAD_LETTER_CAPACITY` of 0 a key set aside is forgotten at once. `LineKept` follows for
each edit of the line from where it moves the elements that stay, and
`OldestEvictedFirst` from what appending and trimming do.

For readiness, `CountExact` is inductive with the types and
with the finiteness of `Gates` and `Owners`; each step moves one gate or one owner
in or out of the sets counted, which are compared by their cardinalities.
`HiddenOnlyByClones` adds `FlipsStand`: a flip under way is of a counted gate, which
still has the value given if its owner is alone; then a count of 0 with a gate at rest
down leaves, among the corrections to come, one to add for a gate that is shared.

For the process, `SupervisorInv` ties the table of states, the health and the counts
to where each supervisor stands; a supervisor's step keeps it whatever the rest does
(`SupervisorStep`). `LifecycleInv` adds what the process owes: no supervisor before
the latch, the process marked alive before it (otherwise `MarkAlive` could hide a
failed worker), and workers left out of the drains disabled for good. `RestartsExact`
needs `attempt` to be ahead of the restarts by exactly the back-off under way.

For the connector, `OnTime` says that what is due is due by the deadline; it fails
when the timeout alone cuts an attempt. `SourceIsLastFinished` is inductive with the
count of attempts tied to what finished (an attempt under way is the one not yet in
`finished`) and `lastError` as its last failure. The refinement of `Readiness` needs no
invariant: each action is one of its actions or leaves its variables alone.
`GateTellsLink` is strengthened by `WordInv`, which says who spoke last and that it was
true then: the last event that waits tells the state of the link; when none waits, the
last one handled does, unless the mark came after it, and a mark leaves the gate up.

For the stream workers, `AckInv` says that whoever is about to acknowledge holds a
message that is done with or does not parse, which a cancellation must not disturb.
For the KV worker, `KvInv` says of each key outside `stale` that the last of its events
under way brings the bucket's entry, and that the view already has it when none is. For
the Kubernetes watcher, `KubeInv` says the same relative to what the view is going to be
(`Base`): nothing while the mark of a list is to come, the objects listed so far while
its end is, and the view afterwards. It needs lists to come whole and before any change
(`ListFirst`), which a watch that is cut short and opened again restores.

For finalizers, `HeldInv` is about old copies: whoever has seen the finalizer in place has
seen what holds until a cleanup has succeeded, and whoever removes it has cleaned up.
It holds for pods whose terms overlap, and needs of the API server that an object being
deleted takes no new finalizer.

`LeftInv` is about what reconciles make. Whoever holds a copy from before the deletion
when a cleanup begins is overtaken, and nobody comes by such a copy later, since the
object stays doomed. Until a cleanup has succeeded the finalizer holds what is made;
afterwards only an overtaken pod can make anything, which is the case of §7, item 15.
Both invariants take it that other controllers edit only their own entry (§6.4).

For routes, `TrieInv` relates the trie to the routes added so far, in whatever order: its
nodes are the prefixes of their patterns with the names of parameters forgotten, the
handlers are keyed by the end of a route and its method, and each name of a parameter is
one that some route gives that segment. A walk down the trie then stands at each depth on
the one node that lies on the path (`On`): where a static child and a parameter fork, the
static one is on it exactly if its text is the segment. So the walk ends at the leaf of a
route exactly if the route fits the path and no other shadows it, which is what `Reached`
says; `MatchIs` adds the parameters. For files, leaving out segments distributes over
concatenation (`WithoutConcat`), so a path under a mount is the mount's prefix followed by
the rest, both without empty segments and dots (`StripIs`), and a file's name is what is
left.

For lists, ranks number the rows beyond a cursor one by one (`RankIs`), so a fetch gives
those nearest to it (`FetchIs`), and a page is a stretch of the list with its cursors at
its ends and its `more` telling whether anything is left (`PageIs`). `WalkInv` says that a
walk has seen each lasting row between its start and the end of its page, and that what
it holds was a page of this list, caller and filter; rows that come and go
between two pages disturb it nowhere, since a cursor holds the key and not a position. It
needs the binding inside the cursor, which makes the cursors a walk holds its own.

For the exchange, `ServiceInv` says that routes which subscribe are pairwise apart, and
that what boot compares is enough: two patterns that match one subject overlap. So the
subscriptions that take one message are of one route and, with a queue group, of one
replica; `TaskInv` adds that a request is asked once. `ReplyInv` says that each reply is
what the wrapper makes of the verdict of a handler that ran, and that this side reports
an error of the server once and nothing else; `AnswerInv` says the same of the requester's
side, and that what a client was told is what some handler decided. Between them stand
lemmas about each conversion on the way: only the headers no wire can carry are left out
(`WireKeeps`), the framework's headers stand whatever the application's are (`ErrorOnWire`,
`SuccessOnWire`), and what the requester reads of them is the verdict (`HeardIsDecided`).

Some of the types say more than a domain, and are not inductive alone. A request's walk
stays within the gates listed because a registration waits for the lock the walk holds
(`RequestTypes`). The connector's pauses and what is left of its deadline are natural
numbers because each is cut to the time there is (`DialTypes`, `DelaysAreNatural`). A
stream worker acknowledges only what parsed because its handler was only given that
(`HandInv`). The views of `WatchWorkers` hold no value that does not parse, which
`ReadableInv` says of the lists and events under way too.

Facts about numbers and sequences that need induction (the loop of a trie's walk, leaving
out segments) go by the least counterexample: `Least` gives one for a set of
naturals that is not empty, and `Upwards` and `Iterates` make of it the two forms the
proofs use.

Assumptions: those the modules name on their constants: limits, deadlines and
timeouts are natural numbers, `None` and `Gone` are no value or key they could be confused
with, the word is larger than the gates and owners together, the connector's two tasks
are different owners of its gate and its only ones (the application gives its clone
away), and the operator's finalizer is not another's. Routes and paths are sequences of texts,
the mark for a parameter's place in the trie is no text, a prefix without fallback is
given without its leading slashes (as `StaticFiles` stores it), an order of a list names no
row twice, configured page sizes are not 0, a subject is a sequence, the statuses of errors
are 400 to 599, and no word or status is `None` or `Unfit`, a value no header carries. TLC
evaluates them in every run.

Only model-checked: all liveness, which with ENABLED is out of the prover's reach. Each
safety invariant and action property of the passing runs is a theorem. No RECURSIVE
operator is used.

## 9. Not modelled

- `crates/flatbed_build` (codegen, reflection, the TypeScript codec), the parsing and
  generation of tokens in `crates/flatbed_macros`, the OpenAPI document and the
  TypeScript client are, with the code they generate, half of the repository's lines. They are sequential
  functions from a schema to text, with no state between calls and no failure but an
  error returned: what can be wrong is the text itself, which a model abstracts from and
  the repository's golden tests compare. Of the macros, what their generated code does
  at run time is modelled (`Exchange`, the wrapper of `#[route]` and of `#[nats_route]`).
- Telemetry and the Sentry reporter format what they are given and send it on.
- A third to a half of the lines of the run-time files are their unit tests and
  documentation, which no definition stands for.
- Time is a choice everywhere but in `Connector`: the amounts of the shutdown's budget,
  back-offs of the supervisor and delays of the queue are left out.
- The contents of `/healthz` and `/metrics`, content negotiation, the headers of files
  and the bytes of cursors and bodies.

## 10. Running

    tlc -workers 2 -config LocalQueueSafety.cfg MCLocalQueue
    tlapm LocalQueueProof.tla

The longest runs, `local_queue_safety`, `lifecycle`, `stream_workers` and `serving`, take
one to two minutes. The longest proof, `ServingProof`, takes about four.
