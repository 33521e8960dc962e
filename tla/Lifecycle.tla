------------------------------ MODULE Lifecycle ------------------------------
(***************************************************************************)
(* The life of a flatbed process: Flatbed::run (lib.rs) boots the          *)
(* application while AutoServer::serve (hyper/server.rs) already listens,  *)
(* the workers start under supervision once the boot latch is set, and a   *)
(* signal or a failed worker starts the shutdown, in which the server stops *)
(* accepting, flushes, drains the workers and leaves.                      *)
(***************************************************************************)
EXTENDS Supervisor

CONSTANT Conns  \* connections a client may open

VARIABLES
  main,     \* where Flatbed::run is; "over" is the end of the process
  server,   \* where serve is
  spawner,  \* the task of serve that waits for the latch and starts the workers
  stored,   \* whether the context is stored
  booted,   \* the boot latch
  chosen,   \* the workers whose drain is to run
  drained,  \* run_worker_drains' answer: whether it started those drains
  conn      \* per connection: "none", "serving" a request, "dropped"

process == <<main, server, spawner, stored, booted, chosen, drained, conn>>
vars == <<supervision, process>>

MainPoints == {"spawned", "booting", "store", "latch", "awaiting", "over"}
ServerPoints == {"binding", "accepting", "choosing", "context",
                 "draining", "epilogue", "done", "failed"}

Init ==
  /\ SupervisorInit
  /\ main = "spawned" /\ server = "binding" /\ spawner = "unspawned"
  /\ stored = FALSE /\ booted = FALSE
  /\ chosen = {} /\ drained = FALSE
  /\ conn = [c \in Conns |-> "none"]

-----------------------------------------------------------------------------
(* Flatbed::run.  It has spawned the server's task.                        *)

MainStep(from, to) == main = from /\ main' = to

MarkAlive ==
  /\ MainStep("spawned", "booting") /\ healthy' = TRUE
  /\ UNCHANGED <<sup, states, attempt, exit, shutdown, restarts>>
  /\ UNCHANGED <<server, spawner, stored, booted, chosen, drained, conn>>

\* The boot function returns a context, or an error that ends the process.
BootReturns ==
  /\ \/ MainStep("booting", "store")
     \/ MainStep("booting", "over")
  /\ UNCHANGED <<supervision, server, spawner, stored, booted, chosen, drained, conn>>

\* Mutant: the latch is set before the context is stored.
LatchFirst ==
  /\ MainStep("store", "latch") /\ booted' = TRUE
  /\ UNCHANGED <<supervision, server, spawner, stored, chosen, drained, conn>>

StoreContext ==
  /\ MainStep("store", "latch") /\ stored' = TRUE
  /\ UNCHANGED <<supervision, server, spawner, booted, chosen, drained, conn>>

SetLatch ==
  /\ MainStep("latch", "awaiting") /\ booted' = TRUE
  /\ UNCHANGED <<supervision, server, spawner, stored, chosen, drained, conn>>

\* The server's task has ended.
Return ==
  /\ server \in {"done", "failed"} /\ MainStep("awaiting", "over")
  /\ UNCHANGED <<supervision, server, spawner, stored, booted, chosen, drained, conn>>

Main == MarkAlive \/ StoreContext \/ SetLatch \/ Return

-----------------------------------------------------------------------------
(* AutoServer::serve *)

ServerStep(from, to) == server = from /\ server' = to

\* The listener is bound and the task that starts the workers is spawned; or the
\* address cannot be bound.
Bind ==
  /\ \/ ServerStep("binding", "accepting") /\ spawner' = "waiting"
     \/ ServerStep("binding", "failed") /\ UNCHANGED spawner
  /\ UNCHANGED <<supervision, main, stored, booted, chosen, drained, conn>>

\* SIGTERM or SIGINT, once the handler's task is there.
Signal ==
  /\ spawner # "unspawned" /\ ~shutdown /\ shutdown' = TRUE
  /\ UNCHANGED <<sup, states, attempt, exit, healthy, restarts, process>>

Accept(c) ==
  /\ server = "accepting" /\ conn[c] = "none"
  /\ conn' = [conn EXCEPT ![c] = "serving"]
  /\ UNCHANGED <<supervision, main, server, spawner, stored, booted, chosen, drained>>

\* accept returns an error, and serve with it: no drains, no epilogue.
AcceptFails ==
  /\ ServerStep("accepting", "failed")
  /\ UNCHANGED <<supervision, main, spawner, stored, booted, chosen, drained, conn>>

\* A connection's task: the request is answered and the client leaves, or the
\* shutdown is seen first.
Answers(c) ==
  /\ conn[c] = "serving"
  /\ conn' = [conn EXCEPT ![c] = "none"]
  /\ UNCHANGED <<supervision, main, server, spawner, stored, booted, chosen, drained>>

Drops(c) ==
  /\ conn[c] = "serving" /\ shutdown
  /\ conn' = [conn EXCEPT ![c] = "dropped"]
  /\ UNCHANGED <<supervision, main, server, spawner, stored, booted, chosen, drained>>

\* The latch is set: every worker gets its supervisor, with the context.
SpawnWorkers ==
  /\ spawner = "waiting" /\ booted
  /\ spawner' = "gone"
  /\ sup' = IF stored THEN [w \in Workers |-> "check"] ELSE sup
  /\ UNCHANGED <<states, attempt, exit, healthy, shutdown, restarts>>
  /\ UNCHANGED <<main, server, stored, booted, chosen, drained, conn>>

\* The loop sees the shutdown; the reporter's flush, which is bounded, is the time
\* until the next step.
StopAccepting ==
  /\ shutdown /\ ServerStep("accepting", "choosing")
  /\ UNCHANGED <<supervision, main, spawner, stored, booted, chosen, drained, conn>>

\* Mutant: only workers that run are drained.
ChooseRunning ==
  /\ ServerStep("choosing", "context")
  /\ chosen' = {w \in Workers : states[w] = "Running"}
  /\ UNCHANGED <<supervision, main, spawner, stored, booted, drained, conn>>

\* `run_worker_drains`: the drains of the workers not shown as disabled, unless
\* the context is missing; without drains the whole budget is left.
ChooseDrains ==
  /\ chosen' = {w \in Workers : states[w] # "Disabled"}
  /\ ServerStep("choosing", IF chosen' = {} THEN "epilogue" ELSE "context")
  /\ UNCHANGED <<supervision, main, spawner, stored, booted, drained, conn>>

StartDrains ==
  /\ ServerStep("context", IF stored THEN "draining" ELSE "epilogue")
  /\ drained' = stored
  /\ UNCHANGED <<supervision, main, spawner, stored, booted, chosen, conn>>

\* The drains have ended, or the budget for them is spent.
DrainsEnd ==
  /\ ServerStep("draining", "epilogue")
  /\ UNCHANGED <<supervision, main, spawner, stored, booted, chosen, drained, conn>>

\* Mutant: the epilogue waits for every request in flight.
EpilogueAwaitsConns ==
  /\ \A c \in Conns : conn[c] # "serving"
  /\ ServerStep("epilogue", "done")
  /\ UNCHANGED <<supervision, main, spawner, stored, booted, chosen, drained, conn>>

EpilogueEnds ==
  /\ ServerStep("epilogue", "done")
  /\ UNCHANGED <<supervision, main, spawner, stored, booted, chosen, drained, conn>>

Server ==
  \/ Bind \/ StopAccepting \/ ChooseDrains \/ StartDrains
  \/ DrainsEnd \/ EpilogueEnds

-----------------------------------------------------------------------------

\* The end of the process ends every task.
Next ==
  /\ main # "over"
  /\ \/ Main \/ BootReturns
     \/ Server \/ Signal \/ AcceptFails \/ SpawnWorkers
     \/ \E c \in Conns : Accept(c) \/ Answers(c) \/ Drops(c)
     \/ \E w \in Workers : (Supervise(w) \/ Ends(w)) /\ UNCHANGED process

Spec == Init /\ [][Next]_vars

\* Every task is polled, and every wait of the shutdown is bounded by a timeout.
\* Nothing makes a boot function return, a worker end or a request finish.
Fairness ==
  /\ WF_vars(main # "over" /\ Main)
  /\ WF_vars(main # "over" /\ Server)
  /\ WF_vars(main # "over" /\ SpawnWorkers)
  /\ \A w \in Workers :
       WF_vars(main # "over" /\ Supervise(w) /\ UNCHANGED process)

FairSpec == Spec /\ Fairness

-----------------------------------------------------------------------------
(* Properties *)

TypeOK ==
  /\ SupervisorTypeOK
  /\ main \in MainPoints /\ server \in ServerPoints
  /\ spawner \in {"unspawned", "waiting", "gone"}
  /\ stored \in BOOLEAN /\ booted \in BOOLEAN
  /\ chosen \subseteq Workers /\ drained \in BOOLEAN
  /\ conn \in [Conns -> {"none", "serving", "dropped"}]

\* A shutdown that runs drains runs those of every worker that was ever started,
\* in whatever state its supervisor holds it then: running, backing off or
\* failed (run_worker_drains, supervise).
DrainsReachWorkers ==
  drained =>
    \A w \in Workers : states[w] \in {"Running", "BackingOff", "Failed"} => w \in chosen

\* Once the latch is set every worker is started, disabled or failed, unless the
\* process ends first: no worker finds the context missing (run, serve).
WorkersStart ==
  booted ~> (main = "over" \/ \A w \in Workers : sup[w] \notin {"unspawned", "check"})

\* A worker that fails ends the process: on an error, a panic or the end of its
\* policy, but not when it just completes (terminate, fail, serve).
LoudFailureEnds ==
  (\E w \in Workers : sup[w] = "failing" /\ (HasPolicy(w) \/ exit[w] # "Completed"))
    ~> (main = "over")

\* A shutdown ends the process once the boot function has returned, however long
\* requests and drains take (serve, run).
ShutdownEnds ==
  (shutdown /\ main \notin {"spawned", "booting"}) ~> (main = "over")

=============================================================================
