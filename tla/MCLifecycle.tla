---------------------------- MODULE MCLifecycle ----------------------------
(***************************************************************************)
(* Instances of Lifecycle for TLC.                                         *)
(***************************************************************************)
EXTENDS Lifecycle, TLC

CONSTANTS w1, w2, w3, c1

MCWorkers == {w1, w2, w3}
MCConns == {c1}

\* One worker with a policy, one without, and one that is restarted without limit:
\* its policy allows the largest u32.
MCMaxRestarts == (w1 :> 1) @@ (w2 :> None) @@ (w3 :> MaxU32)

\* What a check may do is spread over the workers.
MCChecks == (w1 :> {"on", "panics"}) @@ (w2 :> {"on", "off"}) @@ (w3 :> {"on"})

=============================================================================
