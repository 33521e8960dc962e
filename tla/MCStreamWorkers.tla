-------------------------- MODULE MCStreamWorkers --------------------------
(***************************************************************************)
(* Instances of StreamWorkers for TLC.                                     *)
(***************************************************************************)
EXTENDS StreamWorkers

CONSTANTS p1, p2, task

MCPods == {p1, p2}
MCMessages == {task}
MCClosing == {p2}

=============================================================================
