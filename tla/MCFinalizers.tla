---------------------------- MODULE MCFinalizers ----------------------------
(***************************************************************************)
(* Instances of Finalizers for TLC.                                        *)
(***************************************************************************)
EXTENDS Finalizers

CONSTANTS p1, p2, other

MCReconcilers == {p1, p2}
MCOthers == {other}

=============================================================================
