---------------------------- MODULE MCReadiness ----------------------------
(***************************************************************************)
(* Instances of Readiness for TLC.                                         *)
(***************************************************************************)
EXTENDS Readiness

CONSTANTS g1, g2, g3, o1, o2, o3, r1

MCThreeGates == {g1, g2, g3}
MCThreeOwners == {o1, o2, o3}
MCOneRequest == {r1}

\* One gate is shared by three owners, two of which have a gate of their own.
MCMixed == (o1 :> {g1}) @@ (o2 :> {g1, g2}) @@ (o3 :> {g1, g3})

=============================================================================
