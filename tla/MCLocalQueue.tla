---------------------------- MODULE MCLocalQueue ----------------------------
(***************************************************************************)
(* Instances of LocalQueue for TLC.                                        *)
(***************************************************************************)
EXTENDS LocalQueue, FiniteSets

CONSTANTS k1, k2, k3, pa, pb, p1, p2

MCTwoKeys == {k1, k2}
MCThreeKeys == {k1, k2, k3}
MCOnePayload == {pa}
MCTwoPayloads == {pa, pb}
MCOneProducer == {p1}
MCTwoProducers == {p1, p2}
MCBothModes == {TRUE, FALSE}
MCLeaderMode == {TRUE}

\* Keys, payloads and producers are interchangeable.  Used for safety only.
MCSymmetry ==
  Permutations(Keys) \cup Permutations(Payloads) \cup Permutations(Producers)

=============================================================================
