--------------------------- MODULE MCWatchWorkers ---------------------------
(***************************************************************************)
(* Instances of WatchWorkers for TLC.                                      *)
(***************************************************************************)
EXTENDS WatchWorkers

CONSTANTS k1, k2, v1, v2

MCKeys == {k1, k2}
MCValues == {v1, v2}
MCGarbled == {v2}

=============================================================================
