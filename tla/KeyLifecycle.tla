---------------------------- MODULE KeyLifecycle ----------------------------
(***************************************************************************)
(* What a local queue promises about each key to a producer that asks      *)
(* `status`: the life of a key, with the line, the counts, the wake-ups and *)
(* the executor left out.  LocalQueue implements it.                       *)
(***************************************************************************)
EXTENDS Naturals, FiniteSets

CONSTANTS Keys, DeadCapacity

VARIABLE status

In(s) == {k \in Keys : status[k] = s}

Move(k, s) == status' = [status EXCEPT ![k] = s]

Init == status = [k \in Keys |-> "Absent"]

\* A send of an absent key, or a requeue of a key set aside.
Enqueue(k) == status[k] \in {"Absent", "DeadLettered"} /\ Move(k, "Queued")

\* One key is in hand at a time.
Take(k) == status[k] = "Queued" /\ In("InHand") = {} /\ Move(k, "InHand")

\* Done, dropped by a restart, retried, or followed by its resend.
Release(k) ==
  status[k] = "InHand" /\ \E s \in {"Absent", "Queued"} : Move(k, s)

\* The key is set aside; a full set gives up one other key for it.
SetAside(k) ==
  /\ status[k] = "InHand"
  /\ \/ /\ Cardinality(In("DeadLettered")) < DeadCapacity
        /\ Move(k, "DeadLettered")
     \/ /\ DeadCapacity > 0 /\ Cardinality(In("DeadLettered")) = DeadCapacity
        /\ \E old \in In("DeadLettered") :
             status' = [status EXCEPT ![k] = "DeadLettered", ![old] = "Absent"]

Forget(k) == status[k] = "DeadLettered" /\ Move(k, "Absent")

\* Leadership is lost.
Discard == status' = [k \in Keys |-> "Absent"]

Next ==
  \/ \E k \in Keys : Enqueue(k) \/ Take(k) \/ Release(k) \/ SetAside(k) \/ Forget(k)
  \/ Discard

Spec == Init /\ [][Next]_status

=============================================================================
