----------------------------- MODULE KeyedLine ------------------------------
(***************************************************************************)
(* Lines of records that each carry a key: how local_queue.rs searches and *)
(* edits its two VecDeques, the queued messages and the dead letters.      *)
(***************************************************************************)
EXTENDS Naturals, Sequences, SequencesExt

KeysDistinct(s) ==
  \A i, j \in 1..Len(s) : s[i].key = s[j].key => i = j

HasKey(s, k) == \E i \in 1..Len(s) : s[i].key = k

\* The keys of a line are distinct, so the position found is the only one.
IndexOfKey(s, k) == CHOOSE i \in 1..Len(s) : s[i].key = k

WithoutKey(s, k) == IF HasKey(s, k) THEN RemoveAt(s, IndexOfKey(s, k)) ELSE s

\* Mutant: the youngest are given up (pop_back).
Oldest(s, n) == IF Len(s) > n THEN SubSeq(s, 1, n) ELSE s

\* What repeated pop_front leaves once at most n are left.
Newest(s, n) == IF Len(s) > n THEN SubSeq(s, Len(s) - n + 1, Len(s)) ELSE s

=============================================================================
