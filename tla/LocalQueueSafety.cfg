\* Every interleaving of two producers with the executor, in both modes.
CONSTANTS
  k1 = k1
  k2 = k2
  k3 = k3
  pa = pa
  pb = pb
  p1 = p1
  p2 = p2
  None = None
  Keys <- MCThreeKeys
  Payloads <- MCTwoPayloads
  Producers <- MCTwoProducers
  Capacity = 2
  DeadCapacity = 2
  MaxAttempts = 2
  MaxU32 = 3
  HasTimeout = TRUE
  HaModes <- MCBothModes
  MaxCrashes = 1
SYMMETRY MCSymmetry
SPECIFICATION Spec
INVARIANTS
  OnePlacePerKey
  WithinCapacity
  AttemptsCounted
  AttemptsBounded
  HandledIsInHand
  NoLostWakeup
PROPERTIES
  LineKept
  OldestEvictedFirst
  ImplementsLifecycle
