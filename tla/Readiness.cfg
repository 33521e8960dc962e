\* One gate shared by three owners, two of which have a gate of their own, and a
\* request, under fair scheduling.
CONSTANTS
  g1 = g1
  g2 = g2
  g3 = g3
  o1 = o1
  o2 = o2
  o3 = o3
  r1 = r1
  None = None
  Gates <- MCThreeGates
  Owners <- MCThreeOwners
  Holds <- MCMixed
  Requests <- MCOneRequest
  Modulus = 7
SPECIFICATION FairSpec
INVARIANTS
  CountExact
  HiddenOnlyByClones
PROPERTIES
  RecoveryShows
