\* Two pods whose terms may overlap, and one other controller.
CONSTANTS
  p1 = p1
  p2 = p2
  other = other
  Gone = Gone
  Own = own
  Reconcilers <- MCReconcilers
  Others <- MCOthers
SPECIFICATION FairObjectSpec
INVARIANTS
  NothingLeftBehind
PROPERTIES
  LetGoOnlyCleaned
  DeletionEnds
