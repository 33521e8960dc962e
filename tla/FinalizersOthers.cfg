\* Another controller adds its finalizer while a reconcile is under way.
CONSTANTS
  p1 = p1
  p2 = p2
  other = other
  Gone = Gone
  Own = own
  Reconcilers <- MCReconcilers
  Others <- MCOthers
SPECIFICATION ObjectSpec
PROPERTIES
  OthersKept
