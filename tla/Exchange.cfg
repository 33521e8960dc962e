\* One request, two replicas, six tables of NATS routes, two faults.
CONSTANTS
  q1 = q1
  r1 = r1
  r2 = r2
  Star = Star
  Unfit = Unfit
  None = None
  Requests <- MCRequests
  Subjects <- MCSubjects
  Replicas <- MCReplicas
  RouteSets <- MCRouteSets
  Statuses <- MCStatuses
  MaxFaults = 2
SYMMETRY MCSymmetry
SPECIFICATION Spec
INVARIANTS
  VerdictReaches
  ReportedOnce
  OneResponder
CHECK_DEADLOCK FALSE
