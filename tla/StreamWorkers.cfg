\* Two pods, one of which may lose its election, and a message that may not parse.
CONSTANTS
  p1 = p1
  p2 = p2
  task = task
  None = None
  Pods <- MCPods
  Messages <- MCMessages
  Closing <- MCClosing
CHECK_DEADLOCK FALSE
SPECIFICATION FairSpec
INVARIANTS
  GoneIsDone
  WorkersOutwaitStream
PROPERTIES
  EventuallyHandled
  LeaderStopsConsuming
  ClosedElectionEndsLoop
