\* Boot, three workers, one connection and a shutdown, under fair scheduling. The process ends: no deadlock check.
CONSTANTS
  w1 = w1
  w2 = w2
  w3 = w3
  c1 = c1
  None = None
  Workers <- MCWorkers
  Conns <- MCConns
  MaxRestarts <- MCMaxRestarts
  Checks <- MCChecks
  MaxU32 = 2
SPECIFICATION FairSpec
CHECK_DEADLOCK FALSE
INVARIANTS
  DeadIsVisible
  RestartsExact
  DrainsReachWorkers
PROPERTIES
  WorkersStart
  LoudFailureEnds
  ShutdownEnds
