\* Two keys, a value that parses and one that does not, four writes.  A watcher whose
\* election closes while it waits ends: no deadlock check.
CONSTANTS
  k1 = k1
  k2 = k2
  v1 = v1
  v2 = v2
  None = None
  Keys <- MCKeys
  Values <- MCValues
  Garbled <- MCGarbled
  MaxWrites = 4
SPECIFICATION Spec
INVARIANTS
  KvViewIsStore
  KubeViewIsStore
CHECK_DEADLOCK FALSE
