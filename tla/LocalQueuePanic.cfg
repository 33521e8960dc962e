\* A panic raised by the call of handle itself.
CONSTANTS
  k1 = k1
  k2 = k2
  k3 = k3
  pa = pa
  pb = pb
  p1 = p1
  p2 = p2
  None = None
  Keys <- MCTwoKeys
  Payloads <- MCOnePayload
  Producers <- MCOneProducer
  Capacity = 2
  DeadCapacity = 1
  MaxAttempts = 2
  MaxU32 = 2
  HasTimeout = TRUE
  HaModes <- MCBothModes
  MaxCrashes = 1
SPECIFICATION Spec
PROPERTIES
  PanicKeepsWorker

