\* Attempts of two units against a deadline of eight, and a link that changes three times.
CONSTANTS
  nats = nats
  other = other
  boot = boot
  events = events
  app = app
  refused = refused
  reset = reset
  None = None
  Gates <- MCGates
  Owners <- MCOwners
  Holds <- MCHolds
  Modulus = 6
  Nats = nats
  BootTask = boot
  EventTask = events
  Errors <- MCErrors
  MinBackoff = 2
  MaxBackoff = 4
  Deadline = 8
  AttemptTimeout = 2
  MaxShift = 16
  MaxLinkChanges = 3
CHECK_DEADLOCK FALSE
SPECIFICATION Spec
INVARIANTS
  WithinDeadline
  SourceIsLastFinished
  GateTellsLink
PROPERTIES
  ImplementsReadiness
