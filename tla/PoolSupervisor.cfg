SPECIFICATION Spec
CONSTANTS
  None = None
  Pools = {p1, p2, p3}
  Users = {u1, u2}
  Probes = {u2}
CHECK_DEADLOCK FALSE
INVARIANTS PublishedIsOpen StoppedMeansClosed
PROPERTIES SupervisorResponds ShutdownEnds
