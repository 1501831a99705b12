\* A primary and a replica, a schema of two versions, three starts.
SPECIFICATION Spec
CONSTANTS
  p1 = p1
  p2 = p2
  u1 = u1
  u2 = u2
  Process = {p1, p2}
  Replica = {p2}
  Uuid = {u1, u2}
  None = none
  UuidOf <- DifferentServers
  Supported = 2
  MaxStarts = 3
INVARIANTS
  PublishedIsActivated
  MarkedWhenEmpty
  FailedStartLeavesNothing
  RefusedForCause
CHECK_DEADLOCK FALSE
