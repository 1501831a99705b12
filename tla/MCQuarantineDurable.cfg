\* Expected violation: get_verified returns an object that is not durable yet.
CONSTANTS
  Files = {f1, f2}
  Callers = {p1, p2}
  NoFile = NoFile
SPECIFICATION Spec
INVARIANTS ReturnedIsDurable
CHECK_DEADLOCK FALSE
