\* One artifact, one claim on it at a time, two requests over one clock.
SPECIFICATION GateSpec
CONSTANTS
  Artifact = {1}
  Worker = {w1}
  Nobody = nobody
  Nothing = nothing
  Release = {r1}
  Session = {s1}
  MaxTime = 1
  MaxClaims = 1
  MaxSeries = 1
  MaxArrivals = 2
INVARIANTS
  ServedWasAllowed
  ListedIsServed
  BlocksAreCounted
CHECK_DEADLOCK FALSE
