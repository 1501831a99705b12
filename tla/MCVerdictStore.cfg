\* One artifact, the whole vocabulary of operations, two claims to confuse.
SPECIFICATION Spec
CONSTANTS
  Artifact = {1}
  Worker = {w1, w2}
  Nobody = nobody
  Release = {r1, r2}
  MaxTime = 2
  MaxClaims = 2
INVARIANTS
  PersistedStateValid
  ResultFromNewestClaim
  PendingAnalysisBlocks
PROPERTIES
  AuditMatchesDecision
  BaselineOptOutSticks
  ImplementsFencedQueue
CHECK_DEADLOCK FALSE
