\* Three links, one of them damaged on disk; the smallest batches make the walk of
\* claim_next stop at an invalid row.
SPECIFICATION Spec
CONSTANTS
  Job = {1, 2, 3}
  Consumer = {w1}
  Nobody = nobody
  Damageable = {1}
  MaxActive = 2
  MaxAttempts = 2
  RetryDelay = 1
  ScrubBatch = 1
  ClaimBatch = 2
  MaxCorrupt = 1
  MaxTime = 2
  MaxClaims = 3
INVARIANTS
  TypeOK
  WithinCapacity
  RetryBudget
  NoHeadOfLineBlocking
PROPERTIES
  FinishedForGood
  ImplementsFencedQueue
CHECK_DEADLOCK FALSE
