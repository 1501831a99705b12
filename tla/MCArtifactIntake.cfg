\* Two links to one file, two consumers, one retry, crashes at any moment.
SPECIFICATION IntakeSpec
CONSTANTS
  Job = {1, 2}
  Consumer = {w1, w2}
  Nobody = nobody
  Damageable = {}
  MaxActive = 1
  MaxAttempts = 2
  RetryDelay = 1
  ScrubBatch = 2
  ClaimBatch = 2
  MaxCorrupt = 1
  MaxTime = 2
  MaxClaims = 2
  d1 = d1
  Digest = {d1}
  Sha <- SameFile
INVARIANTS
  IntakeTypeOK
  CompletedIsRegistered
  RegisteredIsPublished
PROPERTIES
  EndedByItsLastConsumer
CHECK_DEADLOCK FALSE
