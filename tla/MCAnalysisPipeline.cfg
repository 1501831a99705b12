\* Two threads; the wheel is slow to analyse and may be uploaded before the sdist.
CONSTANTS
    Files = {s1, w1}
    Sdists = {s1}
    Uploads = {w1}
    Slow = {w1}
    Lagging = {w1}
    Threads = {t1, t2}
    Nobody = Nobody
    MaxAttempts = 2
    MaxFaults = 1
SPECIFICATION Spec
INVARIANTS
    TypeOK
    ReleaseIsCompared
PROPERTIES
    JobsEnd
    ArtifactsSettle
