\* Expected violation: one thread and no fault, but a download that fails once.
CONSTANTS
    Files = {s1, w1}
    Sdists = {s1}
    Uploads = {}
    Slow = {}
    Lagging = {}
    Threads = {t1}
    Nobody = Nobody
    MaxAttempts = 2
    MaxFaults = 0
SPECIFICATION Spec
PROPERTIES DrainedBeforeAnalysis
