\* Two processes, a connection that is used again and one that is new.
CONSTANTS
    Events = {e1, e2}
    Malformed = Malformed
    Writers = {w1, w2}
    Connections = {c1, c2}
    Nobody = Nobody
    MaxRows = 3
    MaxTampering = 2
SYMMETRY Interchangeable
SPECIFICATION Spec
INVARIANTS
    CacheDecidesLikeScan
    TamperingShows
PROPERTIES CommitsVerify
CHECK_DEADLOCK FALSE
