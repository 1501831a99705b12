\* Three releases of a wheel, the source distribution of the second, one worker.
SPECIFICATION MCSpec
CONSTANTS
    w1 = w1
    w2 = w2
    s2 = s2
    w3 = w3
    Artifact = {w1, w2, s2, w3}
    Worker = {k}
    None = None
    MaxEvents = 2
    RequireBaseline = TRUE
    RequirePair = FALSE
    Escalated = {}
    Path = {"module.py", "startup.pth"}
    File = {"quiet", "posts", "leaks", "broken", "imports"}
    Entry = {"tool"}
    Identity = {"it"}
    Unstated = Unstated
    Requirement = {}
    Effect <- EffectOf
    Suffix <- SuffixOf
    Uses <- UsesOf
    Tree <- TreeOf
    Parsed <- IsParsed
    Sites <- SitesIn
    Lines <- LinesIn
    Release <- Releases
    Score <- DefaultScores
INVARIANTS NoLaundering BrokenAnalysisBlocks ReportAccepted SimulationAgrees
CHECK_DEADLOCK FALSE
