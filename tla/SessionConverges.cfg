CONSTANTS
    Mods = {m1}
    Storage = "ini"
    MaxCalls = 2
    MaxTime = 1
    Faults = {"enumFails", "monitorFails", "threadFails"}
    Answers = {"reload", "unload"}
    Managers = {s1, s2}
    NoManager = NoManager
    FromAPC = TRUE
    ThreadAgnostic = FALSE
SPECIFICATION FairSpec
INVARIANT SemaphoreGuardsSession
PROPERTIES
    SessionEndsWithManager
    NextSessionStarts
    Converges
CHECK_DEADLOCK FALSE
