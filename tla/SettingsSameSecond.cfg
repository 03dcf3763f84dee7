CONSTANTS
    Mods = {m1}
    Storage = "registry"
    MaxCalls = 2
    MaxTime = 3
    Faults = {"sameSecond"}
    Answers = {"keep", "reload", "unload"}
    Managers = {s1}
    NoManager = NoManager
    FromAPC = TRUE
    ThreadAgnostic = TRUE
SPECIFICATION Spec
INVARIANT SettingsChangesAreTold
CHECK_DEADLOCK FALSE
