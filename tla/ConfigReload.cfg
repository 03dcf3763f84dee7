CONSTANTS
    Mods = {m1, m2}
    Storage = "registry"
    MaxCalls = 2
    MaxTime = 2
    Faults = {"creatable", "loadFails", "waitFails"}
    Answers = {"keep"}
    Managers = {s1}
    NoManager = NoManager
    FromAPC = TRUE
    ThreadAgnostic = TRUE
SPECIFICATION Spec
INVARIANTS
    TypeOK
    NoLostChange
PROPERTY UntouchedModsStayLoaded
CHECK_DEADLOCK FALSE
SYMMETRY ModSymmetry
