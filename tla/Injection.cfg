CONSTANTS
    Procs = {p1, p2}
    Faults = {"injectFails", "managerEnds", "dies"}
SPECIFICATION FairSpec
INVARIANTS
    TypeOK
    InjectedOnce
    NoEarlyRemoteThread
    HookedChildStartsInjected
PROPERTIES
    ChildRuns
    EveryProcessIsInjected
CHECK_DEADLOCK FALSE
