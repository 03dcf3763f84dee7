CONSTANTS
    m1 = m1
    m2 = m2
    t1 = t1
    t2 = t2
    Own = Own
    Mods = {m1, m2}
    Threads = {t1}
    ModOf <- OneThread
    Targets = {CreateProcess}
    OwnTarget = CreateProcess
    Callers = {c1}
    MaxDepth = 1
    Faults = {"attachFails", "waitGivesUp", "lateHookCalls", "sessionEnds"}
SPECIFICATION FairSpec
PROPERTIES
    InitHooksAreApplied
    ReloadTerminates
