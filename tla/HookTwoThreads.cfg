CONSTANTS
    m1 = m1
    m2 = m2
    t1 = t1
    t2 = t2
    Own = Own
    Mods = {m1}
    Threads = {t1, t2}
    ModOf <- TwoThreadsOfOneMod
    Targets = {CreateProcess}
    OwnTarget = CreateProcess
    Callers = {}
    MaxDepth = 0
    Faults = {}
SPECIFICATION Spec
INVARIANT RegisteredHookSurvives
