CONSTANTS
    m1 = m1
    m2 = m2
    t1 = t1
    t2 = t2
    Own = Own
    Mods = {m1, m2}
    Threads = {t1, t2}
    ModOf <- ThreadPerMod
    Targets = {CreateProcess}
    OwnTarget = CreateProcess
    Callers = {c1}
    MaxDepth = 2
    Faults = {"attachFails"}
SPECIFICATION Spec
INVARIANTS
    TypeOK
    NoDanglingCode
    NoDetourBeforeInit
    UnloadedModsAreClosed
    RegisteredHookSurvives
PROPERTIES
    NoHookAfterBeforeUninit
    ImplementsModGate
