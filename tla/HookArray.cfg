CONSTANTS
    A = A
    B = B
    f = f
    g = g
    Own = Own
    Null = Null
    Mods = {A, B}
    Targets = {f, g}
    HookSet <- TwoModsTwoTargets
    Originals <- TwoModsTwoTargets
    Faults = {"attachFails"}
    Capacity = 1
    Tramps = {1, 2, 3}
SPECIFICATION Spec
INVARIANTS
    TypeOK
    CallsEnabledHooks
    OriginalCallsOn
PROPERTIES
    ImplementsHookTable
CHECK_DEADLOCK FALSE
