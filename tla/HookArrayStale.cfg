CONSTANTS
    A = A
    B = B
    f = f
    g = g
    Own = Own
    Null = Null
    Mods = {A, B}
    Targets = {f, g}
    HookSet <- AllHooks
    Originals = {v}
    Faults = {"nullOriginal", "sharedOriginal"}
    Capacity = 32
    Tramps = {1, 2, 3}
SPECIFICATION Spec
INVARIANT DetourOnItsTarget
CHECK_DEADLOCK FALSE
