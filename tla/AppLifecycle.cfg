CONSTANTS
    Services = {s1, s2}
    Procs = {p1, p2}
    Commands = {"run", "stop", "restart", "logon", "dialog", "emergency", "safe", "decline", "kill"}
    MaxWaiters = 1
SPECIFICATION FairSpec
INVARIANTS
    TypeOK
    OneEngine
    NoStaleStop
PROPERTIES
    TraysEndWithService
    RestartWorks
    
CHECK_DEADLOCK FALSE
