CONSTANTS
    Tasks = {t1}
    Faults = {"earlyReply", "requestFails", "settingsFail", "tasksFail"}
SPECIFICATION FairSpec
INVARIANTS
    TypeOK
    ChecksFollowSetting
PROPERTIES
    ExitCompletes
    TasksAreShown
CHECK_DEADLOCK FALSE
