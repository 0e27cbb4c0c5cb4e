SPECIFICATION HSpec
CONSTANTS
    None = None
    Options <- MCPlain
    Averages = {2000, 4000}
    Socs = {30, 45, 70}
    SettingValues <- MCChangingSettings
    UnplugReset = 1
    DoneAfter = 1
    MaxWait = 1
    AgeCap = 3
    Events = {"unplug", "linkfails"}
    Faults = {}
    InitStatuses = {"available"}
    InitModes = {"pv_surplus"}
    UserModes = {"pv_surplus"}
    UserOps = {"pause"}
    UserLimits = {}
    Steady <- MCNone
    Track = {"session", "switch"}
    Replug = "calm"
PROPERTIES
    StartConditionFirst
    LockoutKept
