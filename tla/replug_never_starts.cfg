SPECIFICATION HFairSpec
CONSTANTS
    None = None
    Options <- MCPlain
    Averages = {800, 2000}
    Socs = {70}
    SettingValues <- MCSettings
    UnplugReset = 1
    DoneAfter = 1
    MaxWait = 0
    AgeCap = 1
    Events = {"unplug"}
    Faults = {}
    InitStatuses = {"preparing"}
    InitModes = {"pv_surplus"}
    UserModes = {}
    UserOps = {}
    UserLimits = {}
    Steady <- MCGood
    Track = {"session"}
    Replug = "any"
PROPERTIES
    PvStarts
