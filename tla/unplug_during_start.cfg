SPECIFICATION HSpec
CONSTANTS
    None = None
    Options <- MCPlain
    Averages = {2000, 4000}
    Socs = {55, 70}
    SettingValues <- MCSettings
    UnplugReset = 1
    DoneAfter = 1
    MaxWait = 0
    AgeCap = 1
    Events = {"unplug", "selfstart"}
    Faults = {}
    InitStatuses = {"preparing"}
    InitModes = {"pv_surplus"}
    UserModes = {}
    UserOps = {}
    UserLimits = {}
    Steady <- MCNone
    Track = {"session"}
    Replug = "polled"
PROPERTIES
    StartConditionFirst
