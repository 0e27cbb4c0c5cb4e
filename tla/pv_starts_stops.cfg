SPECIFICATION HFairSpec
CONSTANTS
    None = None
    Options <- MCSmallStart
    Averages = {800, 2000}
    Socs = {40, 70}
    SettingValues <- MCSettings
    UnplugReset = 1
    DoneAfter = 1
    MaxWait = 0
    AgeCap = 1
    Events = {"unplug", "linkfails", "selfstart"}
    Faults = {}
    InitStatuses = {"available"}
    InitModes = {"pv_surplus"}
    UserModes = {}
    UserOps = {}
    UserLimits = {}
    Steady <- MCSteady
    Track = {}
    Replug = "calm"
PROPERTIES
    PvStarts
    PvStops
