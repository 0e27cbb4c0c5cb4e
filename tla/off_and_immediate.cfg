SPECIFICATION FairSpec
CONSTANTS
    None = None
    Options <- MCNoPv
    Averages = {None}
    Socs = {None}
    SettingValues <- MCSettings
    UnplugReset = 1
    DoneAfter = 1
    MaxWait = 0
    AgeCap = 1
    Events = {"unplug", "linkfails", "selfstart", "sessionend"}
    Faults = {"faulted"}
    InitStatuses = {"preparing"}
    InitModes = {"immediate"}
    UserModes = {"off"}
    UserOps = {"start"}
    UserLimits = {}
    Steady <- MCStill
PROPERTIES
    OffReachesZero
    ImmediateCharges
    QueuedCyclesRun
