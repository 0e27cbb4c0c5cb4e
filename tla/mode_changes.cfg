SPECIFICATION MSpec
CONSTANTS
    None = None
    Options <- MCPhases
    Averages = {None, 800, 4000}
    Socs = {70}
    SettingValues <- MCSettings
    UnplugReset = 1
    DoneAfter = 1
    MaxWait = 0
    AgeCap = 1
    Events = {"unplug", "malformed", "carpause"}
    Faults = {}
    InitStatuses = {"charging"}
    InitModes = {"manual"}
    UserModes = {"pv_surplus", "off", "immediate"}
    UserOps = {"pause", "power"}
    UserLimits = {}
    Steady <- MCNone
INVARIANTS
    TypeOK
    OneCommandAtATime
    CommandFitsMode
    ClocksFitMode
    RegisterHoldsCommand
    LoopHandsOff
PROPERTIES
    WritesWithinMax
    PolicyKept
