SPECIFICATION Spec
CONSTANTS
    None = None
    Options <- MCOptions
    Averages = {None}
    Socs = {None}
    SettingValues <- MCSettings
    UnplugReset = 1
    DoneAfter = 1
    MaxWait = 0
    AgeCap = 1
    DefaultOptions <- MCDefault
    DefaultSettings <- MCDefaultSettings
    Forms <- MCForms
    Stops = {"unload"}
PROPERTIES
    OffStaysOff
