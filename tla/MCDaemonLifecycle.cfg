SPECIFICATION Spec
CONSTANTS
    Pid = {p1, p2}
    Shell = {a}
    Port = {n1, n2}
    Release = {old, new}
    MaxCommands = 2
    MaxMishaps = 1
    None = None
CHECK_DEADLOCK FALSE
INVARIANTS
    DaemonInv
    ShellsKeepWorking
    OffRestores
PROPERTIES
    StartedPortIsLive
    CommandsEnd
