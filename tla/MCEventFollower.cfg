SPECIFICATION Spec
CONSTANTS
    Capacity = 2
    LatestDefault = 2
    FirstLimit = 1
    MaxEvents = 4
    MaxClears = 1
    MaxPolls = 2
    MaxFailures = 1
INVARIANTS
    LogInv
    FollowerInv
PROPERTIES
    ImplementsWindow
    NewestGetsPrinted
