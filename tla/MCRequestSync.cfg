SPECIFICATION Spec
CONSTANTS
    Id = {r1, r2}
    Timestamp = {1}
    Interception = {}
    NoInterception = none
    Initiator = {}
    NoReplay = none
    Filter = {"all", "saved"}
    Limit = {1}
    MaxStored = 1
    CheckInterval = 2
    CheckedSchema = TRUE
    MaxRestarts = 1
    MaxChange = 3
    SearchView = search
    PageSize = 1
    ListLimit = 1
    MaxSnapshotBatches = 2
    MaxDeltaBatches = 2
    OtherClients = TRUE
    UserActions = {"refresh", "view", "toggle", "clear"}
    MaxGeneration = 1
    MaxFailures = 1
INVARIANTS
    CursorCovers
    SyncInv
    ScreenIsMirror
PROPERTIES
    ListConverges
