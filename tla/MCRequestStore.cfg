SPECIFICATION StoreSpec
CONSTANTS
    Id = {r1, r2, r3}
    Timestamp = {1, 2}
    Interception = {mocked}
    NoInterception = none
    Initiator = {"tui", "cli"}
    NoReplay = none
    Filter = {"all", "saved", "unsaved", "responded", "intercepted"}
    Limit = {1, 2, 3}
    MaxStored = 1
    CheckInterval = 2
    CheckedSchema = TRUE
    MaxRestarts = 1
    MaxChange = 5
SYMMETRY MCSymmetry
INVARIANTS
    StoreInv
    DeltaComplete
    EvictionBound
PROPERTIES
    BookmarksSurvive
    ListOrderStable
    ChangesAreStamped
