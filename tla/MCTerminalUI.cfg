SPECIFICATION Spec
CONSTANTS
    None = None
    MaxRows = 3
    MaxPending = 3
    MaxKeys = 2
    ContentHeight = 4
    FilterBarHeight = 2
INVARIANT SelectionOnScreen
INVARIANT DetailsAreOfSelection
PROPERTY ArrivalsKeepTheView
CHECK_DEADLOCK FALSE
