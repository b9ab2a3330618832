SPECIFICATION Spec
CONSTANTS
    file1 = file1
    file2 = file2
    Files <- TwoFiles
    Nested = {n}
    Content = {good, odd, bad}
    Broken = {bad}
    Invalid = {odd}
    Caller = {k}
    MaxEdits = 1
    None = None
CHECK_DEADLOCK FALSE
INVARIANTS
    LoaderInv
PROPERTIES
    WrittenIsLoaded
    ReloadsSettle
