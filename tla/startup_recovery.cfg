SPECIFICATION RecoverySpec
CONSTANTS
    Ids = {1, 2, 3}
    Names = {a, b}
    Root = Root
    MaxEdits = 3
    MaxDepth = 2
    RETRY_COUNT_MAX = 2
    Faults = {}
    Renaming = {"file"}
    Seeds = {"empty", "nested"}
    MaxRuns = 2
INVARIANTS
    StartupTypeOK
    StartupConverged
    NoOrphans
    SpaceFetched
    ColumnsFresh
PROPERTIES
    FolderKept
    PassesEnd
\* The users may stop, and runs are bounded.
CHECK_DEADLOCK FALSE
