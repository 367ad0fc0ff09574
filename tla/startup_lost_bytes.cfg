SPECIFICATION RecoverySpec
CONSTANTS
    Ids = {1, 2, 3}
    Names = {a, b}
    Root = Root
    MaxEdits = 2
    MaxDepth = 2
    RETRY_COUNT_MAX = 2
    Faults = {}
    Renaming = {"file"}
    Seeds = {"empty", "nested"}
    MaxRuns = 2
PROPERTIES
    SpaceKept
\* The users may stop, and runs are bounded.
CHECK_DEADLOCK FALSE
