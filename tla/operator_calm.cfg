SPECIFICATION CalmSpec
CONSTANTS
    Ids = {1, 2, 3, 4}
    Names = {a, b}
    Root = Root
    MaxEdits = 4
    MaxDepth = 2
    RETRY_COUNT_MAX = 2
    Faults = {}
    Renaming = {"file"}
    Seeds = {"empty", "nested"}
INVARIANTS
    Converged
    PathsFound
\* The users may stop, and a failed job is never left.
CHECK_DEADLOCK FALSE
