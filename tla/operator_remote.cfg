SPECIFICATION RemoteSpec
CONSTANTS
    Ids = {1, 2, 3}
    Names = {a, b}
    Root = Root
    MaxEdits = 4
    MaxDepth = 2
    RETRY_COUNT_MAX = 2
    Faults = {"timeout", "broken", "lost"}
    Renaming = {"file", "folder"}
    Seeds = {"empty", "nested"}
INVARIANTS
    DownstreamConverged
    NoAncestryLoop
\* The users may stop, and a failed job is never left.
CHECK_DEADLOCK FALSE
