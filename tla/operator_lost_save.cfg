SPECIFICATION UpstreamSpec
CONSTANTS
    Ids = {1, 2, 3}
    Names = {a, b}
    Root = Root
    MaxEdits = 3
    MaxDepth = 2
    RETRY_COUNT_MAX = 2
    Faults = {}
    Renaming = {"file"}
    Seeds = {"empty"}
PROPERTIES
    LocalEditsSurvive
\* The users may stop, and a failed job is never left.
CHECK_DEADLOCK FALSE
