SPECIFICATION FairSpec
CONSTANTS
    a = a
    b = b
    w = w
    New = New
    None = None
    Addresses = {a, b}
    Workspaces = {w}
    FirstConfigs <- OneOrTwice
    MaxTroubles = 1
    MaxRuns = 3
    MaxRequests = 1
    MaxActs = 3
INVARIANTS
    TypeOK
    OneMaster
    NoStranger
    CanBeAnswered
    FileAgrees
PROPERTIES
    RunsAreSpaceRuns
    ReloadsTaken
    QuitEnds
\* The program may be gone, or its user away.
CHECK_DEADLOCK FALSE
