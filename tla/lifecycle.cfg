SPECIFICATION FairSpec
CONSTANTS
    Contents = {c}
    None = None
    StartedAs = {"asked", "once"}
    MaxEdits = 1
    MaxTroubles = 2
INVARIANTS
    TypeOK
    Told
    IgnoredForGood
PROPERTIES
    HeardIsDone
    Resumes
    SilencedEnd
    StopHonoured
    ErrorsAnswered
    StartupsAnswered
    IsSpaceRun
\* A run may rest with nothing to do, or be over.
CHECK_DEADLOCK FALSE
