SPECIFICATION Spec
CONSTANTS
    Paths = {a, b, c}
    MaxEdits = 5
INVARIANTS
    TypeOK
    SameFiles
    SameBytesUnlessRenamed
\* The users may stop while the listener waits for the channel.
CHECK_DEADLOCK FALSE
