SPECIFICATION FairSpec
CONSTANTS
    Paths = {a, b}
    MaxEdits = 3
PROPERTIES
    HandedOver
\* The users may stop while the listener waits for the channel.
CHECK_DEADLOCK FALSE
