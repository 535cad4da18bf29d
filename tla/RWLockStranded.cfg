CONSTANTS
    Readers = {r1}
    Writers = {w1}
    WRITER_BIT = 8
    WakeMod = 4
    MaxCalls = 2
SPECIFICATION FairSpec
PROPERTY NotStranded
CHECK_DEADLOCK FALSE
