SPECIFICATION MCSpec
CONSTANTS
    SeqSpace = 30
    MAX_MISSING = 3
    TX_BUFFER = 2
    TRIES = 2
    Life = 2
    Pace = 1
    Silence = 5
    Sends <- MCSends
    Opening = 5
    Start = 26
    Last = 32
    None = None
    Idle = Idle
INVARIANTS StreamTypeOK AtMostOnce HighIsNewest NothingUnaccounted
PROPERTY GapsClose
CHECK_DEADLOCK FALSE
