SPECIFICATION MCSpec
CONSTANTS
    Station = {1, 2, 3}
    Nobody = Nobody
    TIMEOUT = 2
    LOST = 2
    REMOVE = 3
    Sender = 1
    Receiver = {2, 3}
    Block = {1, 2}
    ROUNDS = 2
INVARIANTS NetTypeOK DoneIsSaved ResendsDoNotMultiply
PROPERTIES OneMasterInTheEnd BackupTakesOver NewNetGetsMaster SenderStops ResumeCompletes
CHECK_DEADLOCK FALSE
