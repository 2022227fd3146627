SPECIFICATION Spec
CONSTANTS
    ant = ant
    amp = amp
    fil = fil
    b1 = b1
    b2 = b2
    Channel = {ant, amp, fil}
    Band = {b1, b2}
    NoBand = NoBand
    Unknown = Unknown
    Config <- MCSpaced
    MAX_TRIES = 3
    TestPulse = 6
    MaxAge = 6
    Restates = FALSE
    RoundTrip = 1
    BaseTick = 8
    MAX_TR_LEAD = 10
    SenseBand = b2
    Happens = {"refuse", "retune", "rxTune", "readBack", "config", "shutdown"}
    MaxInbox = 3
    MaxTests = 1
INVARIANT BankLeadsRf
PROPERTIES NoHotSwitch HoldKept
CHECK_DEADLOCK FALSE
