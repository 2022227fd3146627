SPECIFICATION Spec
CONSTANTS
    ant = ant
    amp = amp
    fil = fil
    b1 = b1
    b2 = b2
    Channel = {ant, amp, fil}
    Band = {b1, b2}
    NoBand = NoBand
    Unknown = Unknown
    Config <- MCShort
    MAX_TRIES = 2
    TestPulse = 3
    MaxAge = 2
    Restates = TRUE
    RoundTrip = 1
    BaseTick = 3
    MAX_TR_LEAD = 10
    SenseBand = NoBand
    Happens = {"fail", "line", "refuse", "shutdown", "test"}
    MaxInbox = 2
    MaxTests = 1
INVARIANTS RelayTypeOK StoodDown
PROPERTY KeepsPromise
CHECK_DEADLOCK FALSE
