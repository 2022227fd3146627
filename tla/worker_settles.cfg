SPECIFICATION FairSpec
CONSTANTS
    ant = ant
    amp = amp
    fil = fil
    b1 = b1
    b2 = b2
    Channel = {ant, amp, fil}
    Band = {b1, b2}
    NoBand = NoBand
    Unknown = Unknown
    Config <- MCSpaced
    MAX_TRIES = 3
    TestPulse = 6
    MaxAge = 6
    Restates = TRUE
    RoundTrip = 1
    BaseTick = 8
    MAX_TR_LEAD = 10
    SenseBand = NoBand
    Happens = {"fail", "shutdown", "refuse", "readBack", "disturb"}
    MaxInbox = 2
    MaxTests = 1
INVARIANT BeliefHolds
PROPERTIES LeftAlone BankReturns OverTakes WorkerEnds
CHECK_DEADLOCK FALSE
