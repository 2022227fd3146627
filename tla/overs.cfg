SPECIFICATION Spec
CONSTANTS
    r1 = r1
    r2 = r2
    r3 = r3
    c1 = c1
    b1 = b1
    b2 = b2
    Radio = {r1, r2, r3}
    NoRadio = NoRadio
    Channel = {c1}
    Decoder = {c1}
    Band = {b1, b2}
    NoBand = NoBand
    SenseRadio = r1
    Wired = FALSE
    MaxInbox = 5
    Happens = {"keyFails", "retune"}
    Primary = r1
    ConfigRadio = NoRadio
INVARIANTS OneTransmitter ContactsLeadRf SwitchFollowsRadios
PROPERTIES FilterReady NoHotFilterSwitch
SYMMETRY Sym
CHECK_DEADLOCK FALSE
