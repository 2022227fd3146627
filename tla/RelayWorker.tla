---------------------------- MODULE RelayWorker ----------------------------
(***************************************************************************)
(* The thread that drives one T/R switch: its channel, its loop, a         *)
(* transport that takes time and may fail, and the contacts themselves.    *)
(* Around it, one caller that keys the way lead_tr_switch does: key-down,  *)
(* wait out the lead, radiate, key-up.                                     *)
(*                                                                         *)
(* Time passes only while the worker is blocked, in the transport or in    *)
(* its sleep; what it does in between takes none.  A thread whose sleep is *)
(* over runs before the caller does at the same tick.                      *)
(***************************************************************************)
EXTENDS RelaySequencer, Sequences

CONSTANTS
    Restates,       \* an LCUS board: it cannot be asked, so it is told again
    RoundTrip,      \* what one command costs on this link
    BaseTick,       \* IDLE_TICK, or SENSE_TICK where a line is wired
    MAX_TR_LEAD,
    SenseBand,      \* what over_ended sends after every over, or NoBand
    Happens,        \* which of Event the run allows
    MaxInbox,       \* bound on the channel, unbounded in the program
    MaxTests        \* bound on the presses of the test button

Event == {"test", "fail", "config", "rxTune", "retune", "refuse", "readBack", "disturb",
          "line", "shutdown"}

ASSUME HappensAssumption == Happens \subseteq Event
ASSUME LinkAssumption ==
    /\ Restates \in BOOLEAN
    /\ RoundTrip \in Nat \ {0} /\ BaseTick \in Nat \ {0} /\ MAX_TR_LEAD \in Nat
ASSUME SenseBandAssumption == SenseBand \in MaybeBand
ASSUME BoundsAssumption == MaxInbox \in Nat /\ MaxTests \in Nat

VARIABLES
    last, contacts, \* the transport's: see RelayTransport
    inbox,
    pc,             \* where the loop is
    left,           \* the rest of the transport call it is blocked in
    writing,        \* the mask being written
    sleepLeft,
    sensed,         \* the last level seen on the line
    line,           \* the transmitter the sense input watches is keyed
    disturbed,      \* the board was disturbed, once
    tests,          \* presses of the test button so far, up to MaxTests
    over,           \* the caller: "rx", "lead" or "tx" -- RF is out in "tx"
    wait,           \* the rest of its sleep
    overBand,       \* the band of its last key-down
    offAge,         \* ticks since its last carrier ended, up to MaxAge
    refused         \* its last key-down came to nothing

Board == INSTANCE RelayTransport

boardVars == <<last, contacts>>
workerVars == <<inbox, pc, left, writing, sleepLeft, sensed>>
callerVars == <<over, wait, overBand, offAge, refused>>
worldVars == <<line, disturbed, tests>>
vars == <<seqVars, last, contacts, workerVars, worldVars, callerVars>>

Key(on) == [op |-> "key", on |-> on]
Abort == [op |-> "abort"]
Shutdown == [op |-> "shutdown"]
RxBand(b) == [op |-> "rxBand", band |-> b]
TxBand(b) == [op |-> "txBand", band |-> b]
Test(ch) == [op |-> "test", channel |-> ch]
Adopt(c) == [op |-> "config", config |-> c]

Ctrl == {Key(on) : on \in BOOLEAN} \cup {Abort, Shutdown}
        \cup {RxBand(b) : b \in Band} \cup {TxBand(b) : b \in Band}
        \cup {Test(ch) : ch \in Channel} \cup {Adopt(c) : c \in Config}

RelayTypeOK ==
    /\ SeqTypeOK /\ Board!BoardTypeOK
    /\ inbox \in Seq(Ctrl)
    /\ pc \in {"drain", "sense", "due", "writing", "readBack", "reading", "sleep", "standDown", "done"}
    /\ left \in 0 .. RoundTrip
    /\ writing \subseteq Channel
    /\ sleepLeft \in 0 .. BaseTick
    /\ sensed \in {"none", "keyed", "clear"}
    /\ line \in BOOLEAN
    /\ disturbed \in BOOLEAN
    /\ tests \in 0 .. MaxTests
    /\ over \in {"rx", "lead", "tx"}
    /\ wait \in 0 .. MAX_TR_LEAD
    /\ overBand \in MaybeBand
    /\ offAge \in 0 .. MaxAge
    /\ refused \in BOOLEAN

Init ==
    /\ SeqInit
    /\ inbox = <<>>
    /\ pc = "drain" /\ left = 0 /\ writing = {} /\ sleepLeft = 0
    /\ sensed = "none" /\ line = FALSE /\ disturbed = FALSE /\ tests = 0
    /\ contacts \in SUBSET Channel /\ last = Unknown
    /\ over = "rx" /\ wait = 0 /\ overBand = NoBand /\ offAge = MaxAge /\ refused = FALSE

Smaller(a, b) == IF a < b THEN a ELSE b

At(label) == pc = label
Goto(label) == pc' = label

-----------------------------------------------------------------------------
(* apply_ctrl, from the drain at the top of the loop or the wake-up at the *)
(* bottom.                                                                 *)

\* Slip: a message that wakes the thread is not applied.
TakesAtTop == At("drain")

Takes == At("drain") \/ At("sleep")
Message(op) == Takes /\ inbox # <<>> /\ Head(inbox).op = op /\ inbox' = Tail(inbox)

Handle ==
    LET m == Head(inbox)
    IN  \/ Message("key") /\ SetEngine(m.on)
        \/ Message("abort") /\ AbortOver
        \/ Message("rxBand") /\ SetRxBand(m.band)
        \/ Message("txBand") /\ SetTxBand(m.band)
        \/ Message("test") /\ StartTest(m.channel)
        \/ Message("config") /\ SetConfig(m.config)

TakeMessage ==
    /\ Handle
    /\ Goto("drain") /\ sleepLeft' = 0
    /\ UNCHANGED <<left, writing, sensed, boardVars, worldVars, callerVars>>

\* The loop returns; the contacts are still to be put back.
TakeShutdown ==
    /\ Message("shutdown")
    /\ Goto("standDown") /\ sleepLeft' = 0 /\ writing' = ReceiveMask
    /\ left' = IF Board!NothingToSend(ReceiveMask) THEN 0 ELSE RoundTrip
    /\ UNCHANGED <<seqVars, sensed, boardVars, worldVars, callerVars>>

Drained ==
    /\ At("drain") /\ inbox = <<>>
    /\ Goto("sense")
    /\ UNCHANGED <<seqVars, inbox, left, writing, sleepLeft, sensed, boardVars, worldVars, callerVars>>

-----------------------------------------------------------------------------
(* The rest of the loop.                                                   *)

Level == IF line THEN "keyed" ELSE "clear"

Look ==
    /\ At("sense")
    /\ Goto("due")
    /\ IF "line" \in Happens /\ sensed # Level
         THEN SetSense(line) /\ sensed' = Level
         ELSE UNCHANGED <<seqVars, sensed>>
    /\ UNCHANGED <<inbox, left, writing, sleepLeft, boardVars, worldVars, callerVars>>

\* A transport that has nothing to send answers at once.
StartWrite(want) ==
    /\ Goto("writing") /\ writing' = want
    /\ left' = IF Board!NothingToSend(want) THEN 0 ELSE RoundTrip

\* Nothing is written to hardware that has been given up on.
Due ==
    /\ At("due")
    /\ IF present THEN Advance ELSE UNCHANGED seqVars
    /\ IF present /\ DueAfterAdvance
         THEN StartWrite(Want')
         ELSE Goto("readBack") /\ UNCHANGED <<left, writing>>
    /\ UNCHANGED <<inbox, sleepLeft, sensed, boardVars, worldVars, callerVars>>

quietWorker == <<left, writing, sleepLeft, sensed>>

WriteOk ==
    /\ At("writing") /\ left = 0
    /\ Board!Apply(writing) /\ OnAck(writing)
    /\ Goto("readBack")
    /\ UNCHANGED <<inbox, quietWorker, worldVars, callerVars>>

WriteFails ==
    /\ "fail" \in Happens
    /\ At("writing") /\ left = 0 /\ ~Board!NothingToSend(writing)
    /\ Board!ApplyFails(writing) /\ OnError
    /\ Goto("readBack")
    /\ UNCHANGED <<inbox, quietWorker, worldVars, callerVars>>

\* READBACK_INTERVAL is longer than anything else here: a read-back may be due
\* whenever the station is receiving.
StartReadBack ==
    /\ "readBack" \in Happens
    /\ At("readBack") /\ ~OnAir
    /\ Goto("reading") /\ left' = RoundTrip
    /\ UNCHANGED <<seqVars, inbox, writing, sleepLeft, sensed, boardVars, worldVars, callerVars>>

Slumber ==
    /\ Goto("sleep")
    /\ sleepLeft' = CHOOSE t \in ChangesIn \cup {BaseTick} :
                        \A u \in ChangesIn \cup {BaseTick} : t =< u
    /\ UNCHANGED <<inbox, left, writing, sensed, worldVars, callerVars>>

SkipReadBack == At("readBack") /\ Slumber /\ UNCHANGED <<seqVars, boardVars>>

\* A board that answers and disagrees is to be written again; what the
\* transport believes it last wrote is not touched.
ReadBack ==
    /\ At("reading") /\ left = 0 /\ ~Restates
    /\ IF contacts = Want THEN UNCHANGED seqVars ELSE Invalidate
    /\ Slumber /\ UNCHANGED boardVars

\* A board that cannot answer is told again.
RestateBoard ==
    /\ At("reading") /\ left = 0 /\ Restates
    /\ Board!Restate \/ ("fail" \in Happens /\ Board!RestateFails)
    /\ Slumber /\ UNCHANGED seqVars

WakeUp ==
    /\ At("sleep") /\ sleepLeft = 0 /\ inbox = <<>>
    /\ Goto("drain")
    /\ UNCHANGED <<seqVars, inbox, quietWorker, boardVars, worldVars, callerVars>>

\* Back to receive, whatever happened above: written once, and not retried.
StandDown ==
    /\ At("standDown") /\ left = 0
    /\ \/ Board!Apply(writing)
       \/ "fail" \in Happens /\ Board!ApplyFails(writing)
    /\ Goto("done")
    /\ UNCHANGED <<seqVars, inbox, quietWorker, worldVars, callerVars>>

Worker ==
    \/ TakeMessage \/ TakeShutdown \/ Drained \/ Look \/ Due \/ WriteOk \/ WriteFails
    \/ StartReadBack \/ SkipReadBack \/ ReadBack \/ RestateBoard
    \/ WakeUp \/ StandDown

Blocked ==
    \/ pc \in {"writing", "reading", "standDown"} /\ left > 0
    \/ At("sleep") /\ sleepLeft > 0 /\ inbox = <<>>
    \/ At("done")

-----------------------------------------------------------------------------
(* The caller, through the hub.                                            *)

Open == Shutdown \notin {inbox[i] : i \in DOMAIN inbox} /\ pc \notin {"standDown", "done"}

Send(msgs) == Open /\ Len(inbox) + Len(msgs) =< MaxInbox /\ inbox' = inbox \o msgs

AfterOver == IF SenseBand = NoBand THEN <<>> ELSE <<TxBand(SenseBand)>>

KeyDown ==
    /\ over = "rx"
    /\ \E b \in Band : Send(<<TxBand(b), Key(TRUE)>>) /\ overBand' = b
    /\ over' = "lead"
    /\ wait' = Smaller(MaxLead(cfg) + RoundTrip, MAX_TR_LEAD)
    /\ UNCHANGED <<seqVars, pc, quietWorker, boardVars, worldVars, offAge, refused>>

Radiate ==
    /\ over = "lead" /\ wait = 0 /\ Blocked
    /\ over' = "tx" /\ refused' = FALSE
    /\ UNCHANGED <<seqVars, workerVars, boardVars, worldVars, wait, overBand, offAge>>

\* tx_begin failed after the lead: no RF, and no hold to wait for.
Refuse ==
    /\ "refuse" \in Happens
    /\ over = "lead" /\ wait = 0 /\ Blocked
    /\ over' = "rx" /\ refused' = TRUE
    /\ Send(<<Abort>> \o AfterOver)
    /\ UNCHANGED <<seqVars, pc, quietWorker, boardVars, worldVars, wait, overBand, offAge>>

KeyUp ==
    /\ over = "tx"
    /\ over' = "rx" /\ offAge' = 0
    /\ Send(<<Key(FALSE)>> \o AfterOver)
    /\ UNCHANGED <<seqVars, pc, quietWorker, boardVars, worldVars, wait, overBand, refused>>

\* The keyer's own dial, moved mid-over.
Retune ==
    /\ "retune" \in Happens
    /\ over = "tx"
    /\ \E b \in Band : Send(<<TxBand(b)>>)
    /\ UNCHANGED <<seqVars, pc, quietWorker, boardVars, worldVars, callerVars>>

RxTune ==
    /\ "rxTune" \in Happens
    /\ \E b \in Band : Send(<<RxBand(b)>>)
    /\ UNCHANGED <<seqVars, pc, quietWorker, boardVars, worldVars, callerVars>>

PressTest ==
    /\ "test" \in Happens
    /\ tests < MaxTests /\ tests' = tests + 1
    /\ \E ch \in Channel : Send(<<Test(ch)>>)
    /\ UNCHANGED <<seqVars, pc, quietWorker, boardVars, line, disturbed, callerVars>>

\* Off the air: a caller with the switch thrown does not reconfigure it.
Configure ==
    /\ "config" \in Happens
    /\ over = "rx"
    /\ \E c \in Config : Send(<<Adopt(c)>>)
    /\ UNCHANGED <<seqVars, pc, quietWorker, boardVars, worldVars, callerVars>>

Close ==
    /\ "shutdown" \in Happens
    /\ over = "rx"
    /\ Send(<<Shutdown>>)
    /\ UNCHANGED <<seqVars, pc, quietWorker, boardVars, worldVars, callerVars>>

Caller == KeyDown \/ Radiate \/ Refuse \/ KeyUp \/ Retune \/ RxTune \/ PressTest \/ Configure \/ Close

-----------------------------------------------------------------------------
(* The world.                                                              *)

ToggleLine ==
    /\ "line" \in Happens
    /\ line' = ~line
    /\ UNCHANGED <<seqVars, boardVars, workerVars, disturbed, tests, callerVars>>

\* A flat supply or a stuck relay, once, while receiving.
Disturb ==
    /\ "disturb" \in Happens
    /\ over = "rx" /\ ~disturbed
    /\ disturbed' = TRUE
    /\ \E ch \in Channel : contacts' = Xor(contacts, {ch})
    /\ UNCHANGED <<seqVars, workerVars, last, line, tests, callerVars>>

Tick ==
    /\ Blocked
    /\ SeqTick
    /\ left' = IF left > 0 THEN left - 1 ELSE 0
    /\ sleepLeft' = IF sleepLeft > 0 THEN sleepLeft - 1 ELSE 0
    /\ wait' = IF wait > 0 THEN wait - 1 ELSE 0
    /\ offAge' = IF over # "tx" /\ offAge < MaxAge THEN offAge + 1 ELSE offAge
    /\ UNCHANGED <<inbox, pc, writing, sensed, boardVars, worldVars, over, overBand, refused>>

Next == Worker \/ Caller \/ ToggleLine \/ Disturb \/ Tick

Spec == Init /\ [][Next]_vars

\* The thread runs, the clock runs, the caller's sleep ends, and a station that
\* keeps receiving gets to its READBACK_INTERVAL.
Fairness ==
    /\ WF_vars(Worker) /\ WF_vars(Tick) /\ WF_vars(Radiate \/ Refuse)
    /\ SF_vars(StartReadBack)

FairSpec == Spec /\ Fairness

-----------------------------------------------------------------------------
(* Safety.                                                                 *)

(* Contacts lead the RF only on a bank whose times leave room for it, and   *)
(* driver.rs does not ask for any.  Timely is such a bank.                 *)

\* Whatever a key-down finds the worker at, the last contact is written before
\* the caller's wait is over: a read-back and a write may be in front of it.
LastBy(r) ==
    \A c \in Config :
        /\ \A ch \in c.managed : RiseOf(c, ch) =< r
        /\ r + 3 * RoundTrip =< Smaller(MaxLead(c) + RoundTrip, MAX_TR_LEAD)

LeadsSuffice == \E r \in 0 .. MaxAge : LastBy(r)

\* No contact falls due while an earlier one is being written: ChangesIn, taken
\* after the write, would not see it.
Spaced ==
    \A c \in Config : \A first, second \in c.managed :
        RiseOf(c, first) < RiseOf(c, second) => RiseOf(c, first) + RoundTrip < RiseOf(c, second)

\* A filter that the receive band still moves during the lead is such a write.
FiltersFirst ==
    "rxTune" \in Happens => \A c \in Config : \A ch \in c.decoder : RiseOf(c, ch) = 0

Timely == LeadsSuffice /\ Spaced /\ FiltersFirst

\* Nothing fails, nothing disturbs the board and nothing but the caller keys.
Undisturbed == Happens \cap {"fail", "disturb", "line", "test"} = {}

Ordinary == cfg.managed \ cfg.decoder
InTransmit(ch) == (ch \in contacts) # (ch \in cfg.inverted)
Filters == Xor(contacts, cfg.inverted) \cap cfg.decoder

\* Contacts first, drive second: while RF is out every ordinary contact is in
\* its transmit state and the filters stand on the keyed band's transmit word.
BankLeadsRf ==
    over = "tx" => /\ \A ch \in Ordinary : InTransmit(ch)
                   /\ Filters = cfg.txWord[overBand]

\* No relay is thrown under live RF: not by a retune, a receive band, a
\* read-back, or the schedule itself.  A test pulse is another matter: one that
\* was started before the key-down can end under its RF (Sequencer::test).
NoHotSwitch == [][over = "tx" /\ over' = "tx" => contacts' = contacts]_vars

\* A contact stays closed for its hold after the RF it was closed for, unless
\* a later key-down came to nothing and dropped everything at once, or the
\* worker was told to go.
HoldKept ==
    [][\A ch \in Ordinary :
          InTransmit(ch) /\ ~InTransmit(ch)' /\ ~refused /\ ~At("standDown")
          => offAge >= FallOf(cfg, ch)]_vars

\* Hardware that was given up on is left alone until it is configured again,
\* or put back to receive on the way out.
LeftAlone ==
    [][~present /\ ~present' /\ pc # "standDown" /\ disturbed' = disturbed
       => contacts' = contacts]_vars

\* Whatever the worker was doing when its handle was dropped, no contact is
\* left in its transmit state, whichever of its states that is, unless the one
\* write that puts it back was refused.
StoodDown ==
    At("done") /\ last # Unknown => \A ch \in Ordinary : ~InTransmit(ch)

\* While the worker believes anything of an undisturbed board, that is what the
\* board holds: through refused writes, restatements and failures alike.
BeliefHolds == applied # Unknown /\ ~disturbed /\ ~At("done") => contacts = applied

-----------------------------------------------------------------------------
(* What the engines may rely on.                                            *)

Running == pc \notin {"standDown", "done"}

Promise == INSTANCE RelayContacts WITH
    Decoder <- Channel \cap UNION {c.decoder : c \in Config},
    running <- Running,
    closed <- IF Running THEN asserted ELSE {}

\* The thread, its clock, its transport and its schedule implement the contacts
\* RelayContacts promises.
KeepsPromise == Promise!ContactsSpec

-----------------------------------------------------------------------------
(* Liveness.                                                               *)

\* A station that stays in receive ends up with every contact where the receive
\* band wants it, a board disturbed once included.  Two things excuse it: the
\* hardware was given up on, or a disturbed board's restatement failed, after
\* which the transport knows of nothing to restate.
BankReturns ==
    <>[](over = "rx" /\ ~line /\ Open)
    => <>[](\/ ~present
            \/ asserted = {} /\ (contacts = Want \/ (disturbed /\ last = Unknown)))

\* ... and one that stays keyed with every contact thrown: nothing is read back,
\* so a disturbance is not seen while it lasts.
OverTakes ==
    <>[](over = "tx")
    => <>[](~present \/ disturbed \/ \A ch \in Ordinary : InTransmit(ch))

\* A handle that is dropped gets its thread joined.
WorkerEnds == ~Open ~> At("done")
=============================================================================
