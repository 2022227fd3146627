-------------------------- MODULE RelaySequencer --------------------------
(***************************************************************************)
(* sdroxide_relay::driver::Sequencer: which contacts should be in which    *)
(* state at this instant.  It has no thread, no transport and no clock of  *)
(* its own; RelayWorker gives it all three.                                *)
(*                                                                         *)
(* Time is counted in ticks.  The sequencer only ever compares the age of  *)
(* the last on-air edge with its schedule, so the age is kept instead of   *)
(* two instants, and stops counting at MaxAge, which no schedule exceeds.  *)
(***************************************************************************)
EXTENDS Naturals, FiniteSets

CONSTANTS
    Channel,        \* the contacts on the board
    Band, NoBand,
    Config,         \* the RelayConfigs in play
    Unknown,        \* applied = None
    MAX_TRIES,
    TestPulse,      \* TEST_PULSE, in ticks
    MaxAge

\* A configuration, resolved as adopt resolves it: a contact in no role is not
\* managed, and a row of the band table moves only band-decoder contacts.
ASSUME ConfigAssumption ==
    /\ NoBand \notin Band
    /\ \A c \in Config :
          /\ c.managed \subseteq Channel
          /\ c.decoder \subseteq c.managed
          /\ c.inverted \subseteq c.managed
          /\ c.lead \in [Channel -> 0 .. MaxAge]
          /\ c.hold \in [Channel -> 0 .. MaxAge]
          /\ c.rxWord \in [Band -> SUBSET c.decoder]
          /\ c.txWord \in [Band -> SUBSET c.decoder]
\* None is no mask.
ASSUME UnknownAssumption == \A mask \in SUBSET Channel : mask # Unknown
ASSUME TriesAssumption == MAX_TRIES \in Nat \ {0}
ASSUME TimeAssumption == TestPulse \in Nat \ {0} /\ MaxAge \in Nat

VARIABLES
    cfg,                        \* slots, managed, inverted, decoder, band_words
    engineOnAir, senseOnAir,
    age,                        \* now - edge
    asserted,
    rxBand, txBand, txBandPending,
    applied,
    test, testLeft,             \* the contact under test, and the rest of its pulse
    failures, present

seqVars == <<cfg, engineOnAir, senseOnAir, age, asserted, rxBand, txBand, txBandPending,
             applied, test, testLeft, failures, present>>

MaybeBand == Band \cup {NoBand}

SeqTypeOK ==
    /\ cfg \in Config
    /\ engineOnAir \in BOOLEAN /\ senseOnAir \in BOOLEAN
    /\ age \in 0 .. MaxAge
    /\ asserted \subseteq cfg.managed
    /\ rxBand \in MaybeBand /\ txBand \in MaybeBand /\ txBandPending \in MaybeBand
    /\ applied \in {Unknown} \cup SUBSET Channel
    /\ test \in {{}} \cup {{c} : c \in Channel}
    /\ testLeft \in 0 .. TestPulse
    /\ failures \in 0 .. MAX_TRIES
    /\ present \in BOOLEAN

SeqInit ==
    /\ cfg \in Config
    /\ engineOnAir = FALSE /\ senseOnAir = FALSE
    /\ age = 0
    /\ asserted = {}
    /\ rxBand = NoBand /\ txBand = NoBand /\ txBandPending = NoBand
    /\ applied = Unknown
    /\ test = {} /\ testLeft = 0
    /\ failures = 0 /\ present = TRUE

-----------------------------------------------------------------------------
OnAir == engineOnAir \/ senseOnAir

\* max_lead: the largest of the managed contacts' leads, zero if there is none.
MaxLead(c) ==
    IF c.managed = {} THEN 0
    ELSE CHOOSE m \in {c.lead[ch] : ch \in c.managed} : \A ch \in c.managed : c.lead[ch] =< m

\* The longest lead closes at the edge and the others are staggered behind it.
RiseOf(c, ch) == MaxLead(c) - c.lead[ch]
FallOf(c, ch) == c.hold[ch]

FollowsTxWord(contacts) == contacts \cap cfg.decoder # {}

TakePending ==
    /\ txBand' = IF txBandPending = NoBand THEN txBand ELSE txBandPending
    /\ txBandPending' = NoBand

Word(table, b) == IF b = NoBand THEN {} ELSE table[b]

Xor(a, b) == (a \ b) \cup (b \ a)

\* The contacts in their transmit position, polarity not yet applied: an
\* ordinary contact while asserted, a band-decoder one as its word says.
Logical ==
    (asserted \ cfg.decoder)
    \cup (asserted \cap Word(cfg.txWord, txBand))
    \cup (Word(cfg.rxWord, rxBand) \ asserted)
    \cup test

\* want: the coils to energise.
Want == Xor(Logical, cfg.inverted) \cap cfg.managed

\* Slip: clear everything, whatever its polarity.
ReceiveMaskOff == {}

ReceiveMask == cfg.inverted \cap cfg.managed

-----------------------------------------------------------------------------
(* One action per operation.  inputs that do not change the state are the  *)
(* caller's business.                                                      *)

SetConfig(c) ==
    /\ cfg' = c
    /\ asserted' = asserted \cap c.managed
    /\ applied' = Unknown
    /\ failures' = 0 /\ present' = TRUE
    /\ UNCHANGED <<engineOnAir, senseOnAir, age, rxBand, txBand, txBandPending, test, testLeft>>

\* Slip: a key-down that leaves the held-back band where it is.
SetEngineKeepsBand(on) ==
    /\ engineOnAir' = on
    /\ age' = IF (on \/ senseOnAir) = OnAir THEN age ELSE 0
    /\ UNCHANGED <<cfg, senseOnAir, asserted, rxBand, txBand, txBandPending, applied, test,
                   testLeft, failures, present>>

\* Slip: an edge that does not restart the clock on the way out.
SetEngineKeepsClock(on) ==
    /\ engineOnAir' = on
    /\ age' = IF on /\ ~OnAir THEN 0 ELSE age
    /\ IF on /\ ~OnAir THEN TakePending ELSE UNCHANGED <<txBand, txBandPending>>
    /\ UNCHANGED <<cfg, senseOnAir, asserted, rxBand, applied, test, testLeft, failures, present>>

\* The edge restarts the clock; a key-down of the engine's also takes the band
\* held back from the last over, which its lead covers.
SetEngine(on) ==
    /\ engineOnAir' = on
    /\ age' = IF (on \/ senseOnAir) = OnAir THEN age ELSE 0
    /\ IF on /\ ~OnAir THEN TakePending ELSE UNCHANGED <<txBand, txBandPending>>
    /\ UNCHANGED <<cfg, senseOnAir, asserted, rxBand, applied, test, testLeft, failures, present>>

SetSense(on) ==
    /\ senseOnAir' = on
    /\ age' = IF (on \/ engineOnAir) = OnAir THEN age ELSE 0
    /\ UNCHANGED <<cfg, engineOnAir, asserted, rxBand, txBand, txBandPending, applied, test,
                   testLeft, failures, present>>

SetRxBand(b) ==
    /\ rxBand' = b
    /\ UNCHANGED <<cfg, engineOnAir, senseOnAir, age, asserted, txBand, txBandPending, applied,
                   test, testLeft, failures, present>>

\* Slip: a transmit band taken the moment it arrives.
SetTxBandAtOnce(b) ==
    /\ txBand' = b /\ txBandPending' = NoBand
    /\ UNCHANGED <<cfg, engineOnAir, senseOnAir, age, asserted, rxBand, applied, test, testLeft,
                   failures, present>>

SetTxBand(b) ==
    /\ IF OnAir \/ FollowsTxWord(asserted)
         THEN txBandPending' = b /\ UNCHANGED txBand
         ELSE txBand' = b /\ txBandPending' = NoBand
    /\ UNCHANGED <<cfg, engineOnAir, senseOnAir, age, asserted, rxBand, applied, test, testLeft,
                   failures, present>>

AbortOver ==
    /\ engineOnAir' = FALSE /\ senseOnAir' = FALSE
    /\ asserted' = {}
    /\ test' = {} /\ testLeft' = 0
    /\ age' = 0
    /\ TakePending
    /\ UNCHANGED <<cfg, rxBand, applied, failures, present>>

\* Refused while anything is on the air, and for a contact not managed.
StartTest(ch) ==
    /\ IF ch \in cfg.managed /\ ~OnAir
         THEN test' = {ch} /\ testLeft' = TestPulse
         ELSE UNCHANGED <<test, testLeft>>
    /\ UNCHANGED <<cfg, engineOnAir, senseOnAir, age, asserted, rxBand, txBand, txBandPending,
                   applied, failures, present>>

\* Move asserted, and the test pulse, to where the clock says they should be.
Advance ==
    /\ test' = IF testLeft = 0 THEN {} ELSE test
    /\ IF OnAir
         THEN /\ asserted' = asserted \cup {ch \in cfg.managed : age >= RiseOf(cfg, ch)}
              /\ UNCHANGED <<txBand, txBandPending>>
         ELSE /\ asserted' = {ch \in asserted : age < FallOf(cfg, ch)}
              /\ IF FollowsTxWord(asserted')
                   THEN UNCHANGED <<txBand, txBandPending>>
                   ELSE TakePending
    /\ UNCHANGED <<cfg, engineOnAir, senseOnAir, age, rxBand, applied, testLeft, failures, present>>

\* Slip: only what is not known is written.
DueIfUnknown == applied' = Unknown

\* due, as an answer: something to write, once advanced.
DueAfterAdvance == applied' # Want'

OnAck(mask) ==
    /\ applied' = mask
    /\ failures' = 0
    /\ UNCHANGED <<cfg, engineOnAir, senseOnAir, age, asserted, rxBand, txBand, txBandPending,
                   test, testLeft, present>>

Invalidate ==
    /\ applied' = Unknown
    /\ UNCHANGED <<cfg, engineOnAir, senseOnAir, age, asserted, rxBand, txBand, txBandPending,
                   test, testLeft, failures, present>>

\* Slip: one failure more before the hardware is given up on.
OnErrorOnceMore ==
    /\ applied' = Unknown
    /\ failures' = failures + 1
    /\ present' = (failures + 1 =< MAX_TRIES)
    /\ UNCHANGED <<cfg, engineOnAir, senseOnAir, age, asserted, rxBand, txBand, txBandPending,
                   test, testLeft>>

\* Slip: a failed write that leaves the belief it failed to bring about.
OnErrorKeepsBelief ==
    /\ failures' = failures + 1
    /\ present' = (failures + 1 < MAX_TRIES)
    /\ applied' = Want
    /\ UNCHANGED <<cfg, engineOnAir, senseOnAir, age, asserted, rxBand, txBand, txBandPending,
                   test, testLeft>>

OnError ==
    /\ applied' = Unknown
    /\ failures' = failures + 1
    /\ present' = (failures + 1 < MAX_TRIES)
    /\ UNCHANGED <<cfg, engineOnAir, senseOnAir, age, asserted, rxBand, txBand, txBandPending,
                   test, testLeft>>

\* next_change: how long until the schedule has something to do, or NoChange.
ChangesIn ==
    LET slots == IF OnAir
                   THEN {RiseOf(cfg, ch) : ch \in cfg.managed \ asserted}
                   ELSE {FallOf(cfg, ch) : ch \in asserted}
    IN  {t - age : t \in {s \in slots : s > age}} \cup ({testLeft} \ {0})

\* One tick of the clock, as this state sees it.
SeqTick ==
    /\ age' = IF age < MaxAge THEN age + 1 ELSE age
    /\ testLeft' = IF testLeft > 0 THEN testLeft - 1 ELSE 0
    /\ UNCHANGED <<cfg, engineOnAir, senseOnAir, asserted, rxBand, txBand, txBandPending, applied,
                   test, failures, present>>
=============================================================================
