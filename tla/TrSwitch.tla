----------------------------- MODULE TrSwitch -----------------------------
(***************************************************************************)
(* The hub in front of the station's T/R switch: one bit per radio, a lock *)
(* around the band decoder's state, and a slot holding the driver.         *)
(*                                                                         *)
(* key, unkey and abort each touch the bit mask first, atomically and      *)
(* outside the lock, and speak to the driver afterwards, under it.  Those  *)
(* are two steps here, and other radios may step in between.               *)
(***************************************************************************)
EXTENDS RelayContacts, Radios

CONSTANTS
    SenseRadio, \* RelayConfig.sense.radio; NoRadio if no engine drives that radio
    Wired,      \* RelayConfig.sense.line is not Off
    MaxInbox    \* bound on the worker's channel, unbounded in the program

ASSUME SenseAssumption ==
    SenseRadio \in Radio \cup {NoRadio} /\ Wired \in BOOLEAN /\ (Wired => SenseRadio \in Radio)
ASSUME MaxInboxAssumption == MaxInbox \in Nat

VARIABLES
    bits,       \* on_air: the radios that claim to be on the air
    slot,       \* a driver is installed
    openError,  \* why the driver could not be opened is on record
    hubRx,      \* Bands.rx
    hubTx,      \* Bands.tx
    keyer,      \* Bands.keyer
    sensed,     \* the worker's last look at the sense line
    senseEdge   \* the edge nobody has consumed yet

hubVars == <<bits, slot, openError, hubRx, hubTx, keyer, sensed, senseEdge>>

Level == {"keyed", "clear"}
NoLevel == "none"

HubTypeOK ==
    /\ ContactsTypeOK
    /\ bits \subseteq Radio
    /\ slot \in BOOLEAN /\ openError \in BOOLEAN
    /\ hubRx \in MaybeBand /\ hubTx \in [Radio -> MaybeBand]
    /\ keyer \in Radio \cup {NoRadio}
    /\ sensed \in Level \cup {NoLevel} /\ senseEdge \in Level \cup {NoLevel}

\* Messages reach the driver only through the slot.
Tell(msgs) ==
    /\ Len(inbox) + Len(msgs) =< MaxInbox
    /\ inbox' = IF slot THEN inbox \o msgs ELSE inbox

\* Slip: a band sent before it is known.
TxBandMsgUnchecked(r) == IF r = NoRadio THEN <<>> ELSE <<TxBand(hubTx[r])>>

TxBandMsg(r) ==
    IF r = NoRadio \/ hubTx[r] = NoBand THEN <<>> ELSE <<TxBand(hubTx[r])>>

\* What a driver that cannot protect the over makes of a key-down: refused,
\* when the operator asked for FailSafe::RefuseTx (the default, taken here).
Refuses == openError \/ (slot /\ ~present)

workerVars == <<running, present, engineOnAir, senseOnAir, closed, rxBand, txBand, txBandPending>>

-----------------------------------------------------------------------------
(* key: fetch_or, then the keyer's band and the key-down under the lock.   *)

KeyClaim(r) ==
    /\ bits' = bits \cup {r}
    /\ UNCHANGED <<contactVars, slot, openError, hubRx, hubTx, keyer, sensed, senseEdge>>

\* The radio that found the mask empty is the one that sends.
KeySend(r) ==
    /\ keyer' = r
    /\ Tell(Append(TxBandMsg(r), Key(TRUE)))
    /\ UNCHANGED <<workerVars, bits, slot, openError, hubRx, hubTx, sensed, senseEdge>>

(* unkey and abort: fetch_and, then over_ended and the message.            *)

ReleaseClaim(r) ==
    /\ bits' = bits \ {r}
    /\ UNCHANGED <<contactVars, slot, openError, hubRx, hubTx, keyer, sensed, senseEdge>>

\* Slip: the mask fetch_and returns, read as the mask it leaves.
SendsAfter(r) == bits = {}

\* unkey goes on only if it cleared the last bit; abort does not ask whether
\* its own bit was set.
UnkeySends(r) == bits = {r}
AbortSends(r) == bits \subseteq {r}

OverEnded(msg) ==
    /\ keyer' = NoRadio
    /\ Tell(<<msg>> \o TxBandMsg(SenseRadio))
    /\ UNCHANGED <<workerVars, bits, slot, openError, hubRx, hubTx, sensed, senseEdge>>

UnkeySend == OverEnded(Key(FALSE))
AbortSend == OverEnded(Abort)

-----------------------------------------------------------------------------
(* set_rx_band and set_tx_band.                                            *)

\* The keyer's band mid-over, or the sense radio's between overs; anyone
\* else's waits for their own key-down.
Forwards(r) ==
    \/ keyer = r
    \/ keyer = NoRadio /\ bits = {} /\ r = SenseRadio

SetBands(r, b, primary) ==
    /\ hubRx' = IF primary THEN b ELSE hubRx
    /\ hubTx' = [hubTx EXCEPT ![r] = b]
    /\ Tell((IF primary THEN <<RxBand(b)>> ELSE <<>>)
            \o (IF Forwards(r) THEN <<TxBand(b)>> ELSE <<>>))
    /\ UNCHANGED <<workerVars, bits, slot, openError, keyer, sensed, senseEdge>>

\* test: refused by the driver, not here, while anything is on the air.  The
\* bound on the channel is kept from it, so that presses alone never fill it.
TestContact(ch) ==
    /\ Len(inbox) + 2 =< MaxInbox
    /\ Tell(<<Test(ch)>>)
    /\ UNCHANGED <<workerVars, bits, slot, openError, hubRx, hubTx, keyer, sensed, senseEdge>>

-----------------------------------------------------------------------------
(* install: the slot is swapped under the lock, the old driver dropped (a  *)
(* Shutdown, then a join) outside it.                                      *)

\* Slip: a handle dropped without its Shutdown.
InstallNoneQuietly ==
    /\ slot' = FALSE
    /\ UNCHANGED <<contactVars, bits, openError, hubRx, hubTx, keyer, sensed, senseEdge>>

InstallNone ==
    /\ slot' = FALSE
    /\ inbox' = IF slot THEN Append(inbox, Shutdown) ELSE inbox
    /\ UNCHANGED <<workerVars, bits, openError, hubRx, hubTx, keyer, sensed, senseEdge>>

\* set_open_error, on either outcome of opening the hardware.
NoteOpen(failed) ==
    /\ openError' = failed
    /\ UNCHANGED <<contactVars, bits, slot, hubRx, hubTx, keyer, sensed, senseEdge>>

\* The worker of a driver just opened, with the known bands replayed to it.
InstallOpened ==
    /\ slot' = TRUE
    /\ running' = TRUE /\ present' = TRUE
    /\ engineOnAir' = FALSE /\ senseOnAir' = FALSE /\ closed' = {}
    /\ rxBand' = NoBand /\ txBand' = NoBand /\ txBandPending' = NoBand
    /\ inbox' = (IF hubRx = NoBand THEN <<>> ELSE <<RxBand(hubRx)>>) \o TxBandMsg(SenseRadio)
    /\ sensed' = NoLevel /\ senseEdge' = NoLevel
    /\ UNCHANGED <<bits, openError, hubRx, hubTx, keyer>>

-----------------------------------------------------------------------------
(* The worker's look at the sense line, if there is one, and the one radio *)
(* that may act on the edge it leaves.                                     *)

\* Slip: the first edge nobody has read wins over the last.
SensePollFirst(level) ==
    /\ Wired
    /\ sensed # level
    /\ Sense(level = "keyed")
    /\ sensed' = level /\ senseEdge' = IF senseEdge = NoLevel THEN level ELSE senseEdge
    /\ UNCHANGED <<bits, slot, openError, hubRx, hubTx, keyer>>

SensePoll(level) ==
    /\ Wired
    /\ sensed # level
    /\ Sense(level = "keyed")
    /\ sensed' = level /\ senseEdge' = level
    /\ UNCHANGED <<bits, slot, openError, hubRx, hubTx, keyer>>

SenseEdgeFor(r) == r = SenseRadio /\ slot /\ senseEdge # NoLevel

TakeSenseEdge(r) ==
    /\ SenseEdgeFor(r)
    /\ senseEdge' = NoLevel
    /\ UNCHANGED <<contactVars, bits, slot, openError, hubRx, hubTx, keyer, sensed>>

HubInit ==
    /\ ContactsInit
    /\ bits = {}
    /\ slot = TRUE /\ openError = FALSE
    /\ hubRx = NoBand /\ hubTx = [r \in Radio |-> NoBand]
    /\ keyer = NoRadio
    /\ sensed = NoLevel /\ senseEdge = NoLevel
=============================================================================
