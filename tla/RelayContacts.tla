--------------------------- MODULE RelayContacts ---------------------------
(***************************************************************************)
(* What the thread behind sdroxide_relay::RelayHandle promises the engines *)
(* that talk to it: the messages it is sent are obeyed in order, contacts  *)
(* are only ever added to the transmit side while something is on the air  *)
(* and only ever taken away from it while nothing is, and the transmit     *)
(* band the filters follow never changes under a contact that follows it.  *)
(*                                                                         *)
(* Timing, polarity, retries and the wire are below this level: they are   *)
(* RelaySequencer, which implements this specification.                    *)
(***************************************************************************)
EXTENDS Naturals, Sequences

CONSTANTS
    Channel,    \* the contacts the driver manages
    Decoder,    \* those whose role is BandDecoder
    Band,       \* the bands a dial can be in
    NoBand      \* Option::None of a band

ASSUME ChannelAssumption == Decoder \subseteq Channel
ASSUME BandAssumption == NoBand \notin Band

VARIABLES
    inbox,          \* the unbounded Ctrl channel into the worker
    running,        \* the worker thread is alive
    present,        \* Presence::Present
    engineOnAir,    \* Sequencer.engine_on_air
    senseOnAir,     \* Sequencer.sense_on_air
    closed,         \* Sequencer.asserted: contacts in their transmit state
    rxBand, txBand, txBandPending

contactVars == <<inbox, running, present, engineOnAir, senseOnAir, closed,
                 rxBand, txBand, txBandPending>>

Key(on) == [op |-> "key", on |-> on]
Abort == [op |-> "abort"]
Shutdown == [op |-> "shutdown"]
RxBand(b) == [op |-> "rxBand", band |-> b]
TxBand(b) == [op |-> "txBand", band |-> b]
Test(ch) == [op |-> "test", channel |-> ch]

Ctrl == {Key(on) : on \in BOOLEAN} \cup {Abort, Shutdown}
        \cup {RxBand(b) : b \in Band} \cup {TxBand(b) : b \in Band}
        \cup {Test(ch) : ch \in Channel}

MaybeBand == Band \cup {NoBand}

ContactsTypeOK ==
    /\ inbox \in Seq(Ctrl)
    /\ running \in BOOLEAN /\ present \in BOOLEAN
    /\ engineOnAir \in BOOLEAN /\ senseOnAir \in BOOLEAN
    /\ closed \subseteq Channel
    /\ rxBand \in MaybeBand /\ txBand \in MaybeBand /\ txBandPending \in MaybeBand

\* A worker just spawned knows no band and holds every contact in receive.
ContactsInit ==
    /\ inbox = <<>>
    /\ running = TRUE /\ present = TRUE
    /\ engineOnAir = FALSE /\ senseOnAir = FALSE
    /\ closed = {}
    /\ rxBand = NoBand /\ txBand = NoBand /\ txBandPending = NoBand

OnAir == engineOnAir \/ senseOnAir

FollowsTxWord(contacts) == contacts \cap Decoder # {}

\* take_pending_tx_band: the held-back band, if there is one, becomes current.
TakePending ==
    /\ txBand' = IF txBandPending = NoBand THEN txBand ELSE txBandPending
    /\ txBandPending' = NoBand

-----------------------------------------------------------------------------
(* apply_ctrl: one message off the channel.                                *)

Message(op) == running /\ inbox # <<>> /\ Head(inbox).op = op /\ inbox' = Tail(inbox)

\* Slip: a key-down that leaves the held-back band where it is.
ReceiveKeyOnly ==
    /\ Message("key")
    /\ engineOnAir' = Head(inbox).on
    /\ UNCHANGED <<running, present, senseOnAir, closed, rxBand, txBand, txBandPending>>

ReceiveKey ==
    /\ Message("key")
    /\ engineOnAir' = Head(inbox).on
    /\ IF Head(inbox).on /\ ~OnAir
         THEN TakePending
         ELSE UNCHANGED <<txBand, txBandPending>>
    /\ UNCHANGED <<running, present, senseOnAir, closed, rxBand>>

\* Slip: an abort that forgets the engine's half of the OR.
ReceiveAbortKeepsEngine ==
    /\ Message("abort")
    /\ senseOnAir' = FALSE
    /\ closed' = {}
    /\ TakePending
    /\ UNCHANGED <<running, present, engineOnAir, rxBand>>

ReceiveAbort ==
    /\ Message("abort")
    /\ engineOnAir' = FALSE /\ senseOnAir' = FALSE
    /\ closed' = {}
    /\ TakePending
    /\ UNCHANGED <<running, present, rxBand>>

ReceiveRxBand ==
    /\ Message("rxBand")
    /\ rxBand' = Head(inbox).band
    /\ UNCHANGED <<running, present, engineOnAir, senseOnAir, closed, txBand, txBandPending>>

\* Slip: a transmit band taken the moment it arrives.
ReceiveTxBandAtOnce ==
    /\ Message("txBand")
    /\ txBand' = Head(inbox).band /\ txBandPending' = NoBand
    /\ UNCHANGED <<running, present, engineOnAir, senseOnAir, closed, rxBand>>

ReceiveTxBand ==
    /\ Message("txBand")
    /\ IF OnAir \/ FollowsTxWord(closed)
         THEN txBandPending' = Head(inbox).band /\ UNCHANGED txBand
         ELSE txBand' = Head(inbox).band /\ txBandPending' = NoBand
    /\ UNCHANGED <<running, present, engineOnAir, senseOnAir, closed, rxBand>>

\* A pulse moves a coil for a while, not a contact's place in the over.
ReceiveTest ==
    /\ Message("test")
    /\ UNCHANGED <<running, present, engineOnAir, senseOnAir, closed, rxBand, txBand, txBandPending>>

\* Slip: a worker that leaves the contacts where they are.
ReceiveShutdownOnly ==
    /\ Message("shutdown")
    /\ running' = FALSE
    /\ UNCHANGED <<present, engineOnAir, senseOnAir, closed, rxBand, txBand, txBandPending>>

\* The contacts go back to receive on the way out, whatever state they were in.
ReceiveShutdown ==
    /\ Message("shutdown")
    /\ running' = FALSE
    /\ closed' = {}
    /\ UNCHANGED <<present, engineOnAir, senseOnAir, rxBand, txBand, txBandPending>>

Receive ==
    \/ ReceiveKey
    \/ ReceiveAbort
    \/ ReceiveRxBand
    \/ ReceiveTxBand
    \/ ReceiveTest
    \/ ReceiveShutdown

-----------------------------------------------------------------------------
(* What the worker does of its own accord.                                 *)

\* The sense line moved. Unlike a key-down this does not take a held-back band:
\* that transmitter is already radiating.
Sense(keyed) ==
    /\ running
    /\ senseOnAir' = keyed
    /\ UNCHANGED <<inbox, running, present, engineOnAir, closed, rxBand, txBand, txBandPending>>

\* advance, on the air: contacts are only added.
Rise ==
    /\ running /\ present /\ OnAir
    /\ \E more \in (SUBSET (Channel \ closed)) \ {{}} : closed' = closed \cup more
    /\ UNCHANGED <<inbox, running, present, engineOnAir, senseOnAir, rxBand, txBand, txBandPending>>

\* advance, off the air: contacts are only removed, and a held-back transmit
\* band is taken once none of them follows a transmit word.
Fall ==
    /\ running /\ present /\ ~OnAir
    /\ \E fewer \in SUBSET closed :
          /\ closed' = closed \ fewer
          /\ IF FollowsTxWord(closed')
               THEN UNCHANGED <<txBand, txBandPending>>
               ELSE TakePending
    /\ <<closed, txBandPending>>' # <<closed, txBandPending>>
    /\ UNCHANGED <<inbox, running, present, engineOnAir, senseOnAir, rxBand>>

\* MAX_TRIES writes in a row failed: the contacts are left where they are.
GiveUp ==
    /\ running /\ present
    /\ present' = FALSE
    /\ UNCHANGED <<inbox, running, engineOnAir, senseOnAir, closed, rxBand, txBand, txBandPending>>

-----------------------------------------------------------------------------
(* The specification a worker implements, whoever its callers are.         *)

\* A caller's messages join the queue; none overtakes another.
Post ==
    /\ Len(inbox) < Len(inbox') /\ inbox = SubSeq(inbox', 1, Len(inbox))
    /\ UNCHANGED <<running, present, engineOnAir, senseOnAir, closed,
                   rxBand, txBand, txBandPending>>

ContactsNext ==
    Receive \/ (\E keyed \in BOOLEAN : Sense(keyed)) \/ Rise \/ Fall \/ GiveUp \/ Post

ContactsSpec == ContactsInit /\ [][ContactsNext]_contactVars
=============================================================================
