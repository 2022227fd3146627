------------------------------ MODULE Station ------------------------------
(***************************************************************************)
(* Several engines, each a thread driving one radio, sharing the transmit  *)
(* gate (TxGate) and the T/R switch (TrSwitch, RelayContacts).             *)
(*                                                                         *)
(* An engine's handler runs to its end before the next one starts, but its *)
(* accesses to shared state are separate steps: pc[r] is where radio r's   *)
(* engine is ("work" between handlers) and cont[r] where it goes on when   *)
(* the hub call it is in returns.  A step may merge one shared access with *)
(* local work, and reads of its own bit, which nobody else writes.         *)
(*                                                                         *)
(* What is on the air is kept apart from what the program believes: rf is  *)
(* the carrier the engine asked for, cwRf a message the rig's own keyer is *)
(* sending for it, micRf a transceiver keyed at its own microphone.        *)
(***************************************************************************)
EXTENDS TrSwitch

CONSTANTS
    Happens,        \* which of Event the run allows
    Primary,        \* the engine that reports the receive band
    ConfigRadio     \* the engine a RelayConfig reaches, or NoRadio

Event == {"mic", "cat", "cw", "config", "retune", "stop", "lost", "swap", "giveUp",
          "keyFails", "test"}

ASSUME HappensAssumption == Happens \subseteq Event
ASSUME PrimaryAssumption == Primary \in Radio

VARIABLES
    owner,          \* the gate's word
    pc, cont,
    want,           \* state.tx.ptt || state.tx.tune
    txActive, rigTx, cwGate,    \* tx_active, rig_tx, cw_gate_until.is_some()
    relayPending,
    dial, told,     \* the band the dial is in, and the band last reported
    rf, cwRf, micRf

Gate == INSTANCE TxGate

engineVars == <<want, txActive, rigTx, cwGate, relayPending, told>>
worldVars == <<dial, rf, cwRf, micRf>>
controlVars == <<pc, cont>>
hub == <<contactVars, hubVars>>
vars == <<hub, owner, controlVars, engineVars, worldVars>>

HubCall == {"tell", "claim", "keySend", "lead", "release", "unkeySend", "abort", "abortSend"}
Label == {"work", "rails", "begin", "sendCw", "deny", "over", "swapped", "cwUnkey",
          "cfgClose", "cfgJoin", "cfgInstall", "stopped", "lost"} \cup HubCall

TypeOK ==
    /\ HubTypeOK
    /\ Gate!GateTypeOK
    /\ pc \in [Radio -> Label] /\ cont \in [Radio -> Label]
    /\ want \in [Radio -> BOOLEAN]
    /\ txActive \in [Radio -> BOOLEAN]
    /\ rigTx \in [Radio -> BOOLEAN]
    /\ cwGate \in [Radio -> BOOLEAN]
    /\ relayPending \in [Radio -> BOOLEAN]
    /\ dial \in [Radio -> Band] /\ told \in [Radio -> MaybeBand]
    /\ rf \in [Radio -> BOOLEAN] /\ cwRf \in [Radio -> BOOLEAN] /\ micRf \in [Radio -> BOOLEAN]

Init ==
    /\ HubInit
    /\ Gate!GateInit
    /\ pc = [r \in Radio |-> "work"] /\ cont = [r \in Radio |-> "work"]
    /\ want = [r \in Radio |-> FALSE]
    /\ txActive = [r \in Radio |-> FALSE]
    /\ rigTx = [r \in Radio |-> FALSE]
    /\ cwGate = [r \in Radio |-> FALSE]
    /\ relayPending = [r \in Radio |-> FALSE]
    /\ dial \in [Radio -> Band] /\ told = [r \in Radio |-> NoBand]
    /\ rf = [r \in Radio |-> FALSE]
    /\ cwRf = [r \in Radio |-> FALSE]
    /\ micRf = [r \in Radio |-> FALSE]

\* Engine::on_air, from the values a handler is about to leave behind.
OnAirBy(active, rig, cw) == active \/ rig \/ cw
OnAirR(r) == OnAirBy(txActive[r], rigTx[r], cwGate[r])

At(r, label) == pc[r] = label
Goto(r, label) == pc' = [pc EXCEPT ![r] = label] /\ UNCHANGED cont
Call(r, label, return) ==
    /\ pc' = [pc EXCEPT ![r] = label]
    /\ cont' = [cont EXCEPT ![r] = return]

\* TrSwitch::publish: nothing to do unless the bit disagrees.
PublishLabel(r, on, return) ==
    IF (r \in bits) = on THEN return ELSE IF on THEN "claim" ELSE "release"
Publish(r, on, return) == Call(r, PublishLabel(r, on, return), return)

\* tell_tr_switch_bands, then the call it precedes.
TellThenPublish(r, on, return) ==
    IF told[r] = dial[r] THEN Publish(r, on, return) ELSE Call(r, "tell", return)

Leads(return) == return \in {"begin", "sendCw"}
TellThenLead(r, return) == Call(r, IF told[r] = dial[r] THEN "claim" ELSE "tell", return)

-----------------------------------------------------------------------------
(* Calls into the hub.                                                     *)

TellBands(r) ==
    /\ At(r, "tell")
    /\ SetBands(r, dial[r], r = Primary)
    /\ told' = [told EXCEPT ![r] = dial[r]]
    /\ Goto(r, IF Leads(cont[r]) THEN "claim" ELSE PublishLabel(r, OnAirR(r), cont[r]))
    /\ UNCHANGED <<owner, want, txActive, rigTx, cwGate, relayPending, worldVars>>

\* A radio that finds the station on the air already has nothing to wait for.
Claim(r) ==
    /\ At(r, "claim")
    /\ KeyClaim(r)
    /\ Goto(r, IF bits = {} THEN "keySend" ELSE cont[r])
    /\ UNCHANGED <<owner, engineVars, worldVars>>

\* Slip: RF without waiting for the contacts.
SendKeyDownAtOnce(r) ==
    /\ At(r, "keySend")
    /\ KeySend(r)
    /\ Goto(r, cont[r])
    /\ UNCHANGED <<owner, engineVars, worldVars>>

\* Only the key-down of an over the engine drives waits the lead out.
SendKeyDown(r) ==
    /\ At(r, "keySend")
    /\ KeySend(r)
    /\ Goto(r, IF Leads(cont[r]) /\ slot THEN "lead" ELSE cont[r])
    /\ UNCHANGED <<owner, engineVars, worldVars>>

\* The sleep covers the lead and the link's round trip: the worker has had the
\* key-down by the end of it and closed what it closes, if it still answers.
LeadServed ==
    /\ Key(TRUE) \notin {inbox[i] : i \in DOMAIN inbox}
    /\ OnAir /\ running /\ present => closed = Channel

Lead(r) ==
    /\ At(r, "lead")
    /\ LeadServed
    /\ Goto(r, cont[r])
    /\ UNCHANGED <<hub, owner, engineVars, worldVars>>

Unclaim(r) ==
    /\ At(r, "release")
    /\ ReleaseClaim(r)
    /\ Goto(r, IF UnkeySends(r) THEN "unkeySend" ELSE cont[r])
    /\ UNCHANGED <<owner, engineVars, worldVars>>

SendKeyUp(r) ==
    /\ At(r, "unkeySend")
    /\ UnkeySend
    /\ Goto(r, cont[r])
    /\ UNCHANGED <<owner, engineVars, worldVars>>

AbortClaim(r) ==
    /\ At(r, "abort")
    /\ ReleaseClaim(r)
    /\ Goto(r, IF AbortSends(r) THEN "abortSend" ELSE cont[r])
    /\ UNCHANGED <<owner, engineVars, worldVars>>

SendAbort(r) ==
    /\ At(r, "abortSend")
    /\ AbortSend
    /\ Goto(r, cont[r])
    /\ UNCHANGED <<owner, engineVars, worldVars>>

HubStep(r) ==
    TellBands(r) \/ Claim(r) \/ SendKeyDown(r) \/ Lead(r) \/ Unclaim(r) \/ SendKeyUp(r)
        \/ AbortClaim(r) \/ SendAbort(r)

-----------------------------------------------------------------------------
(* sync_tx_state.                                                          *)

\* Up to the gate: a rail that refuses first (receive-only mode, SWR latch), a
\* radio keyed at its own microphone, or another radio's claim, all end in
\* deny_tx.
KeyDown(r) ==
    /\ At(r, "work") /\ ~txActive[r]
    /\ want' = [want EXCEPT ![r] = TRUE]
    /\ \/ Goto(r, "deny") /\ UNCHANGED owner
       \/ ~rigTx[r] /\ Gate!Acquire(r) /\ Goto(r, "rails")
    /\ UNCHANGED <<hub, txActive, rigTx, cwGate, relayPending, told, worldVars>>

\* The rails behind the gate, the hub's own refusal last of them.
PassRails(r) ==
    /\ At(r, "rails")
    /\ ~Refuses
    /\ TellThenLead(r, "begin")
    /\ UNCHANGED <<hub, owner, engineVars, worldVars>>

RefuseRails(r) ==
    /\ At(r, "rails")
    /\ Goto(r, "deny")
    /\ UNCHANGED <<hub, owner, engineVars, worldVars>>

TxBegin(r) ==
    /\ At(r, "begin")
    /\ rf' = [rf EXCEPT ![r] = TRUE]
    /\ txActive' = [txActive EXCEPT ![r] = TRUE]
    /\ Goto(r, "work")
    /\ UNCHANGED <<hub, owner, want, rigTx, cwGate, relayPending, told, dial, cwRf, micRf>>

\* tx_begin failed: abort, then deny_tx.
TxBeginFails(r) ==
    /\ "keyFails" \in Happens
    /\ At(r, "begin")
    /\ Call(r, "abort", "deny")
    /\ UNCHANGED <<hub, owner, engineVars, worldVars>>

\* deny_tx and the release_tx_gate it ends in.
Deny(r) ==
    /\ At(r, "deny")
    /\ want' = [want EXCEPT ![r] = FALSE]
    /\ Gate!Release(r)
    /\ Publish(r, OnAirR(r), "work")
    /\ UNCHANGED <<hub, txActive, rigTx, cwGate, relayPending, told, worldVars>>

\* tx_end, then unkey, then the bookkeeping and release_tx_gate.
KeyUp(r) ==
    /\ At(r, "work") /\ txActive[r]
    /\ want' = [want EXCEPT ![r] = FALSE]
    /\ rf' = [rf EXCEPT ![r] = FALSE]
    /\ Call(r, "release", "over")
    /\ UNCHANGED <<hub, owner, txActive, rigTx, cwGate, relayPending, told, dial, cwRf, micRf>>

Over(r) ==
    /\ At(r, "over")
    /\ txActive' = [txActive EXCEPT ![r] = FALSE]
    /\ Gate!Release(r)
    /\ Publish(r, OnAirBy(FALSE, rigTx[r], cwGate[r]), "work")
    /\ UNCHANGED <<hub, want, rigTx, cwGate, relayPending, told, worldVars>>

-----------------------------------------------------------------------------
(* A message handed to the rig's own keyer.                                *)

SendCwText(r) ==
    /\ "cw" \in Happens
    /\ At(r, "work") /\ ~cwRf[r]
    /\ Gate!Acquire(r)
    /\ cwGate' = [cwGate EXCEPT ![r] = TRUE]
    /\ TellThenLead(r, "sendCw")
    /\ UNCHANGED <<hub, want, txActive, rigTx, relayPending, told, worldVars>>

RigSends(r) ==
    /\ At(r, "sendCw")
    /\ cwRf' = [cwRf EXCEPT ![r] = TRUE]
    /\ Goto(r, "work")
    /\ UNCHANGED <<hub, owner, engineVars, dial, rf, micRf>>

RigFinishes(r) ==
    /\ cwRf[r]
    /\ cwRf' = [cwRf EXCEPT ![r] = FALSE]
    /\ UNCHANGED <<hub, owner, controlVars, engineVars, dial, rf, micRf>>

\* Slip: a message that ends without handing the gate back.
CwExpiresKeepsGate(r) ==
    /\ At(r, "work") /\ cwGate[r] /\ ~cwRf[r]
    /\ cwGate' = [cwGate EXCEPT ![r] = FALSE]
    /\ UNCHANGED <<hub, owner, controlVars, want, txActive, rigTx, relayPending, told, worldVars>>

\* The estimate has run out; it is not shorter than the message.
CwExpires(r) ==
    /\ At(r, "work") /\ cwGate[r] /\ ~cwRf[r]
    /\ cwGate' = [cwGate EXCEPT ![r] = FALSE]
    /\ IF txActive[r]
         THEN UNCHANGED <<owner, controlVars>>
         ELSE Gate!Release(r) /\ Publish(r, rigTx[r], "work")
    /\ UNCHANGED <<hub, want, txActive, rigTx, relayPending, told, worldVars>>

\* The keyer's controller asks for it only of a message still being sent.
AbortCw(r) ==
    /\ At(r, "work") /\ cwGate[r]
    /\ cwRf' = [cwRf EXCEPT ![r] = FALSE]
    /\ cwGate' = [cwGate EXCEPT ![r] = FALSE]
    /\ IF txActive[r]
         THEN UNCHANGED <<owner, controlVars>>
         ELSE Gate!Release(r) /\ Publish(r, rigTx[r], "cwUnkey")
    /\ UNCHANGED <<hub, want, txActive, rigTx, relayPending, told, dial, rf, micRf>>

AbortCwUnkeys(r) ==
    /\ At(r, "cwUnkey")
    /\ Call(r, "release", "work")
    /\ UNCHANGED <<hub, owner, engineVars, worldVars>>

-----------------------------------------------------------------------------
(* The radio's own word that it is transmitting, over CAT or on the sense  *)
(* line, and the tick's reconciliation with the switch.                    *)

\* Not every radio has CAT; where one does, reads across an over the engine
\* drives are dropped by the CAT thread.
Reported(r) == micRf[r] \/ cwRf[r]

RigReport(r) ==
    /\ "cat" \in Happens
    /\ At(r, "work") /\ ~rf[r]
    /\ rigTx[r] # Reported(r)
    /\ rigTx' = [rigTx EXCEPT ![r] = Reported(r)]
    /\ TellThenPublish(r, OnAirBy(txActive[r], Reported(r), cwGate[r]), "work")
    /\ UNCHANGED <<hub, owner, want, txActive, cwGate, relayPending, told, worldVars>>

PublishDue(r) == told[r] # dial[r] \/ (r \in bits) # OnAirR(r)

Poll(r) ==
    /\ At(r, "work") /\ PublishDue(r)
    /\ TellThenPublish(r, OnAirR(r), "work")
    /\ UNCHANGED <<hub, owner, engineVars, worldVars>>

AdoptSenseEdge(r) ==
    /\ At(r, "work") /\ ~PublishDue(r)
    /\ TakeSenseEdge(r)
    /\ LET keyed == senseEdge = "keyed"
       IN  /\ rigTx' = [rigTx EXCEPT ![r] = keyed]
           /\ IF keyed = rigTx[r]
                THEN UNCHANGED controlVars
                ELSE TellThenPublish(r, OnAirBy(txActive[r], keyed, cwGate[r]), "work")
    /\ UNCHANGED <<owner, want, txActive, cwGate, relayPending, told, worldVars>>

-----------------------------------------------------------------------------
(* sync_relay: refused while the station is on the air, and a rebuild of   *)
(* the driver otherwise.                                                   *)

SetRelayConfig(r) ==
    /\ "config" \in Happens /\ r = ConfigRadio
    /\ At(r, "work")
    /\ IF bits # {}
         THEN relayPending' = [relayPending EXCEPT ![r] = TRUE] /\ UNCHANGED controlVars
         ELSE relayPending' = [relayPending EXCEPT ![r] = FALSE] /\ Goto(r, "cfgClose")
    /\ UNCHANGED <<hub, owner, want, txActive, rigTx, cwGate, told, worldVars>>

ApplyPending(r) ==
    /\ At(r, "work") /\ relayPending[r] /\ bits = {}
    /\ ~PublishDue(r) /\ ~SenseEdgeFor(r)
    /\ relayPending' = [relayPending EXCEPT ![r] = FALSE]
    /\ Goto(r, "cfgClose")
    /\ UNCHANGED <<hub, owner, want, txActive, rigTx, cwGate, told, worldVars>>

CloseDriver(r) ==
    /\ At(r, "cfgClose")
    /\ InstallNone
    /\ Goto(r, "cfgJoin")
    /\ UNCHANGED <<owner, engineVars, worldVars>>

\* The old worker is joined, then the hardware opened: that may fail.
OpenDriver(r) ==
    /\ At(r, "cfgJoin") /\ ~running
    /\ \/ NoteOpen(FALSE) /\ Goto(r, "cfgInstall")
       \/ NoteOpen(TRUE) /\ Goto(r, "work")
    /\ UNCHANGED <<owner, engineVars, worldVars>>

InstallDriver(r) ==
    /\ At(r, "cfgInstall")
    /\ InstallOpened
    /\ Goto(r, "work")
    /\ UNCHANGED <<owner, engineVars, worldVars>>

\* The operator checks a contact's wiring, from whichever radio's engine.
TestRelay(r) ==
    /\ "test" \in Happens
    /\ At(r, "work")
    /\ \E ch \in Channel : TestContact(ch)
    /\ UNCHANGED <<owner, controlVars, engineVars, worldVars>>

-----------------------------------------------------------------------------
(* A front end replaced under the engine, and the ways an engine ends.     *)

SwapSource(r) ==
    /\ "swap" \in Happens
    /\ At(r, "work")
    /\ rf' = [rf EXCEPT ![r] = FALSE]
    /\ rigTx' = [rigTx EXCEPT ![r] = FALSE]
    /\ IF rigTx[r]
         THEN TellThenPublish(r, OnAirBy(txActive[r], FALSE, cwGate[r]), "swapped")
         ELSE Call(r, "swapped", "work")
    /\ UNCHANGED <<hub, owner, want, txActive, cwGate, relayPending, told, dial, cwRf, micRf>>

Swapped(r) ==
    /\ At(r, "swapped")
    /\ txActive' = [txActive EXCEPT ![r] = FALSE]
    /\ want' = [want EXCEPT ![r] = FALSE]
    /\ Gate!Release(r)
    /\ Publish(r, OnAirBy(FALSE, rigTx[r], cwGate[r]), "work")
    /\ UNCHANGED <<hub, rigTx, cwGate, relayPending, told, worldVars>>

\* Slip: an engine that stops without telling the switch.
StopKeepsSwitch(r) ==
    /\ "stop" \in Happens
    /\ At(r, "work")
    /\ rf' = [rf EXCEPT ![r] = FALSE]
    /\ txActive' = [txActive EXCEPT ![r] = FALSE]
    /\ rigTx' = [rigTx EXCEPT ![r] = FALSE]
    /\ cwGate' = [cwGate EXCEPT ![r] = FALSE]
    /\ Gate!Release(r)
    /\ Goto(r, "stopped")
    /\ UNCHANGED <<hub, want, relayPending, told, dial, cwRf, micRf>>

\* Every controller gone, or a transmit block that failed: both unkey, forget
\* every reason to be on the air and hand the gate and the switch back.
Stop(r) ==
    /\ "stop" \in Happens
    /\ At(r, "work")
    /\ rf' = [rf EXCEPT ![r] = FALSE]
    /\ txActive' = [txActive EXCEPT ![r] = FALSE]
    /\ rigTx' = [rigTx EXCEPT ![r] = FALSE]
    /\ cwGate' = [cwGate EXCEPT ![r] = FALSE]
    /\ Gate!Release(r)
    /\ Publish(r, FALSE, "stopped")
    /\ UNCHANGED <<hub, want, relayPending, told, dial, cwRf, micRf>>

\* A receive read that failed: the loop returns as it stands.
LoseLink(r) ==
    /\ "lost" \in Happens
    /\ At(r, "work") /\ ~txActive[r]
    /\ Goto(r, "lost")
    /\ UNCHANGED <<hub, owner, engineVars, worldVars>>

-----------------------------------------------------------------------------
(* The world: hands on dials and microphones.                              *)

Retune(r) ==
    /\ "retune" \in Happens
    /\ At(r, "work")
    /\ \E b \in Band \ {dial[r]} : dial' = [dial EXCEPT ![r] = b]
    /\ UNCHANGED <<hub, owner, controlVars, engineVars, rf, cwRf, micRf>>

MicKey(r) ==
    /\ "mic" \in Happens
    /\ ~rf[r] /\ ~cwRf[r]
    /\ micRf' = [micRf EXCEPT ![r] = ~micRf[r]]
    /\ UNCHANGED <<hub, owner, controlVars, engineVars, dial, rf, cwRf>>

\* The transceiver's SEND line follows its transmitter, whoever keyed it.
Line == IF rf[SenseRadio] \/ cwRf[SenseRadio] \/ micRf[SenseRadio] THEN "keyed" ELSE "clear"

-----------------------------------------------------------------------------
PollTick(r) == Poll(r) \/ AdoptSenseEdge(r) \/ ApplyPending(r)

Engine(r) ==
    \/ HubStep(r)
    \/ PassRails(r) \/ RefuseRails(r) \/ TxBegin(r) \/ TxBeginFails(r) \/ Deny(r) \/ Over(r)
    \/ RigSends(r) \/ CwExpires(r) \/ AbortCwUnkeys(r)
    \/ RigReport(r) \/ PollTick(r)
    \/ CloseDriver(r) \/ OpenDriver(r) \/ InstallDriver(r)
    \/ Swapped(r)

Operator(r) ==
    \/ KeyDown(r) \/ KeyUp(r) \/ SendCwText(r) \/ AbortCw(r)
    \/ SetRelayConfig(r) \/ TestRelay(r) \/ SwapSource(r) \/ Stop(r) \/ LoseLink(r)
    \/ Retune(r) \/ MicKey(r) \/ RigFinishes(r)

elsewhere == <<owner, controlVars, engineVars, worldVars>>
hubOnly == <<bits, slot, openError, hubRx, hubTx, keyer, sensed, senseEdge>>

ReceiveCtrl == Receive /\ UNCHANGED <<hubOnly, elsewhere>>
MoveContacts == (Rise \/ Fall) /\ UNCHANGED <<hubOnly, elsewhere>>
SeeLine == Wired /\ SensePoll(Line) /\ UNCHANGED elsewhere
Fail == "giveUp" \in Happens /\ GiveUp /\ UNCHANGED <<hubOnly, elsewhere>>

Worker == ReceiveCtrl \/ MoveContacts \/ SeeLine \/ Fail

Next == (\E r \in Radio : Engine(r) \/ Operator(r)) \/ Worker

Spec == Init /\ [][Next]_vars

\* Engines keep looping, and so does the worker; hands let go of what they hold.
\* Every pass of an engine's loop calls poll_tr_switch, whatever else it did.
\* A call into the hub waits only for MaxInbox or a sleep that always ends, so it
\* is not put off for ever by being held up again and again.
Fairness ==
    /\ \A r \in Radio : WF_vars(Engine(r)) /\ SF_vars(HubStep(r)) /\ SF_vars(PollTick(r))
    /\ \A r \in Radio : WF_vars(KeyUp(r)) /\ WF_vars(RigFinishes(r))
    /\ WF_vars(ReceiveCtrl) /\ WF_vars(MoveContacts) /\ WF_vars(SeeLine)

FairSpec == Spec /\ Fairness

-----------------------------------------------------------------------------
(* Safety.                                                                 *)

Driven(r) == rf[r] \/ cwRf[r]

\* At most one radio is on the air at the engines' own doing (tx_gate.rs): the
\* gate is claimed before every such carrier and outlives it.
OneTransmitter == \A r, s \in Radio : Driven(r) /\ Driven(s) => r = s

\* A claim on the gate is never left behind by a key-down that was refused or
\* an over that ended: an engine between handlers holds the gate only while
\* it has something on the air (deny_tx, release_tx_gate).
NoLeakedClaim ==
    \A r \in Radio : At(r, "work") /\ owner = r => txActive[r] \/ cwGate[r]

\* An engine that stopped has let go of the gate and of the switch.
StoppedHoldsNothing ==
    \A r \in Radio : At(r, "stopped") => owner # r /\ r \notin bits

\* Contacts first, drive second: no carrier an engine asked for meets a contact
\* still in receive (lead_tr_switch).
ContactsLeadRf == \A r \in Radio : rf[r] => closed = Channel

Settled == inbox = <<>> /\ \A r \in Radio : pc[r] \in {"work", "rails", "stopped", "lost"}

\* The switch follows the OR of the radios' bits: once every call has returned
\* and every message has been read, the worker's on-air state is theirs.
SwitchFollowsRadios == Settled /\ slot => (engineOnAir <=> bits # {})

\* The half of it that keeps a receiver from being left deaf: a station with
\* no claim on the air has nothing keyed once its messages have been read.
SwitchComesBack == Settled /\ slot /\ bits = {} => ~engineOnAir

\* The filters stand on the keyer's transmit band when its carrier appears ...
FilterReady == [][\A r \in Radio : ~rf[r] /\ rf'[r] => txBand = dial[r]]_vars

\* ... and do not move while it lasts, whatever any dial does meanwhile.
NoHotFilterSwitch == [][\A r \in Radio : rf[r] /\ rf'[r] => txBand' = txBand]_vars

-----------------------------------------------------------------------------
(* Liveness.                                                               *)

\* No handler waits for ever: not on the lead, not on the join of a worker.
HandlersReturn ==
    \A r \in Radio : ~At(r, "work") ~> pc[r] \in {"work", "stopped", "lost"}

\* Once nobody claims the air any more, every contact of a driver that still
\* answers goes back to receive.
ReceiverReturns == <>[](bits = {}) => <>[](closed = {} \/ (running /\ ~present))

\* The engine that owns the sense line comes to agree with it, whatever edges
\* were overwritten on the way.
SenseFollowed ==
    Wired =>
        /\ <>[](Line = "keyed" /\ ~rf[SenseRadio]) => <>[]rigTx[SenseRadio]
        /\ <>[](Line = "clear") => <>[]~rigTx[SenseRadio]
=============================================================================
