-------------------------- MODULE StationProofs --------------------------
(***************************************************************************)
(* What holds of a station of any size, with any board and any set of the  *)
(* events of Station: proofs of its type invariant and of the gate's half  *)
(* of its safety properties.                                               *)
(***************************************************************************)
EXTENDS Station, TLAPS

(***************************************************************************)
(* Types.  The hub and the engines are proved apart: an engine's step      *)
(* touches the hub through one of the hub's operations, or not at all.     *)
(***************************************************************************)

EngineTypeOK ==
    /\ Gate!GateTypeOK
    /\ pc \in [Radio -> Label] /\ cont \in [Radio -> Label]
    /\ want \in [Radio -> BOOLEAN]
    /\ txActive \in [Radio -> BOOLEAN]
    /\ rigTx \in [Radio -> BOOLEAN]
    /\ cwGate \in [Radio -> BOOLEAN]
    /\ relayPending \in [Radio -> BOOLEAN]
    /\ dial \in [Radio -> Band] /\ told \in [Radio -> MaybeBand]
    /\ rf \in [Radio -> BOOLEAN] /\ cwRf \in [Radio -> BOOLEAN] /\ micRf \in [Radio -> BOOLEAN]

LEMMA TypeSplits ==
    /\ TypeOK <=> HubTypeOK /\ EngineTypeOK
    /\ TypeOK' <=> HubTypeOK' /\ EngineTypeOK'
  BY DEF TypeOK, EngineTypeOK

LEMMA Joined ==
    ASSUME NEW S, NEW s \in Seq(S), NEW e \in S
    PROVE  Append(s, e) \in Seq(S) /\ <<e>> \o s \in Seq(S)
  OBVIOUS

\* Every message the hub can put together is one the worker knows.
LEMMA MessageTypes ==
    ASSUME HubTypeOK
    PROVE  /\ \A on \in BOOLEAN : Key(on) \in Ctrl
           /\ Abort \in Ctrl /\ Shutdown \in Ctrl
           /\ \A b \in Band : RxBand(b) \in Ctrl /\ TxBand(b) \in Ctrl
           /\ \A r \in Radio \cup {NoRadio} : TxBandMsg(r) \in Seq(Ctrl)
  <1>1. /\ \A on \in BOOLEAN : Key(on) \in Ctrl
        /\ Abort \in Ctrl /\ Shutdown \in Ctrl
        /\ \A b \in Band : RxBand(b) \in Ctrl /\ TxBand(b) \in Ctrl
    BY DEF Ctrl
  <1>2. ASSUME NEW r \in Radio \cup {NoRadio}
        PROVE  TxBandMsg(r) \in Seq(Ctrl)
    <2>1. CASE r = NoRadio \/ hubTx[r] = NoBand
      BY <2>1 DEF TxBandMsg
    <2>2. CASE r # NoRadio /\ hubTx[r] # NoBand
      <3>1. hubTx[r] \in Band
        BY <2>2 DEF HubTypeOK, MaybeBand
      <3>2. TxBand(hubTx[r]) \in Ctrl
        BY <1>1, <3>1
      <3> QED
        BY <2>2, <3>2 DEF TxBandMsg
    <2> QED
      BY <2>1, <2>2
  <1> QED
    BY <1>1, <1>2

LEMMA TellTypes ==
    ASSUME HubTypeOK, NEW msgs \in Seq(Ctrl), Tell(msgs)
    PROVE  inbox' \in Seq(Ctrl)
  BY DEF HubTypeOK, ContactsTypeOK, Tell

\* The rest of the hub's state, for the operations that leave the worker alone.
WorkerTypeOK ==
    /\ running \in BOOLEAN /\ present \in BOOLEAN
    /\ engineOnAir \in BOOLEAN /\ senseOnAir \in BOOLEAN
    /\ closed \subseteq Channel
    /\ rxBand \in MaybeBand /\ txBand \in MaybeBand /\ txBandPending \in MaybeBand

SwitchTypeOK ==
    /\ bits \subseteq Radio
    /\ slot \in BOOLEAN /\ openError \in BOOLEAN
    /\ hubRx \in MaybeBand /\ hubTx \in [Radio -> MaybeBand]
    /\ keyer \in Radio \cup {NoRadio}
    /\ sensed \in Level \cup {NoLevel} /\ senseEdge \in Level \cup {NoLevel}

LEMMA HubTypeSplits ==
    /\ HubTypeOK <=> inbox \in Seq(Ctrl) /\ WorkerTypeOK /\ SwitchTypeOK
    /\ HubTypeOK' <=> inbox' \in Seq(Ctrl) /\ WorkerTypeOK' /\ SwitchTypeOK'
  BY DEF HubTypeOK, ContactsTypeOK, WorkerTypeOK, SwitchTypeOK

LEMMA WorkerTypesKept ==
    ASSUME HubTypeOK, UNCHANGED workerVars
    PROVE  WorkerTypeOK'
  BY DEF HubTypeOK, ContactsTypeOK, WorkerTypeOK, workerVars

\* One step of the hub at a time.
LEMMA HubStepTypes ==
    ASSUME HubTypeOK, NEW r \in Radio, NEW b \in Band, NEW primary \in BOOLEAN,
           \/ KeyClaim(r) \/ KeySend(r) \/ ReleaseClaim(r) \/ UnkeySend \/ AbortSend
           \/ SetBands(r, b, primary) \/ InstallNone \/ InstallOpened
           \/ NoteOpen(TRUE) \/ NoteOpen(FALSE) \/ TakeSenseEdge(r)
           \/ \E ch \in Channel : TestContact(ch)
    PROVE  HubTypeOK'
  <1> USE HubTypeSplits
  <1>0. SenseRadio \in Radio \cup {NoRadio}
    BY SenseAssumption
  <1>1. CASE KeyClaim(r) \/ ReleaseClaim(r)
    <2>1. SwitchTypeOK'
      BY <1>1 DEF KeyClaim, ReleaseClaim, SwitchTypeOK, hubVars, contactVars
    <2>2. inbox' \in Seq(Ctrl) /\ WorkerTypeOK'
      BY <1>1 DEF KeyClaim, ReleaseClaim, contactVars, WorkerTypeOK
    <2> QED
      BY <2>1, <2>2
  <1>2. CASE KeySend(r)
    <2>1. Append(TxBandMsg(r), Key(TRUE)) \in Seq(Ctrl)
      <3>1. TxBandMsg(r) \in Seq(Ctrl) /\ Key(TRUE) \in Ctrl
        BY MessageTypes
      <3> QED
        BY ONLY <3>1, Joined
    <2>2. inbox' \in Seq(Ctrl)
      BY <1>2, <2>1, TellTypes DEF KeySend
    <2>3. WorkerTypeOK'
      BY <1>2, WorkerTypesKept DEF KeySend
    <2>4. SwitchTypeOK'
      BY <1>2 DEF KeySend, SwitchTypeOK
    <2> QED
      BY <2>2, <2>3, <2>4
  <1>3. CASE UnkeySend \/ AbortSend
    <2>1. \A msg \in {Key(FALSE), Abort} : <<msg>> \o TxBandMsg(SenseRadio) \in Seq(Ctrl)
      <3>1. TxBandMsg(SenseRadio) \in Seq(Ctrl) /\ Key(FALSE) \in Ctrl /\ Abort \in Ctrl
        BY <1>0, MessageTypes
      <3> QED
        BY ONLY <3>1, Joined
    <2>2. PICK msg \in {Key(FALSE), Abort} : OverEnded(msg)
      BY <1>3 DEF UnkeySend, AbortSend
    <2>3. inbox' \in Seq(Ctrl)
      BY <2>1, <2>2, TellTypes DEF OverEnded
    <2>4. WorkerTypeOK'
      BY <2>2, WorkerTypesKept DEF OverEnded
    <2>5. SwitchTypeOK'
      BY <2>2 DEF OverEnded, SwitchTypeOK
    <2> QED
      BY <2>3, <2>4, <2>5
  <1>4. CASE SetBands(r, b, primary)
    <2>1. (IF primary THEN <<RxBand(b)>> ELSE <<>>) \o (IF Forwards(r) THEN <<TxBand(b)>> ELSE <<>>)
            \in Seq(Ctrl)
      <3>1. RxBand(b) \in Ctrl /\ TxBand(b) \in Ctrl
        BY MessageTypes
      <3> DEFINE rx == IF primary THEN <<RxBand(b)>> ELSE <<>>
                 tx == IF Forwards(r) THEN <<TxBand(b)>> ELSE <<>>
      <3>2. rx \in Seq(Ctrl) /\ tx \in Seq(Ctrl)
        BY <3>1
      <3> QED
        BY <3>2
    <2>2. inbox' \in Seq(Ctrl)
      BY <1>4, <2>1, TellTypes DEF SetBands
    <2>3. WorkerTypeOK'
      BY <1>4, WorkerTypesKept DEF SetBands
    <2>4. SwitchTypeOK'
      BY <1>4 DEF SetBands, SwitchTypeOK, MaybeBand
    <2> QED
      BY <2>2, <2>3, <2>4
  <1>5. CASE InstallNone
    <2>1. inbox' \in Seq(Ctrl)
      BY <1>5, MessageTypes DEF InstallNone
    <2>2. WorkerTypeOK'
      BY <1>5, WorkerTypesKept DEF InstallNone
    <2>3. SwitchTypeOK'
      BY <1>5 DEF InstallNone, SwitchTypeOK
    <2> QED
      BY <2>1, <2>2, <2>3
  <1>6. CASE InstallOpened
    <2>1. hubRx # NoBand => RxBand(hubRx) \in Ctrl
      BY MessageTypes DEF SwitchTypeOK, MaybeBand
    <2>2. (IF hubRx = NoBand THEN <<>> ELSE <<RxBand(hubRx)>>) \in Seq(Ctrl)
      BY <2>1
    <2>3. inbox' \in Seq(Ctrl)
      BY <1>0, <1>6, <2>2, MessageTypes DEF InstallOpened
    <2>4. WorkerTypeOK' /\ SwitchTypeOK'
      BY <1>6 DEF InstallOpened, WorkerTypeOK, SwitchTypeOK, MaybeBand
    <2> QED
      BY <2>3, <2>4
  <1>7. CASE NoteOpen(TRUE) \/ NoteOpen(FALSE) \/ TakeSenseEdge(r)
    <2>1. inbox' \in Seq(Ctrl) /\ WorkerTypeOK'
      BY <1>7 DEF NoteOpen, TakeSenseEdge, contactVars, WorkerTypeOK
    <2>2. SwitchTypeOK'
      BY <1>7 DEF NoteOpen, TakeSenseEdge, SwitchTypeOK
    <2> QED
      BY <2>1, <2>2
  <1>8. CASE \E ch \in Channel : TestContact(ch)
    <2>1. PICK ch \in Channel : TestContact(ch)
      BY <1>8
    <2>2. <<Test(ch)>> \in Seq(Ctrl)
      <3>1. Test(ch) \in Ctrl
        BY DEF Ctrl
      <3> QED
        BY <3>1
    <2>3. inbox' \in Seq(Ctrl)
      BY <2>1, <2>2, TellTypes DEF TestContact
    <2>4. WorkerTypeOK' /\ SwitchTypeOK'
      BY <2>1, WorkerTypesKept DEF TestContact, SwitchTypeOK
    <2> QED
      BY <2>3, <2>4
  <1> QED
    BY <1>1, <1>2, <1>3, <1>4, <1>5, <1>6, <1>7, <1>8

\* What the worker does between the hub's calls.
LEMMA WorkerStepTypes ==
    ASSUME HubTypeOK,
           \/ Receive /\ UNCHANGED hubOnly
           \/ (Rise \/ Fall \/ GiveUp) /\ UNCHANGED hubOnly
           \/ SensePoll("keyed") \/ SensePoll("clear")
    PROVE  HubTypeOK'
  <1> USE HubTypeSplits
  <1>1. CASE Receive /\ UNCHANGED hubOnly
    <2>1. SwitchTypeOK'
      BY <1>1 DEF hubOnly, SwitchTypeOK
    <2>2. inbox # <<>> /\ inbox' = Tail(inbox)
      BY <1>1 DEF Receive, ReceiveKey, ReceiveAbort, ReceiveRxBand, ReceiveTxBand,
                  ReceiveTest, ReceiveShutdown, Message
    <2>3. Head(inbox) \in Ctrl /\ inbox' \in Seq(Ctrl)
      BY <2>2
    <2>4. Head(inbox).op = "key" => Head(inbox).on \in BOOLEAN
      BY <2>3 DEF Ctrl, Key, Abort, Shutdown, RxBand, TxBand, Test
    <2>5. Head(inbox).op \in {"rxBand", "txBand"} => Head(inbox).band \in Band
      BY <2>3 DEF Ctrl, Key, Abort, Shutdown, RxBand, TxBand, Test
    <2>6. WorkerTypeOK'
      BY <1>1, <2>4, <2>5 DEF Receive, ReceiveKey, ReceiveAbort, ReceiveRxBand, ReceiveTxBand,
                  ReceiveTest, ReceiveShutdown, Message, TakePending, WorkerTypeOK, MaybeBand
    <2> QED
      BY <2>1, <2>3, <2>6
  <1>2. CASE (Rise \/ Fall \/ GiveUp) /\ UNCHANGED hubOnly
    <2>1. SwitchTypeOK'
      BY <1>2 DEF hubOnly, SwitchTypeOK
    <2>2. inbox' \in Seq(Ctrl) /\ WorkerTypeOK'
      BY <1>2 DEF Rise, Fall, GiveUp, TakePending, WorkerTypeOK, MaybeBand
    <2> QED
      BY <2>1, <2>2
  <1>3. CASE SensePoll("keyed") \/ SensePoll("clear")
    BY <1>3 DEF SensePoll, Sense, WorkerTypeOK, SwitchTypeOK, Level
  <1> QED
    BY <1>1, <1>2, <1>3


LEMMA Bands == Band \subseteq MaybeBand
  BY DEF MaybeBand

\* Where an engine's program counter may go.
ControlTypeOK == pc \in [Radio -> Label] /\ cont \in [Radio -> Label]

LEMMA Labels ==
    ASSUME EngineTypeOK, NEW r \in Radio
    PROVE  /\ \A to \in Label : Goto(r, to) => ControlTypeOK'
           /\ \A to, return \in Label : Call(r, to, return) => ControlTypeOK'
           /\ \A on \in BOOLEAN, return \in Label : PublishLabel(r, on, return) \in Label
           /\ \A on \in BOOLEAN, return \in Label : Publish(r, on, return) => ControlTypeOK'
           /\ \A on \in BOOLEAN, return \in Label :
                 TellThenPublish(r, on, return) => ControlTypeOK'
           /\ \A return \in Label : TellThenLead(r, return) => ControlTypeOK'
  <1>1. ASSUME NEW to \in Label, NEW return \in Label
        PROVE  (Goto(r, to) => ControlTypeOK') /\ (Call(r, to, return) => ControlTypeOK')
    BY DEF EngineTypeOK, ControlTypeOK, Goto, Call
  <1>2. ASSUME NEW on \in BOOLEAN, NEW return \in Label
        PROVE  PublishLabel(r, on, return) \in Label
    BY DEF PublishLabel, Label, HubCall
  <1>3. "tell" \in Label /\ "claim" \in Label
    BY DEF Label, HubCall
  <1> QED
    BY <1>1, <1>2, <1>3 DEF Publish, TellThenPublish, TellThenLead

LEMMA OnAirTypes ==
    ASSUME EngineTypeOK, NEW r \in Radio
    PROVE  /\ OnAirR(r) \in BOOLEAN
           /\ \A active, rig, cw \in BOOLEAN : OnAirBy(active, rig, cw) \in BOOLEAN
           /\ Reported(r) \in BOOLEAN
  BY DEF EngineTypeOK, OnAirR, OnAirBy, Reported

\* A step of one engine, by the family of handlers it belongs to.
LEMMA EngineStepTypes ==
    ASSUME TypeOK, NEW r \in Radio, Engine(r) \/ Operator(r)
    PROVE  EngineTypeOK'
  <1>0. EngineTypeOK
    BY TypeSplits
  <1>1. {"work", "rails", "begin", "sendCw", "deny", "over", "swapped", "cwUnkey", "cfgClose",
         "cfgJoin", "cfgInstall", "stopped", "lost", "tell", "claim", "keySend", "lead",
         "release", "unkeySend", "abort", "abortSend"} \subseteq Label
    BY DEF Label, HubCall
  <1>2. pc[r] \in Label /\ cont[r] \in Label /\ dial[r] \in MaybeBand
    BY <1>0 DEF EngineTypeOK, MaybeBand
  <1>3. /\ txActive[r] \in BOOLEAN /\ rigTx[r] \in BOOLEAN /\ cwGate[r] \in BOOLEAN
        /\ rf[r] \in BOOLEAN /\ cwRf[r] \in BOOLEAN /\ micRf[r] \in BOOLEAN
    BY <1>0 DEF EngineTypeOK
  <1>4. CASE HubStep(r)
    <2>1. ControlTypeOK'
      BY <1>0, <1>1, <1>2, <1>4, Labels, OnAirTypes
         DEF HubStep, TellBands, Claim, SendKeyDown, Lead, Unclaim, SendKeyUp, AbortClaim, SendAbort
    <2>2. EngineTypeOK'
      BY <1>0, <1>2, <1>4, <2>1
         DEF EngineTypeOK, ControlTypeOK, HubStep, TellBands, Claim, SendKeyDown, Lead, Unclaim,
             SendKeyUp, AbortClaim, SendAbort, engineVars, worldVars, Gate!GateTypeOK
    <2> QED
      BY <2>2
  <1>5. CASE \/ KeyDown(r) \/ PassRails(r) \/ RefuseRails(r) \/ TxBegin(r) \/ TxBeginFails(r)
             \/ Deny(r) \/ KeyUp(r) \/ Over(r)
    <2>1. ASSUME \/ KeyDown(r) \/ PassRails(r) \/ RefuseRails(r) \/ TxBegin(r)
                 \/ TxBeginFails(r) \/ KeyUp(r)
          PROVE  ControlTypeOK'
      BY <1>0, <1>1, <2>1, Labels
         DEF KeyDown, PassRails, RefuseRails, TxBegin, TxBeginFails, KeyUp, EngineTypeOK,
             ControlTypeOK
    <2>2. ASSUME Deny(r) \/ Over(r)
          PROVE  ControlTypeOK'
      BY <1>0, <1>1, <1>3, <2>2, Labels, OnAirTypes DEF Deny, Over
    <2>3. ControlTypeOK'
      BY <1>5, <2>1, <2>2
    <2>4. EngineTypeOK'
      BY <1>0, <1>5, <2>3
         DEF EngineTypeOK, ControlTypeOK, KeyDown, PassRails, RefuseRails, TxBegin, TxBeginFails,
             Deny, KeyUp, Over, engineVars, worldVars, Gate!GateTypeOK, Gate!Acquire, Gate!Release
    <2> QED
      BY <2>4
  <1>6. CASE \/ SendCwText(r) \/ RigSends(r) \/ RigFinishes(r) \/ CwExpires(r) \/ AbortCw(r)
             \/ AbortCwUnkeys(r)
    <2>1. ControlTypeOK'
      BY <1>0, <1>1, <1>3, <1>6, Labels, OnAirTypes
         DEF SendCwText, RigSends, RigFinishes, CwExpires, AbortCw, AbortCwUnkeys, controlVars,
             ControlTypeOK, EngineTypeOK
    <2>2. EngineTypeOK'
      BY <1>0, <1>6, <2>1
         DEF EngineTypeOK, ControlTypeOK, SendCwText, RigSends, RigFinishes, CwExpires, AbortCw,
             AbortCwUnkeys, engineVars, worldVars, Gate!GateTypeOK, Gate!Acquire, Gate!Release
    <2> QED
      BY <2>2
  <1>7. CASE RigReport(r) \/ Poll(r) \/ AdoptSenseEdge(r)
    <2>0. \/ UNCHANGED controlVars
          \/ \E on \in BOOLEAN : TellThenPublish(r, on, "work")
      <3>1. CASE RigReport(r)
        BY <1>0, <1>3, <3>1, OnAirTypes DEF RigReport
      <3>2. CASE Poll(r)
        BY <1>0, <3>2, OnAirTypes DEF Poll
      <3>3. CASE AdoptSenseEdge(r)
        <4> DEFINE keyed == senseEdge = "keyed"
        <4>1. OnAirBy(txActive[r], keyed, cwGate[r]) \in BOOLEAN
          BY DEF OnAirBy
        <4>2. UNCHANGED controlVars \/ TellThenPublish(r, OnAirBy(txActive[r], keyed, cwGate[r]), "work")
          BY <3>3 DEF AdoptSenseEdge
        <4> QED
          BY <4>1, <4>2
      <3> QED
        BY <1>7, <3>1, <3>2, <3>3
    <2>1. ControlTypeOK'
      BY <1>0, <1>1, <2>0, Labels DEF controlVars, ControlTypeOK, EngineTypeOK
    <2>2. EngineTypeOK'
      BY <1>0, <1>7, <2>1, OnAirTypes
         DEF EngineTypeOK, ControlTypeOK, RigReport, Poll, AdoptSenseEdge, engineVars, worldVars,
             Gate!GateTypeOK
    <2> QED
      BY <2>2
  <1>8. CASE \/ SetRelayConfig(r) \/ ApplyPending(r) \/ CloseDriver(r) \/ OpenDriver(r)
             \/ InstallDriver(r) \/ TestRelay(r)
    <2>1. ControlTypeOK'
      BY <1>0, <1>1, <1>8, Labels
         DEF SetRelayConfig, ApplyPending, CloseDriver, OpenDriver, InstallDriver, TestRelay, controlVars,
             ControlTypeOK, EngineTypeOK
    <2>2. EngineTypeOK'
      BY <1>0, <1>8, <2>1
         DEF EngineTypeOK, ControlTypeOK, SetRelayConfig, ApplyPending, CloseDriver, OpenDriver,
             InstallDriver, TestRelay, engineVars, worldVars, Gate!GateTypeOK
    <2> QED
      BY <2>2
  <1>9. CASE SwapSource(r) \/ Swapped(r) \/ Stop(r) \/ LoseLink(r)
    <2>1. ControlTypeOK'
      <3>1. CASE Swapped(r)
        BY <1>0, <1>1, <1>3, <3>1, Labels, OnAirTypes DEF Swapped
      <3>2. CASE Stop(r)
        BY <1>0, <1>1, <3>2, Labels DEF Stop
      <3>3. CASE LoseLink(r)
        BY <1>0, <1>1, <3>3, Labels DEF LoseLink
      <3>4. CASE SwapSource(r)
        <4>1. OnAirBy(txActive[r], FALSE, cwGate[r]) \in BOOLEAN
          BY DEF OnAirBy
        <4>2. \/ TellThenPublish(r, OnAirBy(txActive[r], FALSE, cwGate[r]), "swapped")
              \/ Call(r, "swapped", "work")
          BY <3>4 DEF SwapSource
        <4> QED
          BY <1>0, <1>1, <4>1, <4>2, Labels
      <3> QED
        BY <1>9, <3>1, <3>2, <3>3, <3>4
    <2>2. CASE SwapSource(r)
      BY <1>0, <2>1, <2>2 DEF EngineTypeOK, ControlTypeOK, SwapSource, Gate!GateTypeOK
    <2>3. CASE Swapped(r)
      BY <1>0, <2>1, <2>3
         DEF EngineTypeOK, ControlTypeOK, Swapped, worldVars, Gate!GateTypeOK, Gate!Release
    <2>4. CASE Stop(r)
      BY <1>0, <2>1, <2>4 DEF EngineTypeOK, ControlTypeOK, Stop, Gate!GateTypeOK, Gate!Release
    <2>5. CASE LoseLink(r)
      BY <1>0, <2>1, <2>5
         DEF EngineTypeOK, ControlTypeOK, LoseLink, engineVars, worldVars, Gate!GateTypeOK
    <2> QED
      BY <1>9, <2>2, <2>3, <2>4, <2>5
  <1>10. CASE Retune(r)
    <2>1. dial' \in [Radio -> Band]
      BY <1>0, <1>10 DEF EngineTypeOK, Retune
    <2>2. UNCHANGED <<owner, controlVars, engineVars, rf, cwRf, micRf>>
      BY <1>10 DEF Retune
    <2> QED
      BY <1>0, <2>1, <2>2 DEF EngineTypeOK, controlVars, engineVars, Gate!GateTypeOK
  <1>11. CASE MicKey(r)
    <2>1. micRf' \in [Radio -> BOOLEAN]
      BY <1>0, <1>11 DEF EngineTypeOK, MicKey
    <2>2. UNCHANGED <<owner, controlVars, engineVars, dial, rf, cwRf>>
      BY <1>11 DEF MicKey
    <2> QED
      BY <1>0, <2>1, <2>2 DEF EngineTypeOK, controlVars, engineVars, Gate!GateTypeOK
  <1> QED
    BY <1>4, <1>5, <1>6, <1>7, <1>8, <1>9, <1>10, <1>11 DEF Engine, Operator, PollTick

\* The same step, by the operation of the hub it calls.
LEMMA EngineStepHubTypes ==
    ASSUME TypeOK, NEW r \in Radio, Engine(r) \/ Operator(r)
    PROVE  HubTypeOK'
  <1>0. HubTypeOK /\ dial[r] \in Band
    BY TypeSplits DEF EngineTypeOK
  <1>1. CASE UNCHANGED hub
    BY <1>0, <1>1 DEF HubTypeOK, ContactsTypeOK, hub, hubVars, contactVars
  <1>2. CASE HubStep(r)
    BY <1>0, <1>1, <1>2, HubStepTypes
       DEF HubStep, TellBands, Claim, SendKeyDown, Lead, Unclaim, SendKeyUp, AbortClaim, SendAbort
  <1>3. CASE AdoptSenseEdge(r) \/ CloseDriver(r) \/ OpenDriver(r) \/ InstallDriver(r) \/ TestRelay(r)
    BY <1>0, <1>3, HubStepTypes
       DEF AdoptSenseEdge, CloseDriver, OpenDriver, InstallDriver, TestRelay
  <1>4. CASE \/ PassRails(r) \/ RefuseRails(r) \/ TxBegin(r) \/ TxBeginFails(r) \/ Deny(r)
             \/ Over(r) \/ RigSends(r) \/ CwExpires(r) \/ AbortCwUnkeys(r) \/ RigReport(r)
             \/ Poll(r) \/ ApplyPending(r) \/ Swapped(r)
    BY <1>1, <1>4 DEF PassRails, RefuseRails, TxBegin, TxBeginFails, Deny, Over, RigSends,
       CwExpires, AbortCwUnkeys, RigReport, Poll, ApplyPending, Swapped
  <1>5. CASE Operator(r) /\ ~TestRelay(r)
    BY <1>1, <1>5 DEF Operator, KeyDown, KeyUp, SendCwText, AbortCw, SetRelayConfig, SwapSource,
       Stop, LoseLink, Retune, MicKey, RigFinishes
  <1> QED
    BY <1>2, <1>3, <1>4, <1>5 DEF Engine, PollTick

\* The worker touches nothing of the engines'.
LEMMA WorkerStepEngine ==
    ASSUME Worker
    PROVE  UNCHANGED elsewhere
  BY DEF Worker, ReceiveCtrl, MoveContacts, SeeLine, Fail

\* The station starts well formed ...
LEMMA TypeInit == Init => TypeOK
  <1> SUFFICES ASSUME Init
               PROVE  HubTypeOK /\ EngineTypeOK
    BY TypeSplits
  <1>1. inbox \in Seq(Ctrl)
    BY DEF Init, HubInit, ContactsInit
  <1>2. WorkerTypeOK /\ SwitchTypeOK
    BY DEF Init, HubInit, ContactsInit, WorkerTypeOK, SwitchTypeOK, MaybeBand, NoLevel
  <1>3. EngineTypeOK
    BY DEF Init, EngineTypeOK, MaybeBand, Label, Gate!GateInit, Gate!GateTypeOK
  <1> QED
    BY <1>1, <1>2, <1>3, HubTypeSplits

\* ... and no step, whoever takes it, leaves it otherwise.
LEMMA TypeStep == TypeOK /\ [Next]_vars => TypeOK'
  <1> SUFFICES ASSUME TypeOK, [Next]_vars
               PROVE  TypeOK'
    OBVIOUS
  <1>0. HubTypeOK /\ EngineTypeOK
    BY TypeSplits
  <1>1. ASSUME NEW r \in Radio, Engine(r) \/ Operator(r)
        PROVE  TypeOK'
    BY <1>1, EngineStepTypes, EngineStepHubTypes, TypeSplits
  <1>2. CASE Worker
    <2>1. EngineTypeOK'
      BY <1>0, <1>2, WorkerStepEngine
         DEF EngineTypeOK, elsewhere, controlVars, engineVars, worldVars, Gate!GateTypeOK
    <2>2. HubTypeOK'
      BY <1>0, <1>2, WorkerStepTypes
         DEF Worker, ReceiveCtrl, MoveContacts, SeeLine, Fail, Line
    <2> QED
      BY <2>1, <2>2, TypeSplits
  <1>3. CASE UNCHANGED vars
    BY <1>3 DEF TypeOK, HubTypeOK, ContactsTypeOK, vars, hub, hubVars, contactVars, controlVars,
                engineVars, worldVars, Gate!GateTypeOK
  <1> QED
    BY <1>1, <1>2, <1>3 DEF Next

\* Every state the station reaches is well formed (Station's TypeOK), whatever
\* its size and whatever happens to it: no message but those apply_ctrl knows
\* is ever queued, and no claim is ever anybody's but a radio's.
THEOREM TypeCorrect == Spec => []TypeOK
  BY TypeInit, TypeStep, PTL DEF Spec
=============================================================================
