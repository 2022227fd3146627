---------------------------- MODULE GateProofs ----------------------------
(***************************************************************************)
(* The gate's promises, for any number of radios and whatever happens to   *)
(* them: no claim is left behind, and no two carriers the engines drive    *)
(* are up at once.  Neither is inductive: what has to be carried along is  *)
(* where in its handler an engine may be with the gate in its hand.        *)
(***************************************************************************)
EXTENDS StationProofs

\* Radio r's engine is at this point of a handler, or in a hub call that
\* returns to it.
Doing(r, label) == pc[r] = label \/ (pc[r] \in HubCall /\ cont[r] = label)

KeyingDown(r) == Doing(r, "rails") \/ Doing(r, "begin")

\* The carrier goes up last and comes down first.
CarrierInv(r) ==
    /\ rf[r] => txActive[r]
    /\ Doing(r, "over") \/ Doing(r, "swapped") => ~rf[r]
    /\ KeyingDown(r) \/ Doing(r, "deny") => ~txActive[r]

\* Nobody takes the gate from a radio that needs it ...
NeedsGate(r) == txActive[r] \/ KeyingDown(r)
HeldInv(r) == NeedsGate(r) => owner = r

\* ... and nobody keeps it who does not.
OwedInv(r) ==
    owner = r => NeedsGate(r) \/ cwGate[r] \/ Doing(r, "deny") \/ Doing(r, "swapped")

\* An engine on its way out has let go of the gate, and has its bit left to
\* clear at most.
StopInv(r) ==
    Doing(r, "stopped") =>
        /\ owner # r
        /\ pc[r] \in {"stopped", "release", "unkeySend"}
        /\ pc[r] # "release" => r \notin bits

GateInv(r) == CarrierInv(r) /\ HeldInv(r) /\ OwedInv(r) /\ StopInv(r)

IInv == TypeOK /\ \A r \in Radio : GateInv(r)

(***************************************************************************)
(* Where a step leaves an engine.                                          *)
(***************************************************************************)

Place == Label \ HubCall

\* The engine's next step in the handler it is in is at this place.
GoesTo(r, place) == \A label \in Place : Doing(r, label)' <=> label = place

LEMMA Whereabouts ==
    ASSUME EngineTypeOK, NEW r \in Radio, NEW place \in Place
    PROVE  /\ Goto(r, place) => GoesTo(r, place)
           /\ \A return \in Label : Call(r, place, return) => GoesTo(r, place)
           /\ \A call \in HubCall : Call(r, call, place) => GoesTo(r, place)
           /\ \A on \in BOOLEAN : Publish(r, on, place) => GoesTo(r, place)
           /\ \A on \in BOOLEAN : TellThenPublish(r, on, place) => GoesTo(r, place)
           /\ TellThenLead(r, place) => GoesTo(r, place)
  <1>1. Goto(r, place) => GoesTo(r, place)
    BY DEF EngineTypeOK, Place, GoesTo, Doing, Goto
  <1>2. ASSUME NEW return \in Label, Call(r, place, return)
        PROVE  GoesTo(r, place)
    BY <1>2 DEF EngineTypeOK, Place, GoesTo, Doing, Call
  <1>3. ASSUME NEW call \in HubCall, Call(r, call, place)
        PROVE  GoesTo(r, place)
    BY <1>3 DEF EngineTypeOK, Place, GoesTo, Doing, Call
  <1>4. place \in Label /\ {"tell", "claim", "release"} \subseteq HubCall
    BY DEF Place, HubCall
  <1>5. ASSUME NEW on \in BOOLEAN, Publish(r, on, place)
        PROVE  GoesTo(r, place)
    <2>1. PublishLabel(r, on, place) \in {place, "claim", "release"}
      BY DEF PublishLabel
    <2>2. Call(r, PublishLabel(r, on, place), place)
      BY <1>5 DEF Publish
    <2> QED
      BY <1>2, <1>3, <1>4, <2>1, <2>2
  <1>6. ASSUME NEW on \in BOOLEAN, TellThenPublish(r, on, place)
        PROVE  GoesTo(r, place)
    BY <1>3, <1>4, <1>5, <1>6 DEF TellThenPublish
  <1>7. TellThenLead(r, place) => GoesTo(r, place)
    BY <1>3, <1>4 DEF TellThenLead
  <1> QED
    BY <1>1, <1>2, <1>3, <1>5, <1>6, <1>7

\* A call into the hub stays in the handler it was made from.
LEMMA HubCallsReturn ==
    ASSUME EngineTypeOK, NEW r \in Radio, HubStep(r)
    PROVE  /\ pc[r] \in HubCall
           /\ \A label \in Place : Doing(r, label)' <=> Doing(r, label)
  <1>1. pc[r] \in HubCall
    BY DEF HubStep, TellBands, Claim, SendKeyDown, Lead, Unclaim, SendKeyUp, AbortClaim, SendAbort,
           At, HubCall
  <1>2. PICK next \in HubCall \cup {cont[r]} : Goto(r, next)
    BY DEF HubStep, TellBands, Claim, SendKeyDown, Lead, Unclaim, SendKeyUp, AbortClaim, SendAbort,
           HubCall, PublishLabel
  <1>3. \A label \in Place : Doing(r, label)' <=> Doing(r, label)
    BY <1>1, <1>2 DEF EngineTypeOK, Place, Doing, Goto
  <1> QED
    BY <1>1, <1>3

(***************************************************************************)
(* What a step leaves alone: everything of the other radios', and their    *)
(* claim on the gate.                                                      *)
(***************************************************************************)

GateMoves(r) ==
    \/ UNCHANGED owner
    \/ owner \in {NoRadio, r} /\ owner' = r
    \/ owner = r /\ owner' = NoRadio

EngineVarsKept(s) ==
    /\ pc'[s] = pc[s] /\ cont'[s] = cont[s]
    /\ txActive'[s] = txActive[s] /\ cwGate'[s] = cwGate[s] /\ rf'[s] = rf[s]
    /\ s \in bits' <=> s \in bits

LeavesOthers(r) == GateMoves(r) /\ \A s \in Radio \ {r} : EngineVarsKept(s)

LEMMA ControlKept ==
    ASSUME EngineTypeOK, NEW r \in Radio, NEW s \in Radio \ {r}
    PROVE  /\ \A to : Goto(r, to) => pc'[s] = pc[s] /\ cont'[s] = cont[s]
           /\ \A to, return : Call(r, to, return) => pc'[s] = pc[s] /\ cont'[s] = cont[s]
           /\ \A on, return : Publish(r, on, return) => pc'[s] = pc[s] /\ cont'[s] = cont[s]
           /\ \A on, return :
                 TellThenPublish(r, on, return) => pc'[s] = pc[s] /\ cont'[s] = cont[s]
           /\ \A return : TellThenLead(r, return) => pc'[s] = pc[s] /\ cont'[s] = cont[s]
  <1>1. ASSUME NEW to, NEW return
        PROVE  Goto(r, to) \/ Call(r, to, return) => pc'[s] = pc[s] /\ cont'[s] = cont[s]
    BY DEF EngineTypeOK, Goto, Call
  <1> QED
    BY <1>1 DEF Publish, TellThenPublish, TellThenLead

LEMMA GateSteps ==
    ASSUME NEW r \in Radio
    PROVE  Gate!Acquire(r) \/ Gate!Release(r) => GateMoves(r)
  BY DEF Gate!Acquire, Gate!Grants, Gate!Release, GateMoves

LEMMA OneEngineMoves ==
    ASSUME TypeOK, NEW r \in Radio, Engine(r) \/ Operator(r)
    PROVE  LeavesOthers(r)
  <1>0. EngineTypeOK
    BY TypeSplits
  <1>1. GateMoves(r)
    <2>1. CASE HubStep(r)
      BY <2>1 DEF GateMoves, HubStep, TellBands, Claim, SendKeyDown, Lead, Unclaim, SendKeyUp,
                  AbortClaim, SendAbort
    <2>2. CASE \/ KeyDown(r) \/ SendCwText(r) \/ Deny(r) \/ Over(r) \/ CwExpires(r) \/ AbortCw(r)
               \/ Swapped(r) \/ Stop(r)
      BY <2>2, GateSteps DEF GateMoves, KeyDown, SendCwText, Deny, Over, CwExpires, AbortCw,
                             Swapped, Stop
    <2>3. CASE \/ PassRails(r) \/ RefuseRails(r) \/ TxBegin(r) \/ TxBeginFails(r) \/ RigSends(r)
               \/ AbortCwUnkeys(r) \/ RigReport(r) \/ PollTick(r) \/ CloseDriver(r)
               \/ OpenDriver(r) \/ InstallDriver(r) \/ KeyUp(r) \/ SetRelayConfig(r) \/ TestRelay(r)
               \/ SwapSource(r) \/ LoseLink(r) \/ Retune(r) \/ MicKey(r) \/ RigFinishes(r)
      BY <2>3 DEF GateMoves, PassRails, RefuseRails, TxBegin, TxBeginFails, RigSends, AbortCwUnkeys,
                  RigReport, PollTick, Poll, AdoptSenseEdge, ApplyPending, CloseDriver, OpenDriver,
                  InstallDriver, KeyUp, SetRelayConfig, TestRelay, SwapSource, LoseLink, Retune,
                  MicKey, RigFinishes
    <2> QED
      BY <2>1, <2>2, <2>3 DEF Engine, Operator
  <1>2. ASSUME NEW s \in Radio \ {r}
        PROVE  EngineVarsKept(s)
    <2>1. CASE HubStep(r)
      <3>1. pc'[s] = pc[s] /\ cont'[s] = cont[s]
        BY <1>0, <2>1, ControlKept DEF HubStep, TellBands, Claim, SendKeyDown, Lead, Unclaim,
           SendKeyUp, AbortClaim, SendAbort
      <3>2. UNCHANGED <<txActive, cwGate, rf>>
        BY <2>1 DEF HubStep, TellBands, Claim, SendKeyDown, Lead, Unclaim,
           SendKeyUp, AbortClaim, SendAbort, engineVars, worldVars
      <3>3. bits' \in {bits, bits \cup {r}, bits \ {r}}
        BY <2>1 DEF HubStep, TellBands, SetBands, Claim, KeyClaim, SendKeyDown, KeySend, Lead, hub,
           hubVars, Unclaim, ReleaseClaim, SendKeyUp, UnkeySend, OverEnded, AbortClaim, SendAbort,
           AbortSend
      <3> QED
        BY <3>1, <3>2, <3>3 DEF EngineVarsKept
    <2>2. CASE \/ KeyDown(r) \/ PassRails(r) \/ RefuseRails(r) \/ TxBegin(r) \/ TxBeginFails(r)
               \/ Deny(r) \/ KeyUp(r) \/ Over(r)
      <3>1. pc'[s] = pc[s] /\ cont'[s] = cont[s]
        BY <1>0, <2>2, ControlKept DEF KeyDown, PassRails, RefuseRails, TxBegin, TxBeginFails, Deny,
           KeyUp, Over
      <3> QED
        BY <1>0, <2>2, <3>1 DEF EngineVarsKept, EngineTypeOK, KeyDown, PassRails, RefuseRails,
           TxBegin, TxBeginFails, Deny, KeyUp, Over, engineVars, worldVars, hub, hubVars
    <2>3. CASE \/ SendCwText(r) \/ RigSends(r) \/ RigFinishes(r) \/ CwExpires(r) \/ AbortCw(r)
               \/ AbortCwUnkeys(r)
      <3>1. pc'[s] = pc[s] /\ cont'[s] = cont[s]
        BY <1>0, <2>3, ControlKept DEF SendCwText, RigSends, RigFinishes, CwExpires, AbortCw,
           AbortCwUnkeys, controlVars
      <3> QED
        BY <1>0, <2>3, <3>1 DEF EngineVarsKept, EngineTypeOK, SendCwText, RigSends, RigFinishes,
           CwExpires, AbortCw, AbortCwUnkeys, engineVars, worldVars, hub, hubVars
    <2>4. CASE \/ RigReport(r) \/ PollTick(r) \/ SetRelayConfig(r) \/ CloseDriver(r)
               \/ OpenDriver(r) \/ InstallDriver(r) \/ TestRelay(r)
      <3>1. pc'[s] = pc[s] /\ cont'[s] = cont[s]
        BY <1>0, <2>4, ControlKept DEF RigReport, PollTick, Poll, AdoptSenseEdge, ApplyPending,
           SetRelayConfig, CloseDriver, OpenDriver, InstallDriver, TestRelay, controlVars
      <3>2. UNCHANGED <<txActive, cwGate, rf, bits>>
        BY <2>4 DEF RigReport, PollTick, Poll, AdoptSenseEdge, TakeSenseEdge, ApplyPending,
           SetRelayConfig, CloseDriver, InstallNone, OpenDriver, NoteOpen, InstallDriver,
           InstallOpened, TestRelay, TestContact, engineVars, worldVars, hub, hubVars
      <3> QED
        BY <3>1, <3>2 DEF EngineVarsKept
    <2>5. CASE \/ SwapSource(r) \/ Swapped(r) \/ Stop(r) \/ LoseLink(r) \/ Retune(r) \/ MicKey(r)
      <3>1. pc'[s] = pc[s] /\ cont'[s] = cont[s]
        BY <1>0, <2>5, ControlKept DEF SwapSource, Swapped, Stop, LoseLink, Retune, MicKey,
           controlVars
      <3> QED
        BY <1>0, <2>5, <3>1 DEF EngineVarsKept, EngineTypeOK, SwapSource, Swapped, Stop, LoseLink,
           Retune, MicKey, engineVars, worldVars, hub, hubVars
    <2> QED
      BY <2>1, <2>2, <2>3, <2>4, <2>5 DEF Engine, Operator
  <1> QED
    BY <1>1, <1>2 DEF LeavesOthers

\* So the other radios' part of the invariant holds on.
LEMMA OthersKept ==
    ASSUME NEW r \in Radio, LeavesOthers(r), NEW s \in Radio \ {r}, GateInv(s)
    PROVE  GateInv(s)'
  <1>1. EngineVarsKept(s) /\ GateMoves(r) /\ s # NoRadio
    BY RadioAssumption DEF LeavesOthers
  <1>2. \A label : Doing(s, label)' <=> Doing(s, label)
    BY <1>1 DEF EngineVarsKept, Doing
  <1>3. owner' = s <=> owner = s
    BY <1>1 DEF GateMoves
  <1>4. CarrierInv(s)' /\ HeldInv(s)' /\ OwedInv(s)'
    BY <1>1, <1>2, <1>3 DEF GateInv, CarrierInv, HeldInv, OwedInv, NeedsGate, KeyingDown,
                            EngineVarsKept
  <1>5. StopInv(s)'
    BY <1>1, <1>2, <1>3 DEF GateInv, StopInv, EngineVarsKept
  <1> QED
    BY <1>4, <1>5 DEF GateInv

(***************************************************************************)
(* The invariant, for the radio that steps, by where it steps from.        *)
(***************************************************************************)

LEMMA Places ==
    {"work", "rails", "begin", "sendCw", "deny", "over", "swapped", "cwUnkey", "cfgClose",
     "cfgJoin", "cfgInstall", "stopped", "lost"} \subseteq Place
  BY DEF Place, Label, HubCall

\* An engine that is somewhere is nowhere else.
LEMMA OnePlace ==
    ASSUME NEW r \in Radio, NEW place \in Place, pc[r] = place
    PROVE  \A label \in Place : Doing(r, label) <=> label = place
  BY DEF Place, Doing

\* The invariant of a radio, spelt out for an engine bound for some place.
LEMMA Arrives ==
    ASSUME NEW r \in Radio, NEW place \in Place, GoesTo(r, place),
           place # "stopped",
           rf'[r] => txActive'[r],
           place \in {"over", "swapped"} => ~rf'[r],
           place \in {"rails", "begin", "deny"} => ~txActive'[r],
           txActive'[r] \/ place \in {"rails", "begin"} => owner' = r,
           owner' = r => txActive'[r] \/ cwGate'[r]
                         \/ place \in {"rails", "begin", "deny", "swapped"}
    PROVE  GateInv(r)'
  <1>1. \A label \in {"over", "swapped", "rails", "begin", "deny", "stopped"} :
            Doing(r, label)' <=> label = place
    BY Places DEF GoesTo
  <1> QED
    BY <1>1 DEF GateInv, CarrierInv, HeldInv, OwedInv, StopInv, NeedsGate, KeyingDown

\* What the invariant says of an engine where no hub call hides its place.
LEMMA Stands ==
    ASSUME NEW r \in Radio, NEW place \in Place, pc[r] = place, GateInv(r)
    PROVE  /\ rf[r] => txActive[r]
           /\ place \in {"over", "swapped"} => ~rf[r]
           /\ place \in {"rails", "begin", "deny"} => ~txActive[r]
           /\ txActive[r] \/ place \in {"rails", "begin"} => owner = r
           /\ owner = r => txActive[r] \/ cwGate[r]
                            \/ place \in {"rails", "begin", "deny", "swapped"}
  <1>1. \A label \in {"over", "swapped", "rails", "begin", "deny", "stopped"} :
            Doing(r, label) <=> label = place
    BY OnePlace, Places
  <1> QED
    BY <1>1 DEF GateInv, CarrierInv, HeldInv, OwedInv, NeedsGate, KeyingDown

\* A step that moves neither the gate, the carrier nor the engine.
GateUnmoved(r) ==
    /\ UNCHANGED <<owner, controlVars>>
    /\ txActive'[r] = txActive[r] /\ cwGate'[r] = cwGate[r] /\ rf'[r] = rf[r]
    /\ r \in bits' <=> r \in bits

LEMMA Unmoved ==
    ASSUME NEW r \in Radio, GateInv(r), GateUnmoved(r)
    PROVE  GateInv(r)'
  <1>1. \A label : Doing(r, label)' <=> Doing(r, label)
    BY DEF GateUnmoved, Doing, controlVars
  <1> QED
    BY <1>1 DEF GateUnmoved, controlVars, GateInv, CarrierInv, HeldInv, OwedInv, StopInv, NeedsGate,
                KeyingDown

LEMMA HubStepKeeps ==
    ASSUME TypeOK, NEW r \in Radio, GateInv(r), HubStep(r)
    PROVE  GateInv(r)'
  <1>0. EngineTypeOK
    BY TypeSplits
  <1>1. \A label \in Place : Doing(r, label)' <=> Doing(r, label)
    BY <1>0, HubCallsReturn
  <1>2. UNCHANGED <<owner, txActive, cwGate, rf>>
    BY DEF HubStep, TellBands, Claim, SendKeyDown, Lead, Unclaim, SendKeyUp, AbortClaim, SendAbort,
           engineVars, worldVars
  <1>3. CarrierInv(r)' /\ HeldInv(r)' /\ OwedInv(r)'
    BY <1>1, <1>2, Places DEF GateInv, CarrierInv, HeldInv, OwedInv, NeedsGate, KeyingDown
  <1>4. StopInv(r)'
    <2> SUFFICES ASSUME Doing(r, "stopped")'
                 PROVE  owner # r /\ pc'[r] \in {"stopped", "unkeySend"} /\ r \notin bits'
      BY <1>2 DEF StopInv
    <2>1. cont[r] = "stopped" /\ pc[r] \in {"release", "unkeySend"} /\ owner # r
      <3>1. Doing(r, "stopped") /\ pc[r] \in HubCall
        BY <1>0, <1>1, HubCallsReturn, Places
      <3> QED
        BY <3>1 DEF GateInv, StopInv, Doing, HubCall
    <2>2. CASE pc[r] = "release"
      <3>1. Unclaim(r)
        BY <2>2 DEF HubStep, TellBands, Claim, SendKeyDown, Lead, Unclaim, SendKeyUp, AbortClaim,
                    SendAbort, At
      <3> QED
        BY <1>0, <2>1, <3>1 DEF Unclaim, ReleaseClaim, Goto, EngineTypeOK
    <2>3. CASE pc[r] = "unkeySend"
      <3>1. SendKeyUp(r)
        BY <2>3 DEF HubStep, TellBands, Claim, SendKeyDown, Lead, Unclaim, SendKeyUp, AbortClaim,
                    SendAbort, At
      <3>2. r \notin bits
        BY <1>1, <2>3, Places DEF GateInv, StopInv
      <3> QED
        BY <1>0, <2>1, <3>1, <3>2 DEF SendKeyUp, UnkeySend, OverEnded, Goto, EngineTypeOK
    <2> QED
      BY <2>1, <2>2, <2>3
  <1> QED
    BY <1>3, <1>4 DEF GateInv

\* sync_tx_state, down and up.
LEMMA OverKeeps ==
    ASSUME TypeOK, NEW r \in Radio, GateInv(r),
           \/ KeyDown(r) \/ PassRails(r) \/ RefuseRails(r) \/ TxBegin(r) \/ TxBeginFails(r)
           \/ Deny(r) \/ KeyUp(r) \/ Over(r)
    PROVE  GateInv(r)'
  <1>0. EngineTypeOK /\ r # NoRadio
    BY TypeSplits, RadioAssumption
  <1>1. /\ txActive[r] \in BOOLEAN /\ rigTx[r] \in BOOLEAN /\ cwGate[r] \in BOOLEAN
        /\ rf[r] \in BOOLEAN /\ OnAirR(r) \in BOOLEAN
    BY <1>0, OnAirTypes DEF EngineTypeOK
  <1>2. CASE KeyDown(r)
    <2>1. pc[r] = "work" /\ ~txActive[r] /\ UNCHANGED <<txActive, cwGate, rf>>
      BY <1>2 DEF KeyDown, At, worldVars
    <2>2. ~rf[r] /\ (owner = r => cwGate[r])
      BY <2>1, Stands, Places
    <2>3. \/ GoesTo(r, "deny") /\ owner' = owner
          \/ GoesTo(r, "rails") /\ owner' = r
      BY <1>0, <1>2, Whereabouts, Places DEF KeyDown, Gate!Acquire
    <2> QED
      BY <2>1, <2>2, <2>3, Arrives, Places
  <1>3. CASE PassRails(r) \/ RefuseRails(r)
    <2>1. pc[r] = "rails" /\ UNCHANGED <<owner, txActive, cwGate, rf>>
      BY <1>3 DEF PassRails, RefuseRails, At, engineVars, worldVars
    <2>2. owner = r /\ ~txActive[r] /\ ~rf[r]
      BY <2>1, Stands, Places
    <2>3. GoesTo(r, "begin") \/ GoesTo(r, "deny")
      BY <1>0, <1>3, Whereabouts, Places DEF PassRails, RefuseRails
    <2> QED
      BY <2>1, <2>2, <2>3, Arrives, Places
  <1>4. CASE TxBegin(r) \/ TxBeginFails(r)
    <2>1. pc[r] = "begin" /\ UNCHANGED <<owner, cwGate>>
      BY <1>4 DEF TxBegin, TxBeginFails, At, engineVars
    <2>2. owner = r /\ ~txActive[r] /\ ~rf[r]
      BY <2>1, Stands, Places
    <2>3. \/ GoesTo(r, "work") /\ txActive'[r] /\ rf'[r]
          \/ GoesTo(r, "deny") /\ UNCHANGED <<txActive, rf>>
      <3>1. "abort" \in HubCall
        BY DEF HubCall
      <3> QED
        BY <1>0, <1>4, <3>1, Whereabouts, Places
           DEF TxBegin, TxBeginFails, EngineTypeOK, engineVars, worldVars
    <2> QED
      BY <2>1, <2>2, <2>3, Arrives, Places
  <1>5. CASE Deny(r)
    <2>1. pc[r] = "deny" /\ UNCHANGED <<txActive, cwGate, rf>>
      BY <1>5 DEF Deny, At, worldVars
    <2>2. ~txActive[r] /\ ~rf[r] /\ owner' # r
      BY <1>0, <1>5, <2>1, Stands, Places DEF Deny, Gate!Release
    <2>3. GoesTo(r, "work")
      BY <1>0, <1>1, <1>5, Whereabouts, Places DEF Deny
    <2> QED
      BY <2>1, <2>2, <2>3, Arrives, Places
  <1>6. CASE KeyUp(r)
    <2>1. pc[r] = "work" /\ txActive[r] /\ UNCHANGED <<owner, txActive>> /\ ~rf'[r]
      BY <1>0, <1>6 DEF KeyUp, At, EngineTypeOK
    <2>2. owner = r
      BY <2>1, Stands, Places
    <2>3. GoesTo(r, "over")
      <3>1. "release" \in HubCall
        BY DEF HubCall
      <3> QED
        BY <1>0, <1>6, <3>1, Whereabouts, Places DEF KeyUp
    <2> QED
      BY <2>1, <2>2, <2>3, Arrives, Places
  <1>7. CASE Over(r)
    <2>1. pc[r] = "over" /\ UNCHANGED <<cwGate, rf>> /\ ~txActive'[r]
      BY <1>0, <1>7 DEF Over, At, worldVars, EngineTypeOK
    <2>2. ~rf[r] /\ owner' # r
      BY <1>0, <1>7, <2>1, Stands, Places DEF Over, Gate!Release
    <2>3. GoesTo(r, "work")
      <3>1. OnAirBy(FALSE, rigTx[r], cwGate[r]) \in BOOLEAN
        BY <1>1 DEF OnAirBy
      <3> QED
        BY <1>0, <1>7, <3>1, Whereabouts, Places DEF Over
    <2> QED
      BY <2>1, <2>2, <2>3, Arrives, Places
  <1> QED
    BY <1>2, <1>3, <1>4, <1>5, <1>6, <1>7

\* Messages for the rig's keyer.
LEMMA MessageKeeps ==
    ASSUME TypeOK, NEW r \in Radio, GateInv(r),
           \/ SendCwText(r) \/ RigSends(r) \/ RigFinishes(r) \/ CwExpires(r) \/ AbortCw(r)
           \/ AbortCwUnkeys(r)
    PROVE  GateInv(r)'
  <1>0. EngineTypeOK /\ r # NoRadio
    BY TypeSplits, RadioAssumption
  <1>1. /\ txActive[r] \in BOOLEAN /\ rigTx[r] \in BOOLEAN /\ cwGate[r] \in BOOLEAN
        /\ rf[r] \in BOOLEAN /\ OnAirR(r) \in BOOLEAN
    BY <1>0, OnAirTypes DEF EngineTypeOK
  <1>2. CASE SendCwText(r)
    <2>1. pc[r] = "work" /\ UNCHANGED <<txActive, rf>> /\ cwGate'[r] /\ owner' = r
      BY <1>0, <1>2 DEF SendCwText, At, worldVars, Gate!Acquire, EngineTypeOK
    <2>2. rf[r] => txActive[r]
      BY <2>1, Stands, Places
    <2>3. GoesTo(r, "sendCw")
      BY <1>0, <1>2, Whereabouts, Places DEF SendCwText
    <2> QED
      BY <2>1, <2>2, <2>3, Arrives, Places
  <1>3. CASE RigSends(r)
    <2>1. pc[r] = "sendCw" /\ UNCHANGED <<owner, txActive, cwGate, rf>>
      BY <1>3 DEF RigSends, At, engineVars
    <2>2. GoesTo(r, "work")
      BY <1>0, <1>3, Whereabouts, Places DEF RigSends
    <2> QED
      BY <2>1, <2>2, Stands, Arrives, Places
  <1>4. CASE RigFinishes(r)
    BY <1>4, Unmoved DEF RigFinishes, GateUnmoved, engineVars, hub, hubVars
  <1>5. CASE CwExpires(r) \/ AbortCw(r)
    <2>1. pc[r] = "work" /\ UNCHANGED <<txActive, rf, bits>> /\ ~cwGate'[r]
      BY <1>0, <1>5 DEF CwExpires, AbortCw, At, worldVars, EngineTypeOK, hub, hubVars
    <2>2. CASE txActive[r]
      <3>1. UNCHANGED <<owner, controlVars>> /\ owner = r
        BY <1>5, <2>1, <2>2, Stands, Places DEF CwExpires, AbortCw
      <3>2. GoesTo(r, "work")
        BY <1>0, <2>1, <3>1, Places DEF GoesTo, Doing, Place, controlVars
      <3> QED
        BY <2>1, <2>2, <3>1, <3>2, Arrives, Places
    <2>3. CASE ~txActive[r]
      <3>1. owner' # r /\ ~rf[r]
        BY <1>0, <1>5, <2>1, <2>3, Stands, Places DEF CwExpires, AbortCw, Gate!Release
      <3>2. GoesTo(r, "work") \/ GoesTo(r, "cwUnkey")
        BY <1>0, <1>1, <1>5, <2>3, Whereabouts, Places DEF CwExpires, AbortCw
      <3> QED
        BY <2>1, <2>3, <3>1, <3>2, Arrives, Places
    <2> QED
      BY <2>2, <2>3
  <1>6. CASE AbortCwUnkeys(r)
    <2>1. pc[r] = "cwUnkey" /\ UNCHANGED <<owner, txActive, cwGate, rf>>
      BY <1>6 DEF AbortCwUnkeys, At, engineVars, worldVars
    <2>2. GoesTo(r, "work")
      <3>1. "release" \in HubCall
        BY DEF HubCall
      <3> QED
        BY <1>0, <1>6, <3>1, Whereabouts, Places DEF AbortCwUnkeys
    <2> QED
      BY <2>1, <2>2, Stands, Arrives, Places
  <1> QED
    BY <1>2, <1>3, <1>4, <1>5, <1>6

\* The radio's own keying, the tick and the reconfiguration: none of them
\* touches the gate, a carrier or a flag the gate depends on.
LEMMA TickKeeps ==
    ASSUME TypeOK, NEW r \in Radio, GateInv(r),
           \/ RigReport(r) \/ PollTick(r) \/ SetRelayConfig(r) \/ CloseDriver(r)
           \/ OpenDriver(r) \/ InstallDriver(r) \/ TestRelay(r)
    PROVE  GateInv(r)'
  <1>0. EngineTypeOK /\ r # NoRadio
    BY TypeSplits, RadioAssumption
  <1>1. /\ txActive[r] \in BOOLEAN /\ rigTx[r] \in BOOLEAN /\ cwGate[r] \in BOOLEAN
        /\ rf[r] \in BOOLEAN /\ OnAirR(r) \in BOOLEAN
    BY <1>0, OnAirTypes DEF EngineTypeOK
  <1>2. /\ UNCHANGED <<owner, txActive, cwGate, rf, bits>>
        /\ pc[r] \in {"work", "cfgClose", "cfgJoin", "cfgInstall"}
    BY DEF RigReport, PollTick, Poll, AdoptSenseEdge, TakeSenseEdge, ApplyPending, SetRelayConfig,
           CloseDriver, InstallNone, OpenDriver, NoteOpen, InstallDriver, InstallOpened, TestRelay,
           TestContact, At,
           engineVars, worldVars, hub, hubVars
  <1>3. /\ rf[r] => txActive[r]
        /\ txActive[r] => owner = r
        /\ owner = r => txActive[r] \/ cwGate[r]
    BY <1>2, Stands, Places
  <1>4. CASE UNCHANGED controlVars
    BY <1>2, <1>4, Unmoved DEF GateUnmoved
  <1>5. ASSUME NEW place \in {"work", "cfgClose", "cfgJoin", "cfgInstall"}, GoesTo(r, place)
        PROVE  GateInv(r)'
    BY <1>2, <1>3, <1>5, Arrives, Places
  <1>6. CASE RigReport(r) \/ Poll(r) \/ AdoptSenseEdge(r)
    <2>1. \/ UNCHANGED controlVars
          \/ \E on \in BOOLEAN : TellThenPublish(r, on, "work")
      <3>1. CASE RigReport(r)
        BY <1>0, <1>1, <3>1, OnAirTypes DEF RigReport
      <3>2. CASE Poll(r)
        BY <1>1, <3>2 DEF Poll
      <3>3. CASE AdoptSenseEdge(r)
        <4> DEFINE keyed == senseEdge = "keyed"
        <4>1. OnAirBy(txActive[r], keyed, cwGate[r]) \in BOOLEAN
          BY DEF OnAirBy
        <4>2. \/ UNCHANGED controlVars
              \/ TellThenPublish(r, OnAirBy(txActive[r], keyed, cwGate[r]), "work")
          BY <3>3 DEF AdoptSenseEdge
        <4> QED
          BY <4>1, <4>2
      <3> QED
        BY <1>6, <3>1, <3>2, <3>3
    <2> QED
      BY <1>0, <1>4, <1>5, <2>1, Whereabouts, Places
  <1>7. CASE \/ SetRelayConfig(r) \/ ApplyPending(r) \/ CloseDriver(r) \/ OpenDriver(r)
             \/ InstallDriver(r) \/ TestRelay(r)
    <2>1. \/ UNCHANGED controlVars
          \/ \E place \in {"work", "cfgClose", "cfgJoin", "cfgInstall"} : Goto(r, place)
      BY <1>7 DEF SetRelayConfig, ApplyPending, CloseDriver, OpenDriver, InstallDriver, TestRelay
    <2> QED
      BY <1>0, <1>4, <1>5, <2>1, Whereabouts, Places
  <1> QED
    BY <1>6, <1>7 DEF PollTick

\* A front end swapped, and an engine that ends.
LEMMA EndKeeps ==
    ASSUME TypeOK, NEW r \in Radio, GateInv(r),
           \/ SwapSource(r) \/ Swapped(r) \/ Stop(r) \/ LoseLink(r) \/ Retune(r) \/ MicKey(r)
    PROVE  GateInv(r)'
  <1>0. EngineTypeOK /\ r # NoRadio
    BY TypeSplits, RadioAssumption
  <1>1. /\ txActive[r] \in BOOLEAN /\ rigTx[r] \in BOOLEAN /\ cwGate[r] \in BOOLEAN
        /\ rf[r] \in BOOLEAN /\ OnAirR(r) \in BOOLEAN
    BY <1>0, OnAirTypes DEF EngineTypeOK
  <1>2. CASE SwapSource(r)
    <2>1. pc[r] = "work" /\ UNCHANGED <<owner, txActive, cwGate>> /\ ~rf'[r]
      BY <1>0, <1>2 DEF SwapSource, At, EngineTypeOK
    <2>2. GoesTo(r, "swapped")
      <3>1. OnAirBy(txActive[r], FALSE, cwGate[r]) \in BOOLEAN /\ "work" \in Label
        BY <1>1, Places DEF OnAirBy, Place
      <3> QED
        BY <1>0, <1>2, <3>1, Whereabouts, Places DEF SwapSource
    <2> QED
      BY <2>1, <2>2, Stands, Arrives, Places
  <1>3. CASE Swapped(r)
    <2>1. pc[r] = "swapped" /\ UNCHANGED rf /\ ~txActive'[r]
      BY <1>0, <1>3 DEF Swapped, At, worldVars, EngineTypeOK
    <2>2. ~rf[r] /\ owner' # r
      BY <1>0, <1>3, <2>1, Stands, Places DEF Swapped, Gate!Release
    <2>3. GoesTo(r, "work")
      <3>1. OnAirBy(FALSE, rigTx[r], cwGate[r]) \in BOOLEAN
        BY <1>1 DEF OnAirBy
      <3> QED
        BY <1>0, <1>3, <3>1, Whereabouts, Places DEF Swapped
    <2> QED
      BY <2>1, <2>2, <2>3, Arrives, Places
  <1>4. CASE Stop(r)
    <2>1. UNCHANGED bits /\ ~rf'[r] /\ ~txActive'[r] /\ owner' # r
      BY <1>0, <1>4 DEF Stop, EngineTypeOK, hub, hubVars, Gate!Release
    <2>2. \/ pc'[r] = "stopped" /\ r \notin bits
          \/ pc'[r] = "release" /\ cont'[r] = "stopped"
      BY <1>0, <1>4 DEF Stop, Publish, PublishLabel, Call, EngineTypeOK
    <2>3. \A label \in {"over", "swapped", "rails", "begin", "deny"} : ~Doing(r, label)'
      BY <2>2 DEF Doing, HubCall
    <2> QED
      BY <2>1, <2>2, <2>3 DEF GateInv, CarrierInv, HeldInv, OwedInv, StopInv, NeedsGate, KeyingDown
  <1>5. CASE LoseLink(r)
    <2>1. pc[r] = "work" /\ UNCHANGED <<owner, txActive, cwGate, rf>>
      BY <1>5 DEF LoseLink, At, engineVars, worldVars
    <2>2. GoesTo(r, "lost")
      BY <1>0, <1>5, Whereabouts, Places DEF LoseLink
    <2> QED
      BY <2>1, <2>2, Stands, Arrives, Places
  <1>6. CASE Retune(r) \/ MicKey(r)
    BY <1>6, Unmoved DEF Retune, MicKey, GateUnmoved, engineVars, hub, hubVars
  <1> QED
    BY <1>2, <1>3, <1>4, <1>5, <1>6

\* The worker's steps and stutters.
LEMMA WorkerKeeps ==
    ASSUME NEW r \in Radio, GateInv(r), Worker \/ UNCHANGED vars
    PROVE  GateInv(r)'
  <1>1. UNCHANGED <<elsewhere, bits>>
    <2>1. CASE Worker
      BY <2>1, WorkerStepEngine DEF Worker, ReceiveCtrl, MoveContacts, SeeLine, SensePoll, Fail,
                                    hubOnly
    <2>2. CASE UNCHANGED vars
      BY <2>2 DEF vars, elsewhere, hub, hubVars
    <2> QED
      BY <2>1, <2>2
  <1> QED
    BY <1>1, Unmoved DEF elsewhere, GateUnmoved, engineVars, worldVars

\* The inductive invariant of the gate: every claim is accounted for by what
\* its radio has on the air or by where its engine is, and every carrier by a
\* claim (sync_tx_state, deny_tx, release_tx_gate, adopt_source).
THEOREM GateAccounted == Spec => []IInv
  <1>1. Init => IInv
    <2> SUFFICES ASSUME Init, NEW r \in Radio
                 PROVE  GateInv(r)
      BY TypeInit DEF IInv
    <2>1. pc[r] = "work" /\ ~txActive[r] /\ ~rf[r] /\ owner # r
      BY RadioAssumption DEF Init, Gate!GateInit
    <2>2. \A label \in {"over", "swapped", "rails", "begin", "deny", "stopped"} : ~Doing(r, label)
      BY <2>1, OnePlace, Places
    <2> QED
      BY <2>1, <2>2 DEF GateInv, CarrierInv, HeldInv, OwedInv, StopInv, NeedsGate, KeyingDown
  <1>2. IInv /\ [Next]_vars => IInv'
    <2> SUFFICES ASSUME IInv, [Next]_vars, NEW s \in Radio
                 PROVE  GateInv(s)'
      BY TypeStep DEF IInv
    <2>0. TypeOK /\ GateInv(s)
      BY DEF IInv
    <2>1. ASSUME NEW r \in Radio, Engine(r) \/ Operator(r)
          PROVE  GateInv(s)'
      <3>1. CASE s = r
        <4>1. GateInv(r)
          BY DEF IInv
        <4>2. GateInv(r)'
          BY <2>0, <2>1, <4>1, HubStepKeeps, OverKeeps, MessageKeeps, TickKeeps, EndKeeps
             DEF Engine, Operator
        <4> QED
          BY <3>1, <4>2
      <3>2. CASE s # r
        <4>1. LeavesOthers(r)
          BY <2>0, <2>1, OneEngineMoves
        <4> QED
          BY <2>0, <3>2, <4>1, OthersKept
      <3> QED
        BY <3>1, <3>2
    <2>2. CASE Worker \/ UNCHANGED vars
      BY <2>0, <2>2, WorkerKeeps
    <2> QED
      BY <2>1, <2>2 DEF Next
  <1> QED
    BY <1>1, <1>2, PTL DEF Spec

\* No claim on the gate outlives the key-down that was refused, the over that
\* ended, the message that ran out or the front end that was swapped
\* (release_tx_gate on every such path), in a station of any size.
THEOREM GateNotLeaked == Spec => []NoLeakedClaim
  <1>1. IInv => NoLeakedClaim
    BY Stands, Places DEF IInv, NoLeakedClaim, At
  <1> QED
    BY <1>1, GateAccounted, PTL

\* An engine that stopped on purpose, or on a transmit error, holds neither the
\* gate nor its bit in the switch: nothing it leaves behind keeps the other
\* radios off the air (Engine::run, the two places it returns early).
THEOREM StoppedLetsGo == Spec => []StoppedHoldsNothing
  <1>1. IInv => StoppedHoldsNothing
    BY DEF IInv, StoppedHoldsNothing, GateInv, StopInv, Doing, At
  <1> QED
    BY <1>1, GateAccounted, PTL

(***************************************************************************)
(* One transmitter.  Every carrier an engine drives itself has the gate.   *)
(* One the rig's keyer makes may lose it in mid-message (run cw_under_gate)*)
(* so the promise is whole only for a station that sends no such message.  *)
(***************************************************************************)

\* At most one carrier that an engine drives sample by sample.
OneCarrier == \A r, s \in Radio : rf[r] /\ rf[s] => r = s

\* No two engines radiate at once, in a station of any size and whatever else
\* its radios do: the gate is held from before the drive until after it.
THEOREM OneCarrierOnly == Spec => []OneCarrier
  <1>1. IInv => OneCarrier
    BY DEF IInv, OneCarrier, GateInv, CarrierInv, HeldInv, NeedsGate
  <1> QED
    BY <1>1, GateAccounted, PTL

\* Without a message for it, no rig's keyer ever runs.
NoMessage == \A r \in Radio : ~cwRf[r] /\ ~Doing(r, "sendCw")

\* Only SendCw's own handler leads to the step that hands the rig a message.
LEMMA OnlySendCw ==
    ASSUME TypeOK, NEW r \in Radio, Engine(r) \/ Operator(r), ~HubStep(r), ~SendCwText(r)
    PROVE  UNCHANGED controlVars \/ \E place \in Place \ {"sendCw"} : GoesTo(r, place)
  <1>0. EngineTypeOK
    BY TypeSplits
  <1>1. /\ txActive[r] \in BOOLEAN /\ rigTx[r] \in BOOLEAN /\ cwGate[r] \in BOOLEAN
        /\ OnAirR(r) \in BOOLEAN /\ Reported(r) \in BOOLEAN
    BY <1>0, OnAirTypes DEF EngineTypeOK
  <1>2. \A active, rig, cw \in BOOLEAN : OnAirBy(active, rig, cw) \in BOOLEAN
    BY <1>0, OnAirTypes
  <1>3. {"abort", "release"} \subseteq HubCall /\ "work" \in Label
    BY DEF HubCall, Label
  <1>4. CASE \/ KeyDown(r) \/ PassRails(r) \/ RefuseRails(r) \/ TxBegin(r) \/ TxBeginFails(r)
             \/ KeyUp(r)
    BY <1>0, <1>3, <1>4, Whereabouts, Places
       DEF KeyDown, PassRails, RefuseRails, TxBegin, TxBeginFails, KeyUp
  <1>5. CASE Deny(r) \/ Over(r) \/ CwExpires(r) \/ AbortCw(r) \/ Swapped(r) \/ Stop(r) \/ Poll(r)
    <2>1. \/ UNCHANGED controlVars
          \/ \E on \in BOOLEAN, place \in {"work", "cwUnkey", "stopped"} :
                Publish(r, on, place) \/ TellThenPublish(r, on, place)
      BY <1>1, <1>2, <1>5 DEF Deny, Over, CwExpires, AbortCw, Swapped, Stop, Poll
    <2> QED
      BY <1>0, <2>1, Whereabouts, Places
  <1>6. CASE RigReport(r) \/ SwapSource(r)
    <2>1. \/ Call(r, "swapped", "work")
          \/ \E on \in BOOLEAN, place \in {"work", "swapped"} : TellThenPublish(r, on, place)
      BY <1>1, <1>2, <1>6 DEF RigReport, SwapSource
    <2> QED
      BY <1>0, <1>3, <2>1, Whereabouts, Places
  <1>7. CASE AdoptSenseEdge(r)
    <2> DEFINE keyed == senseEdge = "keyed"
    <2>1. OnAirBy(txActive[r], keyed, cwGate[r]) \in BOOLEAN
      BY <1>1, <1>2
    <2>2. UNCHANGED controlVars \/ TellThenPublish(r, OnAirBy(txActive[r], keyed, cwGate[r]), "work")
      BY <1>7 DEF AdoptSenseEdge
    <2> QED
      BY <1>0, <2>1, <2>2, Whereabouts, Places
  <1>8. CASE \/ RigSends(r) \/ AbortCwUnkeys(r) \/ SetRelayConfig(r) \/ ApplyPending(r)
             \/ CloseDriver(r) \/ OpenDriver(r) \/ InstallDriver(r) \/ LoseLink(r) \/ TestRelay(r)
    BY <1>0, <1>3, <1>8, Whereabouts, Places
       DEF RigSends, AbortCwUnkeys, SetRelayConfig, ApplyPending, CloseDriver, OpenDriver,
           InstallDriver, LoseLink, TestRelay
  <1>9. CASE Retune(r) \/ MicKey(r) \/ RigFinishes(r)
    BY <1>9 DEF Retune, MicKey, RigFinishes
  <1> QED
    BY <1>4, <1>5, <1>6, <1>7, <1>8, <1>9 DEF Engine, Operator, PollTick

LEMMA NoMessageStep ==
    ASSUME "cw" \notin Happens, TypeOK, NoMessage, [Next]_vars
    PROVE  NoMessage'
  <1>0. EngineTypeOK
    BY TypeSplits
  <1>1. ASSUME NEW r \in Radio, Engine(r) \/ Operator(r)
        PROVE  NoMessage'
    <2>1. ~SendCwText(r) /\ ~RigSends(r)
      BY Places DEF SendCwText, RigSends, NoMessage, Doing, At
    <2>2. Doing(r, "sendCw")' => Doing(r, "sendCw")
      <3>1. CASE HubStep(r)
        BY <1>0, <3>1, HubCallsReturn, Places
      <3>2. CASE ~HubStep(r)
        <4>1. UNCHANGED controlVars \/ \E place \in Place \ {"sendCw"} : GoesTo(r, place)
          BY <1>1, <2>1, <3>2, OnlySendCw
        <4> QED
          BY <4>1, Places DEF controlVars, Doing, GoesTo
      <3> QED
        BY <3>1, <3>2
    <2>3. ASSUME NEW s \in Radio \ {r}
          PROVE  Doing(s, "sendCw")' <=> Doing(s, "sendCw")
      BY <1>1, OneEngineMoves DEF LeavesOthers, EngineVarsKept, Doing
    <2>4. \A s \in Radio : cwRf'[s] => cwRf[s]
      BY <1>0, <1>1, <2>1
         DEF EngineTypeOK, Engine, Operator, HubStep, TellBands, Claim, SendKeyDown, Lead, Unclaim,
             SendKeyUp, AbortClaim, SendAbort, KeyDown, PassRails, RefuseRails, TxBegin,
             TxBeginFails, Deny, KeyUp, Over, RigFinishes, CwExpires, AbortCw, AbortCwUnkeys,
             RigReport, PollTick, Poll, AdoptSenseEdge, ApplyPending, SetRelayConfig, CloseDriver,
             OpenDriver, InstallDriver, TestRelay, SwapSource, Swapped, Stop, LoseLink, Retune, MicKey,
             worldVars
    <2> QED
      BY <2>2, <2>3, <2>4 DEF NoMessage
  <1>2. CASE Worker \/ UNCHANGED vars
    <2>1. UNCHANGED elsewhere
      BY <1>2, WorkerStepEngine DEF vars, elsewhere
    <2> QED
      BY <2>1 DEF elsewhere, controlVars, worldVars, NoMessage, Doing
  <1> QED
    BY <1>1, <1>2 DEF Next

\* At most one radio of the station is on the air at the engines' doing
\* (tx_gate.rs), where no text is handed to a rig's own keyer.
THEOREM OneTransmitterWithoutText == ASSUME "cw" \notin Happens
                                     PROVE  Spec => []OneTransmitter
  <1>1. Init => NoMessage
    BY DEF Init, NoMessage, Doing, HubCall
  <1>2. TypeOK /\ NoMessage /\ [Next]_vars => NoMessage'
    BY NoMessageStep
  <1>3. OneCarrier /\ NoMessage => OneTransmitter
    BY DEF OneCarrier, NoMessage, OneTransmitter, Driven
  <1> QED
    BY <1>1, <1>2, <1>3, TypeCorrect, OneCarrierOnly, PTL DEF Spec
=============================================================================
