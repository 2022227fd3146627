---------------------------- MODULE WorkerProofs ----------------------------
(***************************************************************************)
(* What holds of the worker of one switch for any board, any timing, any   *)
(* number of configurations and any set of the events of RelayWorker; and  *)
(* that it implements the contacts RelayContacts promises the engines, for *)
(* any callers that do not change its configuration.                       *)
(***************************************************************************)
EXTENDS RelayWorker, SequenceTheorems, WellFoundedInduction, TLAPS

----------------------------------------------------------------------------
(* The schedule's numbers.                                                 *)

\* A set of natural numbers has a least one.
LEMMA Least == ASSUME NEW T \in SUBSET Nat, T # {} PROVE \E x \in T : \A y \in T : x <= y
<1> DEFINE R == OpToRel(<, Nat)
<1>1. \A x, y \in Nat : <<y, x>> \notin R => x <= y
  BY DEF OpToRel
<1>2. IsWellFoundedOn(R, Nat)
  BY NatLessThanWellFounded
<1> HIDE DEF R
<1>3. \E x \in T : \A y \in T : <<y, x>> \notin R
  BY <1>2, WFMin
<1> QED BY <1>1, <1>3

\* A bounded one has a greatest.
LEMMA Greatest ==
    ASSUME NEW B \in Nat, NEW T \in SUBSET (0 .. B), T # {}
    PROVE  \E x \in T : \A y \in T : y <= x
<1> DEFINE U == {B - x : x \in T}
<1>1. U \in SUBSET Nat /\ U # {}
  <2>1. \A x \in T : B - x \in Nat
    OBVIOUS
  <2> QED BY <2>1
<1> HIDE DEF U
<1>2. PICK u \in U : \A v \in U : u <= v
  BY <1>1, Least
<1>3. PICK x \in T : u = B - x
  BY DEF U
<1>4. ASSUME NEW y \in T PROVE y <= x
  <2>1. u <= B - y
    BY <1>2 DEF U
  <2> QED BY <1>3, <2>1
<1> QED BY <1>4

\* Every lead fits into the longest one.
LEMMA LongestLead ==
    ASSUME NEW c \in Config
    PROVE  /\ MaxLead(c) \in 0 .. MaxAge
           /\ \A ch \in c.managed : RiseOf(c, ch) \in Nat
           /\ \A ch \in c.managed : FallOf(c, ch) \in Nat
           /\ c.managed # {} => \E ch \in c.managed : c.lead[ch] = MaxLead(c)
<1>1. /\ c.managed \subseteq Channel /\ c.lead \in [Channel -> 0 .. MaxAge]
      /\ c.hold \in [Channel -> 0 .. MaxAge] /\ MaxAge \in Nat
  BY ConfigAssumption, TimeAssumption
<1>2. /\ MaxLead(c) \in 0 .. MaxAge /\ \A ch \in c.managed : c.lead[ch] <= MaxLead(c)
      /\ c.managed # {} => \E ch \in c.managed : c.lead[ch] = MaxLead(c)
  <2>1. CASE c.managed = {}
    BY <1>1, <2>1 DEF MaxLead
  <2>2. CASE c.managed # {}
    <3> DEFINE S == {c.lead[ch] : ch \in c.managed}
    <3> DEFINE Tops(m) == \A ch \in c.managed : c.lead[ch] =< m
    <3>1. S \in SUBSET (0 .. MaxAge) /\ S # {}
      BY <1>1, <2>2
    <3>2. \E m \in S : Tops(m)
      <4>1. \E m \in S : \A l \in S : l <= m
        <5> HIDE DEF S
        <5> QED BY <1>1, <3>1, Greatest
      <4> QED BY <4>1
    <3>3. MaxLead(c) = CHOOSE m \in S : Tops(m)
      BY <2>2 DEF MaxLead
    <3> HIDE DEF Tops, S
    <3>4. MaxLead(c) \in S /\ Tops(MaxLead(c))
      BY <3>2, <3>3
    <3>5. \E ch \in c.managed : c.lead[ch] = MaxLead(c)
      BY <3>4 DEF S
    <3> QED BY <1>1, <3>1, <3>4, <3>5 DEF Tops
  <2> QED BY <2>1, <2>2
<1> QED BY <1>1, <1>2 DEF RiseOf, FallOf

\* The thread never sleeps longer than its base tick, nor past the next change.
LEMMA SleepTypes ==
    ASSUME SeqTypeOK, Slumber
    PROVE  sleepLeft' \in 0 .. BaseTick /\ \A t \in ChangesIn : sleepLeft' =< t
<1> DEFINE T == ChangesIn \cup {BaseTick}
<1> DEFINE First(t) == \A u \in T : t =< u
<1>1. BaseTick \in Nat
  BY LinkAssumption
<1>2. T \in SUBSET Nat
  <2>1. \A ch \in cfg.managed : RiseOf(cfg, ch) \in Nat /\ FallOf(cfg, ch) \in Nat
    BY LongestLead DEF SeqTypeOK
  <2>2. age \in Nat /\ testLeft \in Nat /\ asserted \subseteq cfg.managed
    BY TimeAssumption DEF SeqTypeOK
  <2> QED BY <1>1, <2>1, <2>2 DEF ChangesIn
<1>3. T # {} /\ BaseTick \in T
  OBVIOUS
<1>4. sleepLeft' = CHOOSE t \in T : First(t)
  BY DEF Slumber
<1>5. \E t \in T : First(t)
  <2> HIDE DEF T
  <2> QED BY <1>2, <1>3, Least
<1> HIDE DEF T, First
<1>6. sleepLeft' \in T /\ First(sleepLeft')
  BY <1>4, <1>5
<1>7. sleepLeft' \in 0 .. BaseTick
  BY <1>1, <1>2, <1>3, <1>6 DEF First
<1>8. \A t \in ChangesIn : sleepLeft' =< t
  BY <1>6 DEF First, T
<1> QED BY <1>7, <1>8

----------------------------------------------------------------------------
(* Types.                                                                  *)

\* The hardware is given up on after MAX_TRIES failures, no sooner and no later.
TriesInv == present <=> failures < MAX_TRIES

\* Zero is an age and a remaining pulse, and taking a held-back band keeps both
\* bands bands (take_pending_tx_band).
LEMMA Edges ==
    ASSUME SeqTypeOK
    PROVE  /\ (txBand \in MaybeBand /\ txBandPending \in MaybeBand /\ TakePending
                 => txBand' \in MaybeBand /\ txBandPending' \in MaybeBand)
           /\ 0 \in 0 .. MaxAge /\ 0 \in 0 .. TestPulse /\ TestPulse \in 0 .. TestPulse
BY TimeAssumption DEF TakePending, MaybeBand

\* One message, or one edge of the sense line.
LEMMA OrderTypes ==
    ASSUME SeqTypeOK, TriesInv,
           \/ \E on \in BOOLEAN : SetEngine(on) \/ SetSense(on)
           \/ AbortOver
           \/ \E b \in Band : SetRxBand(b) \/ SetTxBand(b)
           \/ \E ch \in Channel : StartTest(ch)
           \/ \E c \in Config : SetConfig(c)
    PROVE  SeqTypeOK' /\ TriesInv'
<1>0. \A b \in Band : b \in MaybeBand
  BY DEF MaybeBand
<1>1. CASE \E on \in BOOLEAN : SetEngine(on) \/ SetSense(on)
  BY <1>1, Edges DEF SetEngine, SetSense, SeqTypeOK, TriesInv, OnAir
<1>2. CASE AbortOver
  BY <1>2, Edges DEF AbortOver, SeqTypeOK, TriesInv
<1>3. CASE \E b \in Band : SetRxBand(b) \/ SetTxBand(b)
  <2>1. NoBand \in MaybeBand
    BY DEF MaybeBand
  <2> QED BY <1>0, <1>3, <2>1 DEF SetRxBand, SetTxBand, SeqTypeOK, TriesInv
<1>4. CASE \E ch \in Channel : StartTest(ch)
  BY <1>4, Edges DEF StartTest, SeqTypeOK, TriesInv
<1>5. CASE \E c \in Config : SetConfig(c)
  <2>1. 0 \in 0 .. MAX_TRIES /\ 0 < MAX_TRIES
    BY TriesAssumption
  <2> QED BY <1>5, <2>1 DEF SetConfig, SeqTypeOK, TriesInv
<1> QED BY <1>1, <1>2, <1>3, <1>4, <1>5

\* Both masks the worker writes are made of contacts it manages.
LEMMA WantTypes == ASSUME SeqTypeOK PROVE Want \subseteq Channel /\ ReceiveMask \subseteq Channel
BY ConfigAssumption DEF SeqTypeOK, Want, ReceiveMask

\* advance keeps the sequencer's types, and the mask it leads to is one.
LEMMA AdvanceTypes ==
    ASSUME SeqTypeOK, TriesInv, Advance
    PROVE  SeqTypeOK' /\ TriesInv' /\ Want' \subseteq Channel
<1>1. asserted' \subseteq cfg.managed /\ cfg' = cfg /\ cfg \in Config
  BY DEF Advance, SeqTypeOK
<1>2. txBand' \in MaybeBand /\ txBandPending' \in MaybeBand
  BY Edges DEF Advance, SeqTypeOK
<1>3. test' \in {{}} \cup {{c} : c \in Channel}
  BY DEF Advance, SeqTypeOK
<1>4. SeqTypeOK' /\ TriesInv'
  BY <1>1, <1>2, <1>3 DEF Advance, SeqTypeOK, TriesInv
<1>5. Want' \subseteq Channel
  BY <1>1, ConfigAssumption DEF Want
<1> QED BY <1>4, <1>5

\* The answers of the transport, a read-back that disagrees, and time.
LEMMA BeliefTypes ==
    ASSUME SeqTypeOK, TriesInv,
           \/ present /\ OnError
           \/ present /\ \E mask \in SUBSET Channel : OnAck(mask)
           \/ Invalidate
           \/ SeqTick
    PROVE  SeqTypeOK' /\ TriesInv'
<1>0. MAX_TRIES \in Nat \ {0} /\ failures \in 0 .. MAX_TRIES
  BY TriesAssumption DEF SeqTypeOK
<1>1. CASE present /\ OnError
  <2>1. failures' = failures + 1 /\ present' = (failures + 1 < MAX_TRIES) /\ failures < MAX_TRIES
    BY <1>1 DEF OnError, TriesInv
  <2>2. failures' \in 0 .. MAX_TRIES
    BY <1>0, <2>1
  <2>3. failures' < MAX_TRIES <=> failures + 1 < MAX_TRIES
    BY <2>1
  <2>4. present' \in BOOLEAN
    <3>1. present' = (failures + 1 < MAX_TRIES)
      BY <2>1
    <3>2. (failures + 1 < MAX_TRIES) \in BOOLEAN
      OBVIOUS
    <3> QED BY ONLY <3>1, <3>2
  <2>5. TriesInv'
    BY <2>1, <2>3, Zenon DEF TriesInv
  <2> QED BY <1>1, <2>2, <2>4, <2>5 DEF OnError, SeqTypeOK
<1>2. CASE present /\ \E mask \in SUBSET Channel : OnAck(mask)
  BY <1>0, <1>2 DEF OnAck, SeqTypeOK, TriesInv
<1>3. CASE Invalidate
  BY <1>3 DEF Invalidate, SeqTypeOK, TriesInv
<1>4. CASE SeqTick
  <2>1. age' \in 0 .. MaxAge /\ testLeft' \in 0 .. TestPulse
    BY <1>4, TimeAssumption DEF SeqTick, SeqTypeOK
  <2> QED BY <1>4, <2>1 DEF SeqTick, SeqTypeOK, TriesInv
<1> QED BY <1>1, <1>2, <1>3, <1>4

----------------------------------------------------------------------------
(* The loop and its board.                                                 *)

\* What is written is what is wanted of hardware that is there, or, on the way
\* out, receive; hardware that was given up on is not told anything, and the
\* transport knows nothing of it.
LoopInv ==
    /\ At("writing") => present
    /\ At("standDown") => writing = ReceiveMask
    /\ ~present => last = Unknown \/ ~Running

\* An undisturbed board holds what the transport last wrote, if it knows that.
BoardInv == last # Unknown /\ ~disturbed => contacts = last

\* The last thing written is receive.
DoneInv == At("done") /\ last # Unknown => last = ReceiveMask

IInv == RelayTypeOK /\ TriesInv /\ LoopInv /\ BoardInv /\ BeliefHolds /\ DoneInv

\* The state apart from the sequencer's and the board's.
LoopTypeOK ==
    /\ inbox \in Seq(Ctrl)
    /\ pc \in {"drain", "sense", "due", "writing", "readBack", "reading", "sleep", "standDown", "done"}
    /\ left \in 0 .. RoundTrip
    /\ writing \subseteq Channel
    /\ sleepLeft \in 0 .. BaseTick
    /\ sensed \in {"none", "keyed", "clear"}
WorldTypeOK == line \in BOOLEAN /\ disturbed \in BOOLEAN /\ tests \in 0 .. MaxTests
CallerTypeOK ==
    /\ over \in {"rx", "lead", "tx"}
    /\ wait \in 0 .. MAX_TR_LEAD
    /\ overBand \in MaybeBand
    /\ offAge \in 0 .. MaxAge
    /\ refused \in BOOLEAN

\* The type invariant, part by part.
LEMMA TypeParts ==
    /\ RelayTypeOK <=> SeqTypeOK /\ Board!BoardTypeOK /\ LoopTypeOK /\ WorldTypeOK /\ CallerTypeOK
    /\ RelayTypeOK' <=> SeqTypeOK' /\ Board!BoardTypeOK' /\ LoopTypeOK' /\ WorldTypeOK' /\ CallerTypeOK'
BY DEF RelayTypeOK, LoopTypeOK, WorldTypeOK, CallerTypeOK

\* The constants that are counted in ticks are counts.
LEMMA Ticks ==
    /\ RoundTrip \in Nat /\ BaseTick \in Nat /\ MAX_TR_LEAD \in Nat /\ MaxAge \in Nat
    /\ MaxInbox \in Nat /\ MaxTests \in Nat
    /\ 0 \in 0 .. RoundTrip /\ RoundTrip \in 0 .. RoundTrip /\ 0 \in 0 .. BaseTick
BY LinkAssumption, BoundsAssumption, TimeAssumption

\* A worker just spawned believes nothing of its board.
LEMMA InitHolds == Init => IInv
<1> SUFFICES ASSUME Init PROVE IInv
  OBVIOUS
<1>1. SeqTypeOK /\ TriesInv
  <2>1. 0 \in 0 .. MAX_TRIES /\ 0 < MAX_TRIES /\ 0 \in 0 .. MaxAge /\ 0 \in 0 .. TestPulse
    BY TriesAssumption, TimeAssumption
  <2>2. failures < MAX_TRIES
    BY <2>1 DEF Init, SeqInit
  <2>3. TriesInv
    BY <2>2, Zenon DEF Init, SeqInit, TriesInv
  <2>4. NoBand \in MaybeBand
    BY DEF MaybeBand
  <2> QED BY <2>1, <2>3, <2>4 DEF Init, SeqInit, SeqTypeOK
<1>2. Board!BoardTypeOK /\ WorldTypeOK
  <2>1. 0 \in 0 .. MaxTests
    BY Ticks
  <2> QED BY <2>1 DEF Init, Board!BoardTypeOK, WorldTypeOK
<1>3. LoopTypeOK
  BY Ticks DEF Init, LoopTypeOK
<1>4. CallerTypeOK
  <2>1. 0 \in 0 .. MAX_TR_LEAD /\ MaxAge \in 0 .. MaxAge
    BY Ticks
  <2>2. NoBand \in MaybeBand
    BY DEF MaybeBand
  <2> QED BY <2>1, <2>2 DEF Init, CallerTypeOK
<1>5. LoopInv /\ BoardInv /\ BeliefHolds /\ DoneInv
  BY DEF Init, SeqInit, LoopInv, BoardInv, BeliefHolds, DoneInv, At, Running
<1> QED BY <1>1, <1>2, <1>3, <1>4, <1>5, TypeParts DEF IInv

\* A message taken is one that was sent.
LEMMA Taken ==
    ASSUME LoopTypeOK, NEW op, Message(op)
    PROVE  /\ Head(inbox) \in Ctrl /\ Head(inbox).op = op /\ inbox' \in Seq(Ctrl)
           /\ op = "key" => Head(inbox).on \in BOOLEAN
           /\ op \in {"rxBand", "txBand"} => Head(inbox).band \in Band
           /\ op = "test" => Head(inbox).channel \in Channel
           /\ op = "config" => Head(inbox).config \in Config
<1>1. Head(inbox) \in Ctrl /\ Head(inbox).op = op /\ inbox' \in Seq(Ctrl)
  BY DEF Message, LoopTypeOK
<1> DEFINE m == Head(inbox)
<1> HIDE DEF m
<1>2. m \in Ctrl /\ m.op = op
  BY <1>1 DEF m
<1>3. /\ op = "key" => m.on \in BOOLEAN
      /\ op \in {"rxBand", "txBand"} => m.band \in Band
      /\ op = "test" => m.channel \in Channel
      /\ op = "config" => m.config \in Config
  BY <1>2 DEF Ctrl, Key, Abort, Shutdown, RxBand, TxBand, Test, Adopt
<1> QED BY <1>1, <1>3 DEF m

\* apply_ctrl: no message makes the worker believe more of the board, and only
\* a new configuration brings hardware back.
LEMMA TakeMessageKeeps == IInv /\ TakeMessage => IInv'
<1> SUFFICES ASSUME IInv, TakeMessage PROVE IInv'
  OBVIOUS
<1>1. /\ SeqTypeOK /\ TriesInv /\ Board!BoardTypeOK /\ LoopTypeOK /\ WorldTypeOK /\ CallerTypeOK
  BY TypeParts DEF IInv
<1>2. /\ pc' = "drain" /\ sleepLeft' = 0 /\ pc \in {"drain", "sleep"}
      /\ UNCHANGED <<left, writing, sensed, last, contacts, line, disturbed, tests, over, wait,
                     overBand, offAge, refused>>
  BY DEF TakeMessage, Handle, Message, Takes, At, Goto, boardVars, worldVars, callerVars
<1> DEFINE m == Head(inbox)
<1>3. /\ inbox' \in Seq(Ctrl)
      /\ \/ \E on \in BOOLEAN : SetEngine(on)
         \/ AbortOver
         \/ \E b \in Band : SetRxBand(b) \/ SetTxBand(b)
         \/ \E ch \in Channel : StartTest(ch)
         \/ \E c \in Config : SetConfig(c)
  <2>1. CASE Message("key") /\ SetEngine(m.on)
    BY <1>1, <2>1, Taken
  <2>2. CASE Message("abort") /\ AbortOver
    BY <1>1, <2>2, Taken
  <2>3. CASE Message("rxBand") /\ SetRxBand(m.band)
    BY <1>1, <2>3, Taken
  <2>4. CASE Message("txBand") /\ SetTxBand(m.band)
    BY <1>1, <2>4, Taken
  <2>5. CASE Message("test") /\ StartTest(m.channel)
    BY <1>1, <2>5, Taken
  <2>6. CASE Message("config") /\ SetConfig(m.config)
    BY <1>1, <2>6, Taken
  <2> QED BY <2>1, <2>2, <2>3, <2>4, <2>5, <2>6 DEF TakeMessage, Handle
<1>4. SeqTypeOK' /\ TriesInv'
  BY <1>1, <1>3, OrderTypes
<1>5. Board!BoardTypeOK' /\ LoopTypeOK' /\ WorldTypeOK' /\ CallerTypeOK'
  BY <1>1, <1>2, <1>3, Ticks DEF Board!BoardTypeOK, LoopTypeOK, WorldTypeOK, CallerTypeOK
<1>6. (applied' = applied \/ applied' = Unknown) /\ (present' = present \/ present' = TRUE)
  BY <1>3 DEF SetEngine, AbortOver, SetRxBand, SetTxBand, StartTest, SetConfig
<1>7. LoopInv' /\ BoardInv' /\ BeliefHolds' /\ DoneInv'
  BY <1>1, <1>2, <1>6 DEF IInv, LoopInv, BoardInv, BeliefHolds, DoneInv, At, Running
<1> QED BY <1>4, <1>5, <1>7, TypeParts DEF IInv

----------------------------------------------------------------------------
(* What a call of the transport does to the board.                         *)

\* A write that is acknowledged leaves the board at what was written, where the
\* transport knew what it held before.
LEMMA Applied ==
    ASSUME Board!BoardTypeOK, NEW want, want \subseteq Channel, Board!Apply(want)
    PROVE  /\ last' = want /\ contacts' \subseteq Channel
           /\ BoardInv /\ ~disturbed => contacts' = want
<1>1. CASE last = Unknown
  BY <1>1 DEF Board!BoardTypeOK, Board!Apply, Board!Written, Board!Changed
<1>2. CASE last # Unknown
  BY <1>2 DEF Board!BoardTypeOK, Board!Apply, Board!Written, Board!Changed, Board!Xor, BoardInv
<1> QED BY <1>1, <1>2

\* One that fails leaves the transport knowing nothing.
LEMMA ApplyFailed ==
    ASSUME Board!BoardTypeOK, NEW want, want \subseteq Channel, Board!ApplyFails(want)
    PROVE  last' = Unknown /\ contacts' \subseteq Channel
BY DEF Board!BoardTypeOK, Board!ApplyFails, Board!Written

\* A restatement writes what the transport last wrote, or nothing at all.
LEMMA Restated ==
    ASSUME Board!BoardTypeOK, Board!Restate \/ Board!RestateFails
    PROVE  /\ last' \in {last, Unknown} /\ contacts' \subseteq Channel
           /\ BoardInv /\ ~disturbed => contacts' = contacts
           /\ last = Unknown => contacts' = contacts
<1>1. CASE last = Unknown
  BY <1>1 DEF Board!BoardTypeOK, Board!Restate, Board!RestateFails, Board!boardVars
<1>2. CASE last # Unknown
  <2>1. PICK done \in SUBSET Channel : contacts' = (contacts \ done) \cup (last \cap done)
    BY <1>2 DEF Board!Restate, Board!RestateFails, Board!Written
  <2>2. contacts' \subseteq Channel /\ (contacts = last => contacts' = contacts)
    BY <2>1 DEF Board!BoardTypeOK
  <2> QED BY <1>2, <2>2 DEF Board!Restate, Board!RestateFails, BoardInv
<1> QED BY <1>1, <1>2

----------------------------------------------------------------------------
(* The rest of the loop.                                                   *)

\* The top of the loop: the channel, the sense line, and the write that is due.
LEMMA LoopKeeps ==
    IInv /\ (TakeShutdown \/ Drained \/ Look \/ Due \/ WriteOk \/ WriteFails) => IInv'
<1> SUFFICES ASSUME IInv, TakeShutdown \/ Drained \/ Look \/ Due \/ WriteOk \/ WriteFails
             PROVE  IInv'
  OBVIOUS
<1>0. /\ SeqTypeOK /\ TriesInv /\ Board!BoardTypeOK /\ LoopTypeOK /\ WorldTypeOK /\ CallerTypeOK
  BY TypeParts DEF IInv
<1>1. CASE TakeShutdown
  <2>1. SeqTypeOK' /\ TriesInv' /\ ReceiveMask' = ReceiveMask
    BY <1>0, <1>1 DEF TakeShutdown, seqVars, SeqTypeOK, TriesInv, ReceiveMask
  <2>2. inbox' \in Seq(Ctrl)
    BY <1>0, <1>1, Taken DEF TakeShutdown
  <2>3. writing' \subseteq Channel /\ left' \in 0 .. RoundTrip
    BY <1>0, <1>1, WantTypes, Ticks DEF TakeShutdown
  <2>4. Board!BoardTypeOK' /\ LoopTypeOK' /\ WorldTypeOK' /\ CallerTypeOK'
    BY <1>0, <1>1, <2>2, <2>3, Ticks
       DEF TakeShutdown, Goto, boardVars, worldVars, callerVars, Board!BoardTypeOK, LoopTypeOK,
           WorldTypeOK, CallerTypeOK
  <2>5. LoopInv' /\ BoardInv' /\ BeliefHolds' /\ DoneInv'
    BY <1>1, <2>1 DEF TakeShutdown, Message, Takes, Goto, At, Running, seqVars, boardVars, worldVars,
                      IInv, LoopInv, BoardInv, BeliefHolds, DoneInv
  <2> QED BY <2>1, <2>4, <2>5, TypeParts DEF IInv
<1>2. CASE Drained
  BY <1>0, <1>2, TypeParts
     DEF Drained, Goto, At, Running, seqVars, boardVars, worldVars, callerVars, SeqTypeOK, TriesInv,
         Board!BoardTypeOK, LoopTypeOK, WorldTypeOK, CallerTypeOK, IInv, LoopInv, BoardInv,
         BeliefHolds, DoneInv
<1>3. CASE Look
  <2>1. SeqTypeOK' /\ TriesInv' /\ applied' = applied /\ present' = present
    <3>1. CASE SetSense(line)
      BY <1>0, <3>1, OrderTypes DEF SetSense, WorldTypeOK
    <3>2. CASE UNCHANGED seqVars
      BY <1>0, <3>2 DEF seqVars, SeqTypeOK, TriesInv
    <3> QED BY <1>3, <3>1, <3>2 DEF Look
  <2>2. Board!BoardTypeOK' /\ LoopTypeOK' /\ WorldTypeOK' /\ CallerTypeOK'
    BY <1>0, <1>3 DEF Look, Level, Goto, boardVars, worldVars, callerVars, Board!BoardTypeOK,
                      LoopTypeOK, WorldTypeOK, CallerTypeOK
  <2>3. LoopInv' /\ BoardInv' /\ BeliefHolds' /\ DoneInv'
    BY <1>3, <2>1 DEF Look, Goto, At, Running, boardVars, worldVars, IInv, LoopInv, BoardInv,
                      BeliefHolds, DoneInv
  <2> QED BY <2>1, <2>2, <2>3, TypeParts DEF IInv
<1>4. CASE Due
  <2>1. SeqTypeOK' /\ TriesInv' /\ applied' = applied /\ present' = present
    <3>1. CASE Advance
      BY <1>0, <3>1, AdvanceTypes DEF Advance
    <3>2. CASE UNCHANGED seqVars
      BY <1>0, <3>2 DEF seqVars, SeqTypeOK, TriesInv
    <3> QED BY <1>4, <3>1, <3>2 DEF Due
  <2>2. writing' \subseteq Channel /\ left' \in 0 .. RoundTrip
    <3>1. CASE present /\ DueAfterAdvance
      BY <1>0, <1>4, <3>1, AdvanceTypes, Ticks DEF Due, StartWrite
    <3>2. CASE ~(present /\ DueAfterAdvance)
      BY <1>0, <1>4, <3>2 DEF Due, LoopTypeOK
    <3> QED BY <3>1, <3>2
  <2>3. /\ pc' \in {"writing", "readBack"} /\ (pc' = "writing" => present)
        /\ pc = "due" /\ UNCHANGED <<inbox, sleepLeft, sensed, boardVars, worldVars, callerVars>>
    BY <1>4 DEF Due, StartWrite, Goto, At
  <2>4. Board!BoardTypeOK' /\ LoopTypeOK' /\ WorldTypeOK' /\ CallerTypeOK'
    BY <1>0, <2>2, <2>3 DEF boardVars, worldVars, callerVars, Board!BoardTypeOK,
                            LoopTypeOK, WorldTypeOK, CallerTypeOK
  <2>5. LoopInv' /\ BoardInv' /\ BeliefHolds' /\ DoneInv'
    BY <2>1, <2>3 DEF At, Running, boardVars, worldVars, IInv, LoopInv, BoardInv, BeliefHolds,
                      DoneInv
  <2> QED BY <2>1, <2>4, <2>5, TypeParts DEF IInv
<1>5. CASE WriteOk
  <2>1. /\ pc = "writing" /\ pc' = "readBack" /\ present /\ writing \subseteq Channel
        /\ UNCHANGED <<inbox, left, writing, sleepLeft, sensed, worldVars, callerVars>>
    BY <1>0, <1>5 DEF WriteOk, At, Goto, quietWorker, IInv, LoopInv, LoopTypeOK
  <2>2. SeqTypeOK' /\ TriesInv' /\ applied' = writing /\ present' = present
    BY <1>0, <1>5, <2>1, BeliefTypes DEF WriteOk, OnAck
  <2>3. last' = writing /\ contacts' \subseteq Channel /\ (~disturbed => contacts' = writing)
    BY <1>0, <1>5, <2>1, Applied DEF WriteOk, IInv
  <2>4. Board!BoardTypeOK' /\ LoopTypeOK' /\ WorldTypeOK' /\ CallerTypeOK'
    BY <1>0, <2>1, <2>3 DEF worldVars, callerVars, Board!BoardTypeOK,
                            LoopTypeOK, WorldTypeOK, CallerTypeOK
  <2>5. LoopInv' /\ BoardInv' /\ BeliefHolds' /\ DoneInv'
    BY <2>1, <2>2, <2>3 DEF At, Running, worldVars, LoopInv, BoardInv, BeliefHolds, DoneInv
  <2> QED BY <2>2, <2>4, <2>5, TypeParts DEF IInv
<1>6. CASE WriteFails
  <2>1. /\ pc = "writing" /\ pc' = "readBack" /\ present /\ writing \subseteq Channel
        /\ UNCHANGED <<inbox, left, writing, sleepLeft, sensed, worldVars, callerVars>>
    BY <1>0, <1>6 DEF WriteFails, At, Goto, quietWorker, IInv, LoopInv, LoopTypeOK
  <2>2. SeqTypeOK' /\ TriesInv' /\ applied' = Unknown
    BY <1>0, <1>6, <2>1, BeliefTypes DEF WriteFails, OnError
  <2>3. last' = Unknown /\ contacts' \subseteq Channel
    BY <1>0, <1>6, <2>1, ApplyFailed DEF WriteFails
  <2>4. Board!BoardTypeOK' /\ LoopTypeOK' /\ WorldTypeOK' /\ CallerTypeOK'
    BY <1>0, <2>1, <2>3 DEF worldVars, callerVars, Board!BoardTypeOK,
                            LoopTypeOK, WorldTypeOK, CallerTypeOK
  <2>5. LoopInv' /\ BoardInv' /\ BeliefHolds' /\ DoneInv'
    BY <2>1, <2>2, <2>3 DEF At, Running, LoopInv, BoardInv, BeliefHolds, DoneInv
  <2> QED BY <2>2, <2>4, <2>5, TypeParts DEF IInv
<1> QED BY <1>1, <1>2, <1>3, <1>4, <1>5, <1>6

\* The bottom of the loop, and the way out.
LEMMA RestKeeps ==
    /\ IInv /\ (StartReadBack \/ SkipReadBack \/ ReadBack \/ RestateBoard) => IInv'
    /\ IInv /\ (WakeUp \/ StandDown) => IInv'
<1> SUFFICES ASSUME IInv, \/ StartReadBack \/ SkipReadBack \/ ReadBack \/ RestateBoard
                          \/ WakeUp \/ StandDown
             PROVE  IInv'
  OBVIOUS
<1>0. /\ SeqTypeOK /\ TriesInv /\ Board!BoardTypeOK /\ LoopTypeOK /\ WorldTypeOK /\ CallerTypeOK
  BY TypeParts DEF IInv
<1> USE DEF Goto, At, Running
<1>1. CASE StartReadBack
  <2>1. left' \in 0 .. RoundTrip
    BY <1>1, Ticks DEF StartReadBack
  <2> QED BY <1>0, <1>1, <2>1, TypeParts
     DEF StartReadBack, seqVars, boardVars, worldVars, callerVars, SeqTypeOK, TriesInv,
         Board!BoardTypeOK, LoopTypeOK, WorldTypeOK, CallerTypeOK, IInv, LoopInv, BoardInv,
         BeliefHolds, DoneInv
<1>2. CASE SkipReadBack
  <2>1. sleepLeft' \in 0 .. BaseTick
    BY <1>0, <1>2, SleepTypes DEF SkipReadBack
  <2> QED BY <1>0, <1>2, <2>1, TypeParts
     DEF SkipReadBack, Slumber, seqVars, boardVars, worldVars, callerVars, SeqTypeOK, TriesInv,
         Board!BoardTypeOK, LoopTypeOK, WorldTypeOK, CallerTypeOK, IInv, LoopInv, BoardInv,
         BeliefHolds, DoneInv
<1>3. CASE ReadBack
  <2>1. sleepLeft' \in 0 .. BaseTick
    BY <1>0, <1>3, SleepTypes DEF ReadBack
  <2>2. SeqTypeOK' /\ TriesInv' /\ applied' \in {applied, Unknown} /\ present' = present
    <3>1. CASE Invalidate
      BY <1>0, <3>1, BeliefTypes DEF Invalidate
    <3>2. CASE UNCHANGED seqVars
      BY <1>0, <3>2 DEF seqVars, SeqTypeOK, TriesInv
    <3> QED BY <1>3, <3>1, <3>2 DEF ReadBack
  <2>3. Board!BoardTypeOK' /\ LoopTypeOK' /\ WorldTypeOK' /\ CallerTypeOK'
    BY <1>0, <1>3, <2>1
       DEF ReadBack, Slumber, boardVars, worldVars, callerVars, Board!BoardTypeOK, LoopTypeOK,
           WorldTypeOK, CallerTypeOK
  <2>4. LoopInv' /\ BoardInv' /\ BeliefHolds' /\ DoneInv'
    BY <1>3, <2>2 DEF ReadBack, Slumber, boardVars, worldVars, IInv, LoopInv, BoardInv,
                      BeliefHolds, DoneInv
  <2> QED BY <2>2, <2>3, <2>4, TypeParts DEF IInv
<1>4. CASE RestateBoard
  <2>1. sleepLeft' \in 0 .. BaseTick
    BY <1>0, <1>4, SleepTypes DEF RestateBoard
  <2>2. /\ last' \in {last, Unknown} /\ contacts' \subseteq Channel
        /\ ~disturbed => contacts' = contacts
    BY <1>0, <1>4, Restated DEF RestateBoard, IInv
  <2>3. SeqTypeOK' /\ TriesInv' /\ UNCHANGED <<applied, present>>
    BY <1>0, <1>4 DEF RestateBoard, seqVars, SeqTypeOK, TriesInv
  <2>4. Board!BoardTypeOK' /\ LoopTypeOK' /\ WorldTypeOK' /\ CallerTypeOK'
    BY <1>0, <1>4, <2>1, <2>2
       DEF RestateBoard, Slumber, worldVars, callerVars, Board!BoardTypeOK, LoopTypeOK,
           WorldTypeOK, CallerTypeOK
  <2>5. LoopInv' /\ BoardInv' /\ BeliefHolds' /\ DoneInv'
    BY <1>4, <2>2, <2>3 DEF RestateBoard, Slumber, worldVars, IInv, LoopInv, BoardInv,
                            BeliefHolds, DoneInv
  <2> QED BY <2>3, <2>4, <2>5, TypeParts DEF IInv
<1>5. CASE WakeUp
  BY <1>0, <1>5, TypeParts
     DEF WakeUp, quietWorker, seqVars, boardVars, worldVars, callerVars, SeqTypeOK, TriesInv,
         Board!BoardTypeOK, LoopTypeOK, WorldTypeOK, CallerTypeOK, IInv, LoopInv, BoardInv,
         BeliefHolds, DoneInv
<1>6. CASE StandDown
  <2>1. /\ pc = "standDown" /\ pc' = "done" /\ writing = ReceiveMask /\ writing \subseteq Channel
        /\ UNCHANGED <<seqVars, inbox, left, writing, sleepLeft, sensed, worldVars, callerVars>>
    BY <1>0, <1>6 DEF StandDown, quietWorker, IInv, LoopInv, LoopTypeOK
  <2>2. /\ last' \in {writing, Unknown} /\ contacts' \subseteq Channel
        /\ last' # Unknown /\ ~disturbed => contacts' = last'
    <3>1. CASE Board!Apply(writing)
      BY <1>0, <2>1, <3>1, Applied DEF IInv
    <3>2. CASE Board!ApplyFails(writing)
      BY <1>0, <2>1, <3>2, ApplyFailed
    <3> QED BY <1>6, <3>1, <3>2 DEF StandDown
  <2>3. SeqTypeOK' /\ TriesInv' /\ ReceiveMask' = ReceiveMask
    BY <1>0, <2>1 DEF seqVars, SeqTypeOK, TriesInv, ReceiveMask
  <2>4. Board!BoardTypeOK' /\ LoopTypeOK' /\ WorldTypeOK' /\ CallerTypeOK'
    BY <1>0, <2>1, <2>2
       DEF worldVars, callerVars, Board!BoardTypeOK, LoopTypeOK, WorldTypeOK, CallerTypeOK
  <2>5. LoopInv' /\ BoardInv' /\ BeliefHolds' /\ DoneInv'
    BY <2>1, <2>2, <2>3 DEF worldVars, LoopInv, BoardInv, BeliefHolds, DoneInv
  <2> QED BY <2>3, <2>4, <2>5, TypeParts DEF IInv
<1> QED BY <1>1, <1>2, <1>3, <1>4, <1>5, <1>6

----------------------------------------------------------------------------
(* The caller and the world.                                               *)

\* What only the caller, the line, the clock or the channel does.
LEMMA BoardLeftAlone ==
    ASSUME IInv, SeqTypeOK', TriesInv', LoopTypeOK', WorldTypeOK', CallerTypeOK',
           UNCHANGED <<last, contacts, pc, writing, applied, present, disturbed, cfg>>
    PROVE  IInv'
<1>1. Board!BoardTypeOK'
  BY TypeParts DEF IInv, Board!BoardTypeOK
<1>2. LoopInv' /\ BoardInv' /\ BeliefHolds' /\ DoneInv'
  BY DEF IInv, LoopInv, BoardInv, BeliefHolds, DoneInv, At, Running, ReceiveMask
<1> QED BY <1>1, <1>2, TypeParts DEF IInv

\* Every message a caller sends is one the worker knows.
LEMMA Sent ==
    ASSUME LoopTypeOK, NEW msgs \in Seq(Ctrl), Send(msgs)
    PROVE  inbox' \in Seq(Ctrl)
BY DEF LoopTypeOK, Send

\* Every message of Ctrl, and what over_ended appends.
LEMMA Messages ==
    /\ Abort \in Ctrl /\ Shutdown \in Ctrl
    /\ \A on \in BOOLEAN : Key(on) \in Ctrl
    /\ \A b \in Band : RxBand(b) \in Ctrl /\ TxBand(b) \in Ctrl
    /\ \A ch \in Channel : Test(ch) \in Ctrl
    /\ \A c \in Config : Adopt(c) \in Ctrl
    /\ AfterOver \in Seq(Ctrl)
<1>1. \A b \in Band : RxBand(b) \in Ctrl /\ TxBand(b) \in Ctrl
  BY DEF Ctrl
<1>2. AfterOver \in Seq(Ctrl)
  <2>1. CASE SenseBand = NoBand
    BY <2>1 DEF AfterOver
  <2>2. CASE SenseBand # NoBand
    <3>1. TxBand(SenseBand) \in Ctrl
      BY <1>1, <2>2, SenseBandAssumption DEF MaybeBand
    <3> QED BY <2>2, <3>1 DEF AfterOver
  <2> QED BY <2>1, <2>2
<1> QED BY <1>1, <1>2 DEF Ctrl

\* A message or two, in front of what follows every over.
LEMMA Sequences ==
    /\ \A a \in Ctrl : <<a>> \in Seq(Ctrl) /\ <<a>> \o AfterOver \in Seq(Ctrl)
    /\ \A a, b \in Ctrl : <<a, b>> \in Seq(Ctrl)
BY Messages

\* What the caller does reaches the worker through the channel only.
LEMMA CallerKeeps == IInv /\ Caller => IInv'
<1> SUFFICES ASSUME IInv, Caller PROVE IInv'
  OBVIOUS
<1>0. /\ SeqTypeOK /\ TriesInv /\ Board!BoardTypeOK /\ LoopTypeOK /\ WorldTypeOK /\ CallerTypeOK
  BY TypeParts DEF IInv
<1>1. /\ UNCHANGED <<seqVars, last, contacts, pc, left, writing, sleepLeft, sensed, line, disturbed>>
      /\ tests' = tests \/ (tests' = tests + 1 /\ tests < MaxTests)
  BY DEF Caller, KeyDown, Radiate, Refuse, KeyUp, Retune, RxTune, PressTest, Configure, Close,
         boardVars, quietWorker, workerVars, worldVars
<1>2. SeqTypeOK' /\ TriesInv' /\ UNCHANGED <<applied, present, cfg>>
  BY <1>0, <1>1 DEF seqVars, SeqTypeOK, TriesInv
<1>3. WorldTypeOK'
  BY <1>0, <1>1, Ticks DEF WorldTypeOK
<1>4. inbox' \in Seq(Ctrl)
  <2>1. CASE KeyDown
    <3>1. PICK b \in Band : Send(<<TxBand(b), Key(TRUE)>>)
      BY <2>1 DEF KeyDown
    <3> QED BY <1>0, <3>1, Messages, Sequences, Sent
  <2>2. CASE Refuse
    BY <1>0, <2>2, Messages, Sequences, Sent DEF Refuse
  <2>3. CASE KeyUp
    BY <1>0, <2>3, Messages, Sequences, Sent DEF KeyUp
  <2>4. CASE Retune \/ RxTune \/ PressTest \/ Configure \/ Close
    <3>1. PICK m \in Ctrl : Send(<<m>>)
      BY <2>4, Messages DEF Retune, RxTune, PressTest, Configure, Close
    <3> QED BY <1>0, <3>1, Sequences, Sent
  <2>5. CASE Radiate
    BY <1>0, <2>5 DEF Radiate, workerVars, LoopTypeOK
  <2> QED BY <2>1, <2>2, <2>3, <2>4, <2>5 DEF Caller
<1>5. LoopTypeOK'
  BY <1>0, <1>1, <1>4 DEF LoopTypeOK
<1>6. CallerTypeOK'
  <2>1. CASE KeyDown
    <3>1. wait' \in 0 .. MAX_TR_LEAD
      BY <1>0, <2>1, Ticks, LongestLead DEF KeyDown, Smaller, SeqTypeOK
    <3>2. overBand' \in MaybeBand
      BY <2>1 DEF KeyDown, MaybeBand
    <3> QED BY <1>0, <2>1, <3>1, <3>2 DEF KeyDown, CallerTypeOK
  <2>2. CASE Radiate \/ Refuse \/ KeyUp
    <3>1. 0 \in 0 .. MaxAge
      BY Ticks
    <3> QED BY <1>0, <2>2, <3>1 DEF Radiate, Refuse, KeyUp, CallerTypeOK
  <2>3. CASE Retune \/ RxTune \/ PressTest \/ Configure \/ Close
    BY <1>0, <2>3 DEF Retune, RxTune, PressTest, Configure, Close, callerVars, CallerTypeOK
  <2> QED BY <2>1, <2>2, <2>3 DEF Caller
<1> QED BY <1>1, <1>2, <1>3, <1>5, <1>6, BoardLeftAlone

\* The line, a disturbance, and time.
LEMMA WorldKeeps == IInv /\ (ToggleLine \/ Disturb \/ Tick \/ UNCHANGED vars) => IInv'
<1> SUFFICES ASSUME IInv, ToggleLine \/ Disturb \/ Tick \/ UNCHANGED vars PROVE IInv'
  OBVIOUS
<1>0. /\ SeqTypeOK /\ TriesInv /\ Board!BoardTypeOK /\ LoopTypeOK /\ WorldTypeOK /\ CallerTypeOK
  BY TypeParts DEF IInv
<1>1. CASE ToggleLine
  <2>1. SeqTypeOK' /\ TriesInv' /\ LoopTypeOK' /\ WorldTypeOK' /\ CallerTypeOK'
    BY <1>0, <1>1 DEF ToggleLine, seqVars, workerVars, callerVars, SeqTypeOK, TriesInv,
                      LoopTypeOK, WorldTypeOK, CallerTypeOK
  <2> QED BY <1>1, <2>1, BoardLeftAlone DEF ToggleLine, seqVars, boardVars, workerVars
<1>2. CASE Disturb
  <2>1. contacts' \subseteq Channel
    BY <1>0, <1>2 DEF Disturb, Xor, Board!BoardTypeOK
  <2>2. /\ UNCHANGED <<seqVars, workerVars, last, line, tests, callerVars>> /\ disturbed' = TRUE
    BY <1>2 DEF Disturb
  <2>4. Board!BoardTypeOK' /\ SeqTypeOK' /\ TriesInv'
    BY <1>0, <2>1, <2>2 DEF seqVars, Board!BoardTypeOK, SeqTypeOK, TriesInv
  <2>5. LoopTypeOK' /\ WorldTypeOK' /\ CallerTypeOK'
    BY <1>0, <2>2 DEF workerVars, callerVars, LoopTypeOK, WorldTypeOK, CallerTypeOK
  <2>3. LoopInv' /\ BoardInv' /\ BeliefHolds' /\ DoneInv'
    BY <1>2 DEF Disturb, seqVars, workerVars, IInv, LoopInv, BoardInv, BeliefHolds, DoneInv,
                At, Running, ReceiveMask
  <2> QED BY <2>3, <2>4, <2>5, TypeParts DEF IInv
<1>3. CASE Tick
  <2>1. SeqTypeOK' /\ TriesInv' /\ UNCHANGED <<applied, present, cfg>>
    BY <1>0, <1>3, BeliefTypes DEF Tick, SeqTick
  <2>2. left' \in 0 .. RoundTrip /\ sleepLeft' \in 0 .. BaseTick
    BY <1>0, <1>3, Ticks DEF Tick, LoopTypeOK
  <2>3. wait' \in 0 .. MAX_TR_LEAD /\ offAge' \in 0 .. MaxAge
    BY <1>0, <1>3, Ticks DEF Tick, CallerTypeOK
  <2>4. LoopTypeOK' /\ WorldTypeOK' /\ CallerTypeOK'
    BY <1>0, <1>3, <2>2, <2>3 DEF Tick, worldVars, LoopTypeOK, WorldTypeOK, CallerTypeOK
  <2> QED BY <1>3, <2>1, <2>4, BoardLeftAlone DEF Tick, boardVars, worldVars
<1>4. CASE UNCHANGED vars
  <2>1. SeqTypeOK' /\ TriesInv' /\ LoopTypeOK' /\ WorldTypeOK' /\ CallerTypeOK'
    BY <1>0, <1>4 DEF vars, seqVars, workerVars, worldVars, callerVars, SeqTypeOK, TriesInv,
                      LoopTypeOK, WorldTypeOK, CallerTypeOK
  <2> QED BY <1>4, <2>1, BoardLeftAlone DEF vars, seqVars, workerVars, worldVars
<1> QED BY <1>1, <1>2, <1>3, <1>4

----------------------------------------------------------------------------

\* Every step of the worker, its caller and its world.
LEMMA StepKeeps == IInv /\ [Next]_vars => IInv'
BY TakeMessageKeeps, LoopKeeps, RestKeeps, CallerKeeps, WorldKeeps DEF Next, Worker

\* What the transport believes of an undisturbed board is true, and hardware
\* that was given up on is believed nothing of: an invariant of run(), whatever
\* fails and whoever calls.
THEOREM WorkerAccounted == Spec => []IInv
BY InitHolds, StepKeeps, PTL DEF Spec

\* The state of the worker, its board and its caller has its type: no message
\* it does not know is queued, no thread sleeps past its tick, and the failures
\* never pass the count at which the hardware is given up on.
THEOREM WorkerTypeCorrect == Spec => []RelayTypeOK
<1>1. IInv => RelayTypeOK
  BY DEF IInv
<1> QED BY WorkerAccounted, <1>1, PTL

\* applied, the sequencer's memory of the board, is what an undisturbed board
\* holds, through every refused write and restatement.
THEOREM BeliefIsTrue == Spec => []BeliefHolds
<1>1. IInv => BeliefHolds
  BY DEF IInv
<1> QED BY WorkerAccounted, <1>1, PTL

\* Back to receive, whatever the thread was doing when its handle was dropped,
\* if nothing but the worker moved a contact and the last write was taken.
THEOREM LeavesInReceive == Spec => [](disturbed \/ StoodDown)
<1>1. IInv => disturbed \/ StoodDown
  <2>1. SUFFICES ASSUME IInv, ~disturbed, At("done"), last # Unknown, NEW ch \in Ordinary
                 PROVE  ~InTransmit(ch)
    BY DEF StoodDown
  <2>2. contacts = cfg.inverted \cap cfg.managed
    BY <2>1 DEF IInv, BoardInv, DoneInv, ReceiveMask
  <2> QED BY <2>1, <2>2 DEF InTransmit, Ordinary
<1> QED BY WorkerAccounted, <1>1, PTL

\* Hardware that was given up on is told nothing until it is configured again:
\* not by the schedule, and not by a restatement, which has nothing to restate.
THEOREM GivenUpIsLeftAlone == Spec => LeftAlone
<1>1. IInv /\ [Next]_vars
        => [~present /\ ~present' /\ pc # "standDown" /\ disturbed' = disturbed
              => contacts' = contacts]_vars
  <2>1. SUFFICES ASSUME IInv, Next, ~present, pc # "standDown", disturbed' = disturbed
                 PROVE  contacts' = contacts
    OBVIOUS
  <2>2. CASE WriteOk \/ WriteFails \/ StandDown
    BY <2>1, <2>2 DEF WriteOk, WriteFails, StandDown, IInv, LoopInv, At
  <2>3. CASE RestateBoard
    <3>1. last = Unknown
      BY <2>1, <2>3 DEF RestateBoard, IInv, LoopInv, At, Running
    <3>2. Board!Restate \/ Board!RestateFails
      BY <2>3 DEF RestateBoard
    <3>3. Board!BoardTypeOK
      BY <2>1, TypeParts DEF IInv
    <3> QED BY <3>1, <3>2, <3>3, Restated
  <2>4. CASE Disturb
    BY <2>1, <2>4 DEF Disturb, IInv, RelayTypeOK
  <2>5. CASE TakeMessage \/ TakeShutdown \/ Drained \/ Look \/ Due \/ StartReadBack
             \/ SkipReadBack \/ ReadBack \/ WakeUp
    BY <2>5 DEF TakeMessage, TakeShutdown, Drained, Look, Due, StartReadBack, SkipReadBack,
                ReadBack, WakeUp, boardVars
  <2>6. CASE Caller \/ ToggleLine \/ Tick
    BY <2>6 DEF Caller, KeyDown, Radiate, Refuse, KeyUp, Retune, RxTune, PressTest, Configure,
                Close, ToggleLine, Tick, boardVars
  <2> QED BY <2>1, <2>2, <2>3, <2>4, <2>5, <2>6 DEF Next, Worker
<1> QED BY WorkerAccounted, <1>1, PTL DEF Spec, LeftAlone

----------------------------------------------------------------------------
(* What the engines may rely on.                                           *)

\* The messages of a caller that does not reconfigure its worker.
Plain == {Key(on) : on \in BOOLEAN} \cup {Abort, Shutdown}
         \cup {RxBand(b) : b \in Band} \cup {TxBand(b) : b \in Band}
         \cup {Test(ch) : ch \in Channel}

PlainInv == inbox \in Seq(Plain)

\* One configuration's band decoder is every configuration's.
OneDecoder == \A c, d \in Config : c.decoder = d.decoder

----------------------------------------------------------------------------
(* The channel.                                                            *)

\* What a caller sends joins the queue, and none of it overtakes.
LEMMA Posted ==
    ASSUME NEW s \in Seq(Plain), NEW m \in Seq(Plain), m # <<>>
    PROVE  /\ s \o m \in Seq(Plain)
           /\ Len(s) < Len(s \o m)
           /\ s = SubSeq(s \o m, 1, Len(s))
<1>1. Len(s) \in Nat /\ Len(m) \in Nat \ {0}
  OBVIOUS
<1>2. s \o m \in Seq(Plain) /\ Len(s \o m) = Len(s) + Len(m)
  OBVIOUS
<1>3. SubSeq(s \o m, 1, Len(s)) = SubSeq(s, 1, Len(s))
  BY <1>1, SubSeqOfConcat1
<1>4. SubSeq(s, 1, Len(s)) = s
  BY SubSeqFull
<1> QED BY <1>1, <1>2, <1>3, <1>4

\* Every message of a caller but Adopt is plain.
LEMMA PlainMessages ==
    /\ Abort \in Plain /\ Shutdown \in Plain
    /\ \A on \in BOOLEAN : Key(on) \in Plain
    /\ \A b \in Band : RxBand(b) \in Plain /\ TxBand(b) \in Plain
    /\ \A ch \in Channel : Test(ch) \in Plain
    /\ AfterOver \in Seq(Plain)
<1>1. \A b \in Band : TxBand(b) \in Plain
  BY DEF Plain
<1>2. AfterOver \in Seq(Plain)
  <2>1. CASE SenseBand = NoBand
    BY <2>1 DEF AfterOver
  <2>2. CASE SenseBand # NoBand
    <3>1. TxBand(SenseBand) \in Plain
      BY <1>1, <2>2, SenseBandAssumption DEF MaybeBand
    <3> QED BY <2>2, <3>1 DEF AfterOver
  <2> QED BY <2>1, <2>2
<1> QED BY <1>1, <1>2 DEF Plain

\* A message or two, in front of what follows every over.
LEMMA PlainSequences ==
    /\ \A a \in Plain : <<a>> \in Seq(Plain) /\ <<a>> # <<>>
    /\ \A a \in Plain : <<a>> \o AfterOver \in Seq(Plain) /\ <<a>> \o AfterOver # <<>>
    /\ \A a, b \in Plain : <<a, b>> \in Seq(Plain) /\ <<a, b>> # <<>>
<1>1. ASSUME NEW a \in Plain
      PROVE  <<a>> \o AfterOver \in Seq(Plain) /\ <<a>> \o AfterOver # <<>>
  <2>1. <<a>> \in Seq(Plain) /\ AfterOver \in Seq(Plain) /\ Len(<<a>>) = 1
    BY PlainMessages
  <2> QED BY <2>1
<1> QED BY <1>1

\* Without reconfiguration, everything a caller does is a Post, or nothing.
LEMMA CallerPosts ==
    ASSUME "config" \notin Happens, PlainInv, Caller
    PROVE  \/ inbox' = inbox
           \/ Running /\ \E m \in Seq(Plain) : m # <<>> /\ inbox' = inbox \o m
<1>1. ASSUME NEW m \in Seq(Plain), m # <<>>, Send(m)
      PROVE  Running /\ \E n \in Seq(Plain) : n # <<>> /\ inbox' = inbox \o n
  BY <1>1 DEF Send, Open, Running
<1>2. CASE KeyDown
  <2>1. PICK b \in Band : Send(<<TxBand(b), Key(TRUE)>>)
    BY <1>2 DEF KeyDown
  <2>2. TxBand(b) \in Plain /\ Key(TRUE) \in Plain
    BY PlainMessages
  <2> QED BY <1>1, <2>1, <2>2, PlainSequences
<1>3. CASE Refuse \/ KeyUp
  <2>1. PICK m \in Plain : Send(<<m>> \o AfterOver)
    BY <1>3, PlainMessages DEF Refuse, KeyUp
  <2> QED BY <1>1, <2>1, PlainSequences
<1>4. CASE Retune \/ RxTune \/ PressTest \/ Close
  <2>1. PICK m \in Plain : Send(<<m>>)
    BY <1>4, PlainMessages DEF Retune, RxTune, PressTest, Close
  <2> QED BY <1>1, <2>1, PlainSequences
<1>5. CASE Radiate
  BY <1>5 DEF Radiate, workerVars
<1>6. ~Configure
  BY DEF Configure
<1> QED BY <1>2, <1>3, <1>4, <1>5, <1>6 DEF Caller

\* The worker only takes messages, from the front.
LEMMA WorkerTakes ==
    ASSUME [Next]_vars, ~Caller
    PROVE  inbox' = inbox \/ (inbox # <<>> /\ inbox' = Tail(inbox))
<1>1. CASE Worker
  BY <1>1 DEF Worker, TakeMessage, Handle, Message, TakeShutdown, Drained, Look, Due, WriteOk,
              WriteFails, StartReadBack, SkipReadBack, ReadBack, RestateBoard, Slumber, WakeUp,
              StandDown
<1>2. CASE ToggleLine \/ Disturb \/ Tick \/ UNCHANGED vars
  BY <1>2 DEF ToggleLine, Disturb, Tick, vars, workerVars
<1> QED BY <1>1, <1>2 DEF Next

\* No reconfiguration is ever queued.
LEMMA PlainStep ==
    ASSUME "config" \notin Happens, PlainInv, [Next]_vars
    PROVE  PlainInv'
<1>1. CASE Caller
  BY <1>1, CallerPosts, Posted DEF PlainInv
<1>2. CASE ~Caller
  BY <1>2, WorkerTakes DEF PlainInv
<1> QED BY <1>1, <1>2

----------------------------------------------------------------------------
(* The mapping.                                                            *)

\* The contacts that follow a transmit word are the same at both levels.
LEMMA SameDecoder ==
    ASSUME OneDecoder, cfg \in Config
    PROVE  Channel \cap UNION {c.decoder : c \in Config} = cfg.decoder
<1>1. cfg.decoder \subseteq Channel
  BY ConfigAssumption
<1> QED BY <1>1 DEF OneDecoder

\* What the mapping reads is left alone.
Unseen == UNCHANGED <<inbox, Running, present, engineOnAir, senseOnAir, asserted,
                      rxBand, txBand, txBandPending>>

\* Then nothing the engines may rely on has changed.
LEMMA Stutters == Unseen => UNCHANGED Promise!contactVars
BY DEF Unseen, Promise!contactVars

\* A message taken off the channel is received by the contacts.
LEMMA TakesReceive ==
    ASSUME IInv, PlainInv, OneDecoder, TakeMessage \/ TakeShutdown
    PROVE  Promise!Receive
<1> DEFINE m == Head(inbox)
<1>1. /\ Running /\ inbox # <<>> /\ inbox' = Tail(inbox)
      /\ TakeMessage => Running'
      /\ TakeShutdown => ~Running'
  BY DEF TakeMessage, TakeShutdown, Handle, Message, Takes, At, Goto, Running
<1>2. cfg \in Config /\ Channel \cap UNION {c.decoder : c \in Config} = cfg.decoder
  BY SameDecoder DEF IInv, RelayTypeOK, SeqTypeOK
<1>3. m.op # "config"
  <2>1. m \in Plain
    BY <1>1 DEF PlainInv
  <2> HIDE DEF m
  <2> QED BY <2>1 DEF Plain, Key, Abort, Shutdown, RxBand, TxBand, Test
<1>4. CASE TakeShutdown
  BY <1>1, <1>4 DEF TakeShutdown, Message, seqVars, Promise!Receive, Promise!ReceiveShutdown,
                    Promise!Message
<1>5. CASE TakeMessage
  <2>1. CASE Message("key") /\ SetEngine(m.on)
    BY <1>1, <1>5, <2>1 DEF Message, SetEngine, TakePending, OnAir, Promise!Receive,
       Promise!ReceiveKey, Promise!Message, Promise!OnAir, Promise!TakePending
  <2>2. CASE Message("abort") /\ AbortOver
    BY <1>1, <1>5, <2>2 DEF Message, AbortOver, TakePending, Promise!Receive,
       Promise!ReceiveAbort, Promise!Message, Promise!TakePending
  <2>3. CASE Message("rxBand") /\ SetRxBand(m.band)
    BY <1>1, <1>5, <2>3 DEF Message, SetRxBand, Promise!Receive, Promise!ReceiveRxBand,
       Promise!Message
  <2>4. CASE Message("txBand") /\ SetTxBand(m.band)
    BY <1>1, <1>2, <1>5, <2>4 DEF Message, SetTxBand, FollowsTxWord, OnAir, Promise!Receive,
       Promise!ReceiveTxBand, Promise!Message, Promise!FollowsTxWord, Promise!OnAir
  <2>5. CASE Message("test") /\ StartTest(m.channel)
    BY <1>1, <1>5, <2>5 DEF Message, StartTest, Promise!Receive, Promise!ReceiveTest,
       Promise!Message
  <2>6. ~Message("config")
    BY <1>3 DEF Message
  <2> QED BY <1>5, <2>1, <2>2, <2>3, <2>4, <2>5, <2>6 DEF TakeMessage, Handle
<1> QED BY <1>4, <1>5

\* The schedule only adds contacts on the air and only drops them off it.
LEMMA SchedulesMove ==
    ASSUME IInv, OneDecoder, Due
    PROVE  Promise!Rise \/ Promise!Fall \/ Unseen
<1>1. /\ Running /\ Running' /\ inbox' = inbox
  BY DEF Due, StartWrite, At, Goto, Running
<1>2. /\ cfg \in Config /\ asserted \subseteq Channel /\ cfg.managed \subseteq Channel
      /\ Channel \cap UNION {c.decoder : c \in Config} = cfg.decoder
  BY SameDecoder, ConfigAssumption DEF IInv, RelayTypeOK, SeqTypeOK
<1>3. CASE ~present
  BY <1>1, <1>3 DEF Due, seqVars, Unseen
<1>4. CASE present /\ OnAir
  <2>1. /\ UNCHANGED <<present, engineOnAir, senseOnAir, rxBand, txBand, txBandPending>>
        /\ asserted \subseteq asserted' /\ asserted' \subseteq Channel
    BY <1>2, <1>4 DEF Due, Advance
  <2> DEFINE more == asserted' \ asserted
  <2>2. CASE more = {}
    BY <1>1, <2>1, <2>2 DEF Unseen
  <2>3. CASE more # {}
    <3>1. more \subseteq Channel \ asserted /\ asserted' = asserted \cup more
      BY <2>1
    <3>2. more \in (SUBSET (Channel \ asserted)) \ {{}}
      <4> HIDE DEF more
      <4> QED BY <2>3, <3>1
    <3> HIDE DEF more
    <3> QED BY <1>1, <1>4, <2>1, <3>1, <3>2 DEF Promise!Rise, Promise!OnAir, OnAir
  <2> QED BY <2>2, <2>3
<1>5. CASE present /\ ~OnAir
  <2>1. /\ UNCHANGED <<present, engineOnAir, senseOnAir, rxBand>>
        /\ asserted' \subseteq asserted
        /\ IF asserted' \cap cfg.decoder # {}
             THEN UNCHANGED <<txBand, txBandPending>>
             ELSE TakePending
    BY <1>5 DEF Due, Advance, FollowsTxWord
  <2> DEFINE fewer == asserted \ asserted'
  <2>2. fewer \in SUBSET asserted /\ asserted' = asserted \ fewer
    BY <2>1
  <2>3. CASE asserted' = asserted /\ txBandPending' = txBandPending
    BY <1>1, <2>1, <2>3 DEF TakePending, Unseen
  <2>4. CASE ~(asserted' = asserted /\ txBandPending' = txBandPending)
    BY <1>1, <1>2, <1>5, <2>1, <2>2, <2>4
       DEF TakePending, Promise!Fall, Promise!OnAir, OnAir, Promise!FollowsTxWord,
           Promise!TakePending
  <2> QED BY <2>3, <2>4
<1> QED BY <1>3, <1>4, <1>5

\* The rest of the loop: the sense line, and hardware given up on.
LEMMA LoopMoves ==
    ASSUME IInv, \/ Drained \/ Look \/ WriteOk \/ WriteFails \/ StartReadBack \/ SkipReadBack
                 \/ ReadBack \/ RestateBoard \/ WakeUp \/ StandDown
    PROVE  (\E keyed \in BOOLEAN : Promise!Sense(keyed)) \/ Promise!GiveUp \/ Unseen
<1>1. CASE Look
  <2>1. Running /\ Running' /\ inbox' = inbox
    BY <1>1 DEF Look, At, Goto, Running
  <2>2. CASE SetSense(line)
    <3>1. line \in BOOLEAN
      BY DEF IInv, RelayTypeOK
    <3> QED BY <2>1, <2>2, <3>1 DEF SetSense, Promise!Sense
  <2>3. CASE UNCHANGED seqVars
    BY <2>1, <2>3 DEF seqVars, Unseen
  <2> QED BY <1>1, <2>2, <2>3 DEF Look
<1>2. CASE WriteFails
  <2>1. Running /\ Running' /\ inbox' = inbox /\ present /\ OnError
    BY <1>2 DEF WriteFails, At, Goto, Running, IInv, LoopInv
  <2>2. present' = TRUE \/ present' = FALSE
    BY <2>1 DEF OnError
  <2>3. CASE present' = TRUE
    <3>1. present \in BOOLEAN
      BY DEF IInv, RelayTypeOK, SeqTypeOK
    <3> QED BY <2>1, <2>3, <3>1 DEF OnError, Unseen
  <2>4. CASE present' = FALSE
    BY <2>1, <2>4 DEF OnError, Promise!GiveUp
  <2> QED BY <2>2, <2>3, <2>4
<1>3. CASE Drained \/ WriteOk \/ StartReadBack \/ SkipReadBack \/ WakeUp \/ StandDown
  BY <1>3 DEF Drained, WriteOk, OnAck, StartReadBack, SkipReadBack, Slumber, WakeUp, StandDown,
              At, Goto, Running, seqVars, Unseen
<1>4. CASE ReadBack \/ RestateBoard
  BY <1>4 DEF ReadBack, RestateBoard, Slumber, Invalidate, At, Goto, Running, seqVars, Unseen
<1> QED BY <1>1, <1>2, <1>3, <1>4

\* What callers send is posted; the world moves nothing the engines can see.
LEMMA OutsideMoves ==
    ASSUME "config" \notin Happens, PlainInv,
           Caller \/ ToggleLine \/ Disturb \/ Tick \/ UNCHANGED vars
    PROVE  Promise!Post \/ Unseen
<1>1. UNCHANGED <<Running, present, engineOnAir, senseOnAir, asserted, rxBand, txBand,
                  txBandPending>>
  BY DEF Caller, KeyDown, Radiate, Refuse, KeyUp, Retune, RxTune, PressTest, Configure, Close,
         ToggleLine, Disturb, Tick, SeqTick, vars, seqVars, workerVars, Running
<1>2. CASE inbox' = inbox
  BY <1>1, <1>2 DEF Unseen
<1>3. CASE inbox' # inbox
  <2>1. PICK m \in Seq(Plain) : m # <<>> /\ inbox' = inbox \o m
    BY <1>3, CallerPosts DEF ToggleLine, Disturb, Tick, vars, workerVars
  <2> QED BY <1>1, <2>1, Posted DEF PlainInv, Promise!Post
<1> QED BY <1>2, <1>3

\* Every step of the worker and all around it is one of the contacts', or none.
LEMMA PromiseStep ==
    ASSUME "config" \notin Happens, OneDecoder, IInv, PlainInv, [Next]_vars
    PROVE  [Promise!ContactsNext]_(Promise!contactVars)
<1>1. CASE TakeMessage \/ TakeShutdown
  BY <1>1, TakesReceive DEF Promise!ContactsNext
<1>2. CASE Due
  BY <1>2, SchedulesMove, Stutters DEF Promise!ContactsNext
<1>3. CASE \/ Drained \/ Look \/ WriteOk \/ WriteFails \/ StartReadBack \/ SkipReadBack
           \/ ReadBack \/ RestateBoard \/ WakeUp \/ StandDown
  BY <1>3, LoopMoves, Stutters DEF Promise!ContactsNext
<1>4. CASE Caller \/ ToggleLine \/ Disturb \/ Tick \/ UNCHANGED vars
  BY <1>4, OutsideMoves, Stutters DEF Promise!ContactsNext
<1> QED BY <1>1, <1>2, <1>3, <1>4 DEF Next, Worker

\* What Station assumes of the thread behind the switch is what the thread does
\* (RelayContacts implemented by RelayWorker): contacts are thrown for an over
\* only while something is on the air and dropped only while nothing is, the
\* filters' transmit band moves only when nothing follows it, messages are obeyed
\* in order, and the contacts are dropped when the handle is, through every
\* failure of the board.
THEOREM WorkerKeepsPromise ==
    ASSUME "config" \notin Happens, OneDecoder
    PROVE  Spec => KeepsPromise
<1>1. Init => PlainInv
  BY DEF Init, PlainInv
<1>2. PlainInv /\ [Next]_vars => PlainInv'
  BY PlainStep
<1>3. Init => Promise!ContactsInit
  BY DEF Init, SeqInit, Running, Promise!ContactsInit
<1>4. IInv /\ PlainInv /\ [Next]_vars => [Promise!ContactsNext]_(Promise!contactVars)
  BY PromiseStep
<1> QED BY <1>1, <1>2, <1>3, <1>4, WorkerAccounted, PTL
        DEF Spec, KeepsPromise, Promise!ContactsSpec
=============================================================================
