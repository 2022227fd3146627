----------------------------- MODULE OverProofs -----------------------------
(***************************************************************************)
(* Contacts first, drive second, and the hold after it: what the worker of *)
(* a switch owes an over, for any bank whose times leave room for it       *)
(* (Timely) while nothing fails and nothing but the caller keys            *)
(* (Undisturbed).  The worker may be anywhere in its loop when the         *)
(* key-down arrives; the invariant follows the over from the channel,      *)
(* counting what the caller has left of its wait against what the worker   *)
(* still has in front of it.                                               *)
(***************************************************************************)
EXTENDS WorkerProofs

----------------------------------------------------------------------------
(* One over, from the key-down in the channel to the RF.                   *)

\* The rise of the last contact of any configuration.
LastRise == CHOOSE r \in 0 .. MaxAge : LastBy(r)

\* The transmit band, once the next key-down is taken.
Upcoming == IF txBandPending = NoBand THEN txBand ELSE txBandPending

Presses(i) == inbox[i] = Key(TRUE)
Releases(i) == inbox[i] \in {Key(FALSE), Abort}

\* The engine's half is off by the time the i-th message is taken.
OffBefore(i) ==
    /\ engineOnAir => \E j \in 1 .. i - 1 : Releases(j)
    /\ \A p \in 1 .. i - 1 : Presses(p) => \E j \in p + 1 .. i - 1 : Releases(j)

\* A key-down, and what a caller sends in receive only.
NeedsOff(m) == m = Key(TRUE) \/ m.op \in {"config", "shutdown"}

\* What may be taken during an over: a band.
Tame(m) == m.op = "txBand" \/ (m.op = "rxBand" /\ "rxTune" \in Happens)

\* Nothing but the caller is at work.
CalmInv ==
    /\ test = {} /\ ~senseOnAir /\ ~disturbed /\ present
    /\ \A i \in 1 .. Len(inbox) : /\ inbox[i].op # "test"
                                  /\ inbox[i].op = "rxBand" => "rxTune" \in Happens

\* Overs do not run into each other in the channel.
TurnsInv ==
    /\ \A i \in 1 .. Len(inbox) : NeedsOff(inbox[i]) => OffBefore(i)
    /\ over = "rx" => OffBefore(Len(inbox) + 1)
    /\ ~Running \/ At("reading") => ~engineOnAir
    /\ \A i \in 1 .. Len(inbox) : inbox[i] = Abort => refused

\* The over's key-down is the k-th message, its band in front of it or taken.
Underway(k) ==
    /\ Presses(k)
    /\ \A j \in k + 1 .. Len(inbox) : Tame(inbox[j])
    /\ \/ k > 1 /\ inbox[k - 1] = TxBand(overBand)
       \/ k = 1 /\ At("drain") /\ Upcoming = overBand

\* The longest the worker may be busy before it looks into the channel.
Busy == IF pc \in {"sense", "due"} THEN 2 * RoundTrip
        ELSE IF pc = "writing" THEN left + RoundTrip
        ELSE IF pc = "readBack" THEN RoundTrip
        ELSE IF pc = "reading" THEN left
        ELSE 0

\* Asked for, and there is time left to hear of it and to throw the last contact.
Asked ==
    /\ over = "lead"
    /\ \E k \in 1 .. Len(inbox) : Underway(k)
    /\ wait >= Busy + LastRise + RoundTrip

Thrown == asserted = cfg.managed

\* Heard of: every contact is thrown before the wait is over, and stays thrown.
Heard ==
    /\ engineOnAir /\ txBand = overBand
    /\ \A j \in 1 .. Len(inbox) : Tame(inbox[j])
    /\ over = "lead" => /\ ~Thrown \/ age = 0 => wait + age >= LastRise + RoundTrip
                        /\ At("writing") => wait >= left
    /\ over = "tx" => Thrown /\ applied = Want /\ ~At("writing")

CallInv == over # "rx" => Open /\ (Asked \/ Heard)

\* How far off the next rise is at least, from where the loop is.
Margin == IF pc = "writing" THEN left + 1
          ELSE IF pc = "readBack" THEN 1
          ELSE IF pc = "sleep" THEN sleepLeft
          ELSE 0

\* No contact falls due unseen.
RisesInv == engineOnAir => \A ch \in cfg.managed \ asserted : RiseOf(cfg, ch) >= age + Margin

\* What was last wanted is what was last written.
StepInv ==
    /\ pc \in {"readBack", "reading", "sleep"} => applied = Want
    /\ pc = "writing" => writing = Want
    /\ engineOnAir /\ pc \in {"drain", "sense", "due"} /\ age > 0 => applied = Want

OverInv == CalmInv /\ TurnsInv /\ CallInv /\ RisesInv /\ StepInv

\* What every step starts from.
Before == IInv /\ OverInv /\ Timely /\ Undisturbed

----------------------------------------------------------------------------
(* Numbers.                                                                *)

\* Some contact closes at the edge.
LEMMA FirstRise ==
    ASSUME NEW c \in Config, c.managed # {}
    PROVE  \E ch \in c.managed : RiseOf(c, ch) = 0
<1>1. PICK ch \in c.managed : c.lead[ch] = MaxLead(c)
  BY LongestLead
<1>2. MaxLead(c) \in Nat
  BY LongestLead
<1> QED BY <1>1, <1>2 DEF RiseOf

\* What a timely bank's times are.
LEMMA Times ==
    ASSUME Timely, SeqTypeOK
    PROVE  /\ LastRise \in 0 .. MaxAge /\ MaxAge \in Nat /\ MaxAge > 0
           /\ RoundTrip \in Nat /\ RoundTrip > 0
           /\ \A ch \in cfg.managed : RiseOf(cfg, ch) \in 0 .. LastRise
           /\ LastRise + 3 * RoundTrip =< Smaller(MaxLead(cfg) + RoundTrip, MAX_TR_LEAD)
<1>1. LastRise \in 0 .. MaxAge /\ LastBy(LastRise)
  BY DEF Timely, LeadsSuffice, LastRise
<1>2. cfg \in Config /\ MaxLead(cfg) \in 0 .. MaxAge /\ \A ch \in cfg.managed : RiseOf(cfg, ch) \in Nat
  BY LongestLead DEF SeqTypeOK
<1>3. RoundTrip \in Nat /\ RoundTrip > 0 /\ MAX_TR_LEAD \in Nat /\ MaxAge \in Nat
  BY LinkAssumption, TimeAssumption
<1>4. /\ \A ch \in cfg.managed : RiseOf(cfg, ch) =< LastRise
      /\ LastRise + 3 * RoundTrip =< Smaller(MaxLead(cfg) + RoundTrip, MAX_TR_LEAD)
  BY <1>1, <1>2 DEF LastBy
<1>5. MaxAge > 0
  BY <1>1, <1>2, <1>3, <1>4 DEF Smaller
<1> QED BY <1>1, <1>2, <1>3, <1>4, <1>5

\* The types the steps need.
LEMMA Kinds ==
    ASSUME IInv
    PROVE  /\ SeqTypeOK /\ LoopTypeOK /\ CallerTypeOK
           /\ age \in Nat /\ wait \in Nat /\ left \in 0 .. RoundTrip /\ sleepLeft \in Nat
           /\ offAge \in 0 .. MaxAge
           /\ inbox \in Seq(Ctrl) /\ Len(inbox) \in Nat
           /\ asserted \subseteq cfg.managed /\ cfg \in Config
           /\ Margin \in Nat /\ Busy \in Nat /\ RoundTrip \in Nat
<1>1. SeqTypeOK /\ LoopTypeOK /\ CallerTypeOK
  BY TypeParts DEF IInv
<1>2. /\ age \in Nat /\ wait \in Nat /\ left \in 0 .. RoundTrip /\ sleepLeft \in Nat
      /\ inbox \in Seq(Ctrl) /\ asserted \subseteq cfg.managed /\ cfg \in Config
      /\ offAge \in 0 .. MaxAge /\ RoundTrip \in Nat
  BY <1>1, Ticks DEF SeqTypeOK, LoopTypeOK, CallerTypeOK
<1>3. Margin \in Nat /\ Busy \in Nat
  BY <1>2 DEF Margin, Busy
<1>4. Len(inbox) \in Nat
  BY <1>2
<1> QED BY <1>1, <1>2, <1>3, <1>4

\* The mask wanted depends on what is asserted, the transmit band and the test;
\* the receive band matters to a filter that is not asserted.
LEMMA WantStays ==
    ASSUME SeqTypeOK, UNCHANGED <<cfg, asserted, txBand, test>>,
           \/ rxBand' = rxBand
           \/ rxBand' \in Band /\ cfg.decoder \subseteq asserted
    PROVE  Want' = Want
<1>1. cfg \in Config /\ rxBand \in MaybeBand
  BY DEF SeqTypeOK
<1>2. \A b \in Band : cfg.rxWord[b] \subseteq cfg.decoder
  BY <1>1, ConfigAssumption
<1>3. Word(cfg.rxWord, rxBand)' \ asserted = Word(cfg.rxWord, rxBand) \ asserted
  <2>1. CASE rxBand' = rxBand
    BY <2>1 DEF Word
  <2>2. CASE rxBand' \in Band /\ cfg.decoder \subseteq asserted
    BY <1>1, <1>2, <2>2 DEF Word, MaybeBand
  <2> QED BY <2>1, <2>2
<1> QED BY <1>3 DEF Want, Logical, Word

----------------------------------------------------------------------------
(* The channel.                                                            *)

\* A message taken, and one sent, position by position.
LEMMA Popped ==
    ASSUME inbox \in Seq(Ctrl), inbox # <<>>, inbox' = Tail(inbox)
    PROVE  /\ Head(inbox) = inbox[1] /\ Len(inbox) \in Nat \ {0} /\ Len(inbox') = Len(inbox) - 1
           /\ \A i \in 1 .. Len(inbox') : inbox'[i] = inbox[i + 1]
           /\ \A i \in 1 .. Len(inbox) : inbox[i] \in Ctrl
OBVIOUS

LEMMA Pushed ==
    ASSUME inbox \in Seq(Ctrl), NEW msgs \in Seq(Ctrl), inbox' = inbox \o msgs
    PROVE  /\ Len(inbox') = Len(inbox) + Len(msgs) /\ Len(inbox) \in Nat /\ Len(msgs) \in Nat
           /\ \A i \in 1 .. Len(inbox) : inbox'[i] = inbox[i]
           /\ \A i \in 1 .. Len(msgs) : inbox'[Len(inbox) + i] = msgs[i]
OBVIOUS

\* Messages are told apart by what they ask.
LEMMA Ops ==
    /\ Key(TRUE).op = "key" /\ Key(FALSE).op = "key" /\ Key(TRUE) # Key(FALSE)
    /\ Abort.op = "abort" /\ Shutdown.op = "shutdown"
    /\ \A b : RxBand(b).op = "rxBand" /\ TxBand(b).op = "txBand" /\ TxBand(b).band = b
    /\ \A c : Adopt(c).op = "config"
<1>1. Key(TRUE) # Key(FALSE)
  <2>1. Key(TRUE).on = TRUE /\ Key(FALSE).on = FALSE
    BY DEF Key
  <2> QED BY <2>1
<1> QED BY <1>1 DEF Key, Abort, Shutdown, RxBand, TxBand, Adopt

\* Taking the head brings every turn one nearer.
LEMMA OffNearer ==
    ASSUME inbox \in Seq(Ctrl), inbox # <<>>, inbox' = Tail(inbox),
           Presses(1) => engineOnAir' = TRUE,
           Releases(1) => engineOnAir' = FALSE,
           ~Presses(1) /\ ~Releases(1) => engineOnAir' = engineOnAir,
           NEW i \in 1 .. Len(inbox), OffBefore(i + 1)
    PROVE  OffBefore(i)'
<1>1. Len(inbox) \in Nat \ {0} /\ Len(inbox') = Len(inbox) - 1
  BY Popped
<1>2. \A j \in 1 .. Len(inbox') : (Releases(j)' <=> Releases(j + 1)) /\ (Presses(j)' <=> Presses(j + 1))
  BY Popped DEF Releases, Presses, Key, Abort
<1>0. i \in Nat \ {0} /\ (i + 1) - 1 = i
  BY <1>1
<1>3. engineOnAir' => \E j \in 2 .. i : Releases(j)
  <2>1. CASE Presses(1)
    BY <2>1 DEF OffBefore
  <2>2. CASE ~Presses(1) /\ ~Releases(1)
    <3>1. engineOnAir' => \E j \in 1 .. i : Releases(j)
      BY <1>0, <2>2 DEF OffBefore
    <3> QED BY <1>0, <2>2, <3>1
  <2> QED BY <2>1, <2>2 DEF Presses, Releases, Key, Abort
<1>4. engineOnAir' => \E j \in 1 .. i - 1 : Releases(j)'
  <2>1. ASSUME NEW j \in 2 .. i, Releases(j) PROVE \E n \in 1 .. i - 1 : Releases(n)'
    <3>1. j - 1 \in 1 .. Len(inbox') /\ j - 1 \in 1 .. i - 1
      BY <1>1
    <3>2. Releases(j - 1)'
      BY <1>2, <2>1, <3>1
    <3> QED BY <3>1, <3>2
  <2> QED BY <1>3, <2>1
<1>5. ASSUME NEW p \in 1 .. i - 1, Presses(p)' PROVE \E j \in p + 1 .. i - 1 : Releases(j)'
  <2>1. Presses(p + 1)
    BY <1>1, <1>2, <1>5
  <2>2. PICK j \in p + 2 .. i : Releases(j)
    BY <2>1 DEF OffBefore
  <2>3. j - 1 \in 1 .. Len(inbox') /\ j - 1 \in p + 1 .. i - 1
    BY <1>1
  <2>4. Releases(j - 1)'
    BY <1>2, <2>2, <2>3
  <2> QED BY <2>3, <2>4
<1> QED BY <1>4, <1>5 DEF OffBefore

\* What is sent does not change the turns in front of it.
LEMMA OffInFront ==
    ASSUME inbox \in Seq(Ctrl), NEW msgs \in Seq(Ctrl), inbox' = inbox \o msgs,
           engineOnAir' = engineOnAir,
           NEW i \in 1 .. Len(inbox) + 1, OffBefore(i)
    PROVE  OffBefore(i)'
<1>1. \A j \in 1 .. i - 1 : (Releases(j)' <=> Releases(j)) /\ (Presses(j)' <=> Presses(j))
  BY Pushed DEF Releases, Presses, Key, Abort
<1> QED BY <1>1 DEF OffBefore

----------------------------------------------------------------------------
(* A message taken.                                                        *)

\* What is at the head when the engine is on the air is no key-down.
LEMMA FirstTurn ==
    ASSUME Before, inbox # <<>>
    PROVE  NeedsOff(inbox[1]) => ~engineOnAir
<1>1. 1 \in 1 .. Len(inbox)
  BY Kinds, Popped DEF Before
<1>2. ASSUME NeedsOff(inbox[1]) PROVE OffBefore(1)
  BY <1>1, <1>2 DEF Before, OverInv, TurnsInv
<1>3. ~\E j \in 1 .. 1 - 1 : Releases(j)
  OBVIOUS
<1> QED BY <1>2, <1>3 DEF OffBefore

\* The message taken, and what it does to the schedule.
LEMMA Orders ==
    ASSUME Before, TakeMessage
    PROVE  /\ inbox # <<>> /\ inbox' = Tail(inbox) /\ inbox[1] = Head(inbox) /\ inbox[1] \in Ctrl
           /\ pc \in {"drain", "sleep"} /\ pc' = "drain" /\ sleepLeft' = 0
           /\ UNCHANGED <<left, writing, sensed, last, contacts, line, disturbed, tests, over, wait,
                          overBand, offAge, refused>>
           /\ \/ inbox[1] = Key(TRUE) /\ SetEngine(TRUE)
              \/ inbox[1] = Key(FALSE) /\ SetEngine(FALSE)
              \/ inbox[1] = Abort /\ AbortOver
              \/ \E b \in Band : inbox[1] = RxBand(b) /\ "rxTune" \in Happens /\ SetRxBand(b)
              \/ \E b \in Band : inbox[1] = TxBand(b) /\ SetTxBand(b)
              \/ \E c \in Config : inbox[1] = Adopt(c) /\ SetConfig(c)
<1>1. /\ inbox # <<>> /\ inbox' = Tail(inbox)
      /\ pc \in {"drain", "sleep"} /\ pc' = "drain" /\ sleepLeft' = 0
      /\ UNCHANGED <<left, writing, sensed, last, contacts, line, disturbed, tests, over, wait,
                     overBand, offAge, refused>>
  BY DEF TakeMessage, Handle, Message, Takes, At, Goto, boardVars, worldVars, callerVars
<1>2. inbox[1] = Head(inbox) /\ inbox[1] \in Ctrl /\ 1 \in 1 .. Len(inbox)
  BY <1>1, Kinds, Popped DEF Before
<1>3. inbox[1].op # "test" /\ (inbox[1].op = "rxBand" => "rxTune" \in Happens)
  BY <1>2 DEF Before, OverInv, CalmInv
<1> DEFINE m == inbox[1]
<1>4. \/ m.op = "key" /\ SetEngine(m.on)
      \/ m.op = "abort" /\ AbortOver
      \/ m.op = "rxBand" /\ SetRxBand(m.band)
      \/ m.op = "txBand" /\ SetTxBand(m.band)
      \/ m.op = "config" /\ SetConfig(m.config)
  BY <1>2, <1>3 DEF TakeMessage, Handle, Message
<1> HIDE DEF m
<1>5. /\ m.op = "key" => (m = Key(TRUE) /\ m.on = TRUE) \/ (m = Key(FALSE) /\ m.on = FALSE)
      /\ m.op = "abort" => m = Abort
      /\ m.op = "rxBand" => m.band \in Band /\ m = RxBand(m.band)
      /\ m.op = "txBand" => m.band \in Band /\ m = TxBand(m.band)
      /\ m.op = "config" => m.config \in Config /\ m = Adopt(m.config)
  <2>1. \/ \E on \in BOOLEAN : m = Key(on)
        \/ m = Abort \/ m = Shutdown
        \/ \E b \in Band : m = RxBand(b) \/ m = TxBand(b)
        \/ \E ch \in Channel : m = Test(ch)
        \/ \E c \in Config : m = Adopt(c)
    BY <1>2 DEF m, Ctrl
  <2>2. CASE \E on \in BOOLEAN : m = Key(on)
    <3>1. m = Key(TRUE) \/ m = Key(FALSE)
      BY <2>2
    <3>2. m.op = "key"
      BY <3>1 DEF Key
    <3>3. (m = Key(TRUE) => m.on = TRUE) /\ (m = Key(FALSE) => m.on = FALSE)
      BY DEF Key
    <3>4. (m = Key(TRUE) /\ m.on = TRUE) \/ (m = Key(FALSE) /\ m.on = FALSE)
      BY <3>1, <3>3, Zenon
    <3> QED BY <3>2, <3>4
  <2>3. CASE m = Abort \/ m = Shutdown \/ \E ch \in Channel : m = Test(ch)
    <3>1. m = Abort \/ m.op \in {"shutdown", "test"}
      BY <2>3 DEF Shutdown, Test
    <3>2. m = Abort => m.op = "abort"
      BY DEF Abort
    <3> QED BY <3>1, <3>2
  <2>4. ASSUME NEW b \in Band, m = RxBand(b) \/ m = TxBand(b)
        PROVE  /\ m.op \in {"rxBand", "txBand"} /\ m.band \in Band
               /\ m.op = "rxBand" => m = RxBand(m.band)
               /\ m.op = "txBand" => m = TxBand(m.band)
    <3>1. CASE m = RxBand(b)
      <4>1. m.op = "rxBand" /\ m.band = b
        BY <3>1 DEF RxBand
      <4> QED BY <3>1, <4>1
    <3>2. CASE m = TxBand(b)
      <4>1. m.op = "txBand" /\ m.band = b
        BY <3>2 DEF TxBand
      <4> QED BY <3>2, <4>1
    <3> QED BY <2>4, <3>1, <3>2
  <2>5. ASSUME NEW c \in Config, m = Adopt(c)
        PROVE  m.op = "config" /\ m.config \in Config /\ m = Adopt(m.config)
    <3>1. m.op = "config" /\ m.config = c
      BY <2>5 DEF Adopt
    <3> QED BY <2>5, <3>1
  <2> QED BY <2>1, <2>2, <2>3, <2>4, <2>5
<1>6. \/ m = Key(TRUE) /\ SetEngine(TRUE)
      \/ m = Key(FALSE) /\ SetEngine(FALSE)
      \/ m = Abort /\ AbortOver
      \/ \E b \in Band : m = RxBand(b) /\ "rxTune" \in Happens /\ SetRxBand(b)
      \/ \E b \in Band : m = TxBand(b) /\ SetTxBand(b)
      \/ \E c \in Config : m = Adopt(c) /\ SetConfig(c)
  <2>1. m.op = "rxBand" => "rxTune" \in Happens
    BY <1>3 DEF m
  <2> QED BY <1>4, <1>5, <2>1
<1> QED BY <1>1, <1>2, <1>6 DEF m

\* What the messages have in common, told apart by what they do to the key.
LEMMA Heads ==
    ASSUME Before, TakeMessage
    PROVE  /\ Presses(1) => engineOnAir' = TRUE /\ ~engineOnAir
           /\ Releases(1) => engineOnAir' = FALSE
           /\ ~Presses(1) /\ ~Releases(1) => engineOnAir' = engineOnAir
           /\ inbox[1].op = "config" => ~engineOnAir
           /\ ~senseOnAir' /\ test' = {} /\ present'
<1>1. NeedsOff(inbox[1]) => ~engineOnAir
  BY Orders, FirstTurn
<1>2. test = {} /\ ~senseOnAir /\ present
  BY DEF Before, OverInv, CalmInv
<1> DEFINE m == inbox[1]
<1> HIDE DEF m
<1> USE DEF Presses, Releases, NeedsOff
<1>3. CASE m = Key(TRUE) /\ SetEngine(TRUE)
  BY <1>1, <1>2, <1>3 DEF m, Key, Abort, SetEngine
<1>4. CASE m = Key(FALSE) /\ SetEngine(FALSE)
  BY <1>2, <1>4 DEF m, Key, SetEngine
<1>5. CASE m = Abort /\ AbortOver
  BY <1>2, <1>5 DEF m, Key, Abort, AbortOver
<1>6. CASE \E b \in Band : m = RxBand(b) /\ SetRxBand(b)
  BY <1>2, <1>6 DEF m, Key, Abort, RxBand, SetRxBand
<1>7. CASE \E b \in Band : m = TxBand(b) /\ SetTxBand(b)
  BY <1>2, <1>7 DEF m, Key, Abort, TxBand, SetTxBand
<1>8. CASE \E c \in Config : m = Adopt(c) /\ SetConfig(c)
  BY <1>1, <1>2, <1>8 DEF m, Key, Abort, Adopt, SetConfig
<1> QED BY <1>3, <1>4, <1>5, <1>6, <1>7, <1>8, Orders DEF m

LEMMA CalmWhenTaking == ASSUME Before, TakeMessage PROVE CalmInv'
<1>1. test' = {} /\ ~senseOnAir' /\ ~disturbed' /\ present'
  <2>1. ~disturbed
    BY DEF Before, OverInv, CalmInv
  <2>2. disturbed' = disturbed
    BY Orders
  <2> QED BY <2>1, <2>2, Heads
<1>2. ASSUME NEW i \in 1 .. Len(inbox') PROVE i + 1 \in 1 .. Len(inbox) /\ inbox'[i] = inbox[i + 1]
  <2>1. inbox \in Seq(Ctrl) /\ inbox # <<>> /\ inbox' = Tail(inbox)
    BY Orders, Kinds DEF Before
  <2> QED BY <1>2, <2>1, Popped
<1>3. \A i \in 1 .. Len(inbox) : /\ inbox[i].op # "test"
                                 /\ inbox[i].op = "rxBand" => "rxTune" \in Happens
  BY DEF Before, OverInv, CalmInv
<1> QED BY <1>1, <1>2, <1>3 DEF CalmInv

LEMMA TurnsWhenTaking == ASSUME Before, TakeMessage PROVE TurnsInv'
<1>1. /\ inbox \in Seq(Ctrl) /\ Len(inbox) \in Nat \ {0} /\ Len(inbox') = Len(inbox) - 1
      /\ \A i \in 1 .. Len(inbox') : i + 1 \in 1 .. Len(inbox) /\ inbox'[i] = inbox[i + 1]
  BY Orders, Kinds, Popped DEF Before
<1>2. ASSUME NEW i \in 1 .. Len(inbox), OffBefore(i + 1) PROVE OffBefore(i)'
  BY <1>1, <1>2, Orders, Heads, OffNearer
<1>3. \A i \in 1 .. Len(inbox') : (NeedsOff(inbox[i]))' => (OffBefore(i))'
  <2> SUFFICES ASSUME NEW i \in 1 .. Len(inbox'), (NeedsOff(inbox[i]))' PROVE (OffBefore(i))'
    OBVIOUS
  <2>1. NeedsOff(inbox[i + 1])
    BY <1>1 DEF NeedsOff, Key
  <2>2. OffBefore(i + 1) /\ i \in 1 .. Len(inbox)
    BY <1>1, <2>1 DEF Before, OverInv, TurnsInv
  <2> QED BY <1>2, <2>2
<1>4. (over = "rx")' => (OffBefore(Len(inbox) + 1))'
  <2> SUFFICES ASSUME over = "rx" PROVE (OffBefore(Len(inbox) + 1))'
    BY Orders
  <2>1. PICK n \in 1 .. Len(inbox) : n = Len(inbox)
    BY <1>1
  <2>2. OffBefore(n + 1)
    BY <2>1 DEF Before, OverInv, TurnsInv
  <2>3. OffBefore(n)'
    BY <1>2, <2>2
  <2>4. Len(inbox') + 1 = n
    BY <1>1, <2>1
  <2> QED BY <2>3, <2>4 DEF OffBefore
<1>5. Running' /\ ~At("reading")'
  BY Orders DEF Running, At
<1>6. \A i \in 1 .. Len(inbox') : inbox'[i] = Abort => refused'
  <2>1. \A i \in 1 .. Len(inbox) : inbox[i] = Abort => refused
    BY DEF Before, OverInv, TurnsInv
  <2> QED BY <1>1, <2>1, Orders
<1> QED BY <1>3, <1>4, <1>5, <1>6 DEF TurnsInv

\* A key-down taken restarts the clock and takes the band held back for it.
LEMMA KeyTaken ==
    ASSUME Before, TakeMessage, Presses(1)
    PROVE  age' = 0 /\ txBand' = Upcoming /\ UNCHANGED <<cfg, asserted>>
<1>1. inbox[1] = Key(TRUE) /\ ~engineOnAir /\ ~senseOnAir
  BY Heads DEF Presses, Before, OverInv, CalmInv
<1>2. SetEngine(TRUE)
  BY <1>1, Orders, Ops
<1>3. age' = 0 /\ TakePending
  BY <1>1, <1>2 DEF SetEngine, OnAir
<1> QED BY <1>2, <1>3 DEF SetEngine, TakePending, Upcoming

\* On the air only bands are taken, and the transmit band is held back.
LEMMA OnAirTaken ==
    ASSUME Before, TakeMessage, engineOnAir, engineOnAir'
    PROVE  /\ UNCHANGED <<cfg, asserted, age, txBand, test, applied>>
           /\ rxBand' = rxBand \/ (rxBand' \in Band /\ "rxTune" \in Happens)
<1>1. ~Presses(1) /\ ~Releases(1) /\ inbox[1].op # "config"
  BY Heads
<1>2. \/ \E b \in Band : "rxTune" \in Happens /\ SetRxBand(b)
      \/ \E b \in Band : SetTxBand(b)
  BY <1>1, Orders, Ops DEF Presses, Releases
<1> QED BY <1>2 DEF SetRxBand, SetTxBand, OnAir

\* Once the clock has moved, the receive band moves no filter.
LEMMA FiltersThrown ==
    ASSUME Before, engineOnAir, age > 0 \/ Thrown, "rxTune" \in Happens
    PROVE  cfg.decoder \subseteq asserted
<1>0. age \in Nat /\ Margin \in Nat /\ cfg \in Config /\ cfg.decoder \subseteq cfg.managed
  BY Kinds, ConfigAssumption DEF Before
<1>1. CASE Thrown
  BY <1>0, <1>1 DEF Thrown
<1>2. CASE age > 0
  <2>1. SUFFICES ASSUME NEW ch \in cfg.decoder, ch \notin asserted PROVE FALSE
    OBVIOUS
  <2>2. RiseOf(cfg, ch) >= age + Margin
    BY <1>0, <2>1 DEF Before, OverInv, RisesInv
  <2>3. RiseOf(cfg, ch) = 0
    BY <1>0, <2>1 DEF Before, Timely, FiltersFirst
  <2> QED BY <1>0, <1>2, <2>2, <2>3
<1> QED BY <1>1, <1>2

LEMMA RisesWhenTaking == ASSUME Before, TakeMessage PROVE RisesInv'
<1>0. /\ age \in Nat /\ Margin \in Nat
      /\ \A ch \in cfg.managed : RiseOf(cfg, ch) \in Nat
  BY Kinds, LongestLead DEF Before
<1>1. Margin' = 0
  BY Orders DEF Margin
<1> SUFFICES ASSUME engineOnAir', NEW ch \in cfg'.managed \ asserted'
             PROVE  RiseOf(cfg', ch) >= age' + 0
  BY <1>1 DEF RisesInv, RiseOf, MaxLead
<1>2. CASE Presses(1)
  BY <1>0, <1>2, KeyTaken
<1>3. CASE ~Presses(1)
  <2>1. engineOnAir
    BY <1>3, Heads
  <2>2. cfg' = cfg /\ asserted' = asserted /\ age' = age
    BY <2>1, OnAirTaken
  <2>3. RiseOf(cfg, ch) >= age + Margin
    BY <2>1, <2>2 DEF Before, OverInv, RisesInv
  <2> QED BY <1>0, <2>2, <2>3
<1> QED BY <1>2, <1>3

LEMMA StepWhenTaking == ASSUME Before, TakeMessage PROVE StepInv'
<1>1. pc' = "drain" /\ pc \in {"drain", "sleep"}
  BY Orders
<1> SUFFICES ASSUME engineOnAir', age' > 0 PROVE applied' = Want'
  BY <1>1 DEF StepInv
<1>2. ~Presses(1)
  BY KeyTaken
<1>3. engineOnAir
  BY <1>2, Heads
<1>4. /\ UNCHANGED <<cfg, asserted, age, txBand, test, applied>>
      /\ rxBand' = rxBand \/ (rxBand' \in Band /\ "rxTune" \in Happens)
  BY <1>3, OnAirTaken
<1>5. applied = Want
  BY <1>1, <1>3, <1>4 DEF Before, OverInv, StepInv
<1>6. rxBand' = rxBand \/ (rxBand' \in Band /\ cfg.decoder \subseteq asserted)
  BY <1>3, <1>4, FiltersThrown
<1>7. Want' = Want
  BY <1>4, <1>6, WantStays, Kinds DEF Before
<1> QED BY <1>4, <1>5, <1>7

LEMMA CallWhenTaking == ASSUME Before, TakeMessage PROVE CallInv'
<1>0. /\ inbox \in Seq(Ctrl) /\ Len(inbox) \in Nat \ {0} /\ Len(inbox') = Len(inbox) - 1
      /\ \A i \in 1 .. Len(inbox') : i + 1 \in 1 .. Len(inbox) /\ inbox'[i] = inbox[i + 1]
  BY Orders, Kinds, Popped DEF Before
<1>1. /\ pc' = "drain" /\ UNCHANGED <<left, over, wait, overBand>> /\ Busy' = 0
  BY Orders DEF Busy
<1>2. wait \in Nat /\ Busy \in Nat /\ age \in Nat /\ LastRise \in Nat /\ RoundTrip \in Nat
  BY Kinds, Times DEF Before
<1> SUFFICES ASSUME over # "rx" PROVE Open' /\ (Asked' \/ Heard')
  BY <1>1 DEF CallInv
<1>3. Open /\ (Asked \/ Heard)
  BY DEF Before, OverInv, CallInv
<1>4. Open'
  <2>1. \A i \in DOMAIN inbox' : inbox'[i] \in {inbox[j] : j \in DOMAIN inbox}
    BY <1>0
  <2> QED BY <1>1, <1>3, <2>1 DEF Open
<1>5. CASE Asked
  <2>1. PICK k \in 1 .. Len(inbox) : Underway(k)
    BY <1>5 DEF Asked
  <2>2. wait >= LastRise + RoundTrip /\ over = "lead"
    BY <1>2, <1>5 DEF Asked
  <2>3. CASE k = 1
    <3>1. Presses(1) /\ Upcoming = overBand /\ \A j \in 2 .. Len(inbox) : Tame(inbox[j])
      BY <2>1, <2>3 DEF Underway
    <3>2. engineOnAir' /\ age' = 0 /\ txBand' = overBand'
      BY <1>1, <3>1, Heads, KeyTaken
    <3>3. \A j \in 1 .. Len(inbox') : Tame(inbox'[j])
      BY <1>0, <3>1
    <3>4. wait' + age' >= LastRise + RoundTrip
      BY <1>1, <1>2, <2>2, <3>2
    <3>5. Heard'
      BY <1>1, <2>2, <3>2, <3>3, <3>4 DEF Heard, At, Tame
    <3> QED BY <1>4, <3>5
  <2>4. CASE k > 1
    <3>1. k - 1 \in 1 .. Len(inbox')
      BY <1>0, <2>4
    <3>2. Presses(k - 1)'
      BY <1>0, <2>1, <3>1 DEF Presses, Underway, Key
    <3>3. \A j \in (k - 1) + 1 .. Len(inbox') : Tame(inbox'[j])
      <4> SUFFICES ASSUME NEW j \in (k - 1) + 1 .. Len(inbox') PROVE Tame(inbox'[j])
        OBVIOUS
      <4>1. j \in 1 .. Len(inbox') /\ j + 1 \in k + 1 .. Len(inbox)
        BY <1>0, <3>1
      <4> QED BY <1>0, <2>1, <4>1 DEF Underway
    <3>4. \/ k - 1 > 1 /\ inbox'[(k - 1) - 1] = TxBand(overBand)
          \/ k - 1 = 1 /\ pc' = "drain" /\ Upcoming' = overBand
      <4>1. inbox[k - 1] = TxBand(overBand)
        BY <2>1, <2>4 DEF Underway
      <4>2. CASE k = 2
        <5>1. inbox[1] = TxBand(overBand)
          BY <4>1, <4>2
        <5>a. inbox[1].op = "txBand" /\ inbox[1].band = overBand
          BY <5>1, Ops
        <5>2. PICK b \in Band : inbox[1] = TxBand(b) /\ SetTxBand(b)
          BY <5>a, Orders, Ops
        <5>3. b = overBand /\ b # NoBand
          BY <5>a, <5>2, ConfigAssumption, Ops
        <5>4. Upcoming' = b
          BY <5>2, <5>3 DEF SetTxBand, Upcoming
        <5> QED BY <1>1, <4>2, <5>3, <5>4
      <4>3. CASE k > 2
        <5>1. k - 2 \in 1 .. Len(inbox') /\ (k - 1) - 1 = k - 2 /\ (k - 2) + 1 = k - 1
          BY <1>0, <4>3
        <5>2. inbox'[k - 2] = inbox[k - 1]
          BY <1>0, <5>1
        <5> QED BY <4>1, <4>3, <5>1, <5>2
      <4> QED BY <2>4, <4>2, <4>3
    <3>5. PICK n \in 1 .. Len(inbox') : n = k - 1
      BY <3>1
    <3>6. Underway(n)'
      BY <1>1, <3>2, <3>3, <3>4, <3>5 DEF Underway, At, Tame, TxBand, Presses, Key
    <3>7. Asked'
      BY <1>1, <1>2, <2>2, <3>6 DEF Asked
    <3> QED BY <1>4, <3>7
  <2> QED BY <1>0, <2>3, <2>4
<1>6. CASE Heard
  <2>1. engineOnAir /\ txBand = overBand /\ Tame(inbox[1]) /\ \A j \in 1 .. Len(inbox) : Tame(inbox[j])
    BY <1>0, <1>6 DEF Heard
  <2>2. engineOnAir'
    <3>1. ~Presses(1) /\ ~Releases(1)
      BY <2>1 DEF Tame, Presses, Releases, Key, Abort
    <3> QED BY <2>1, <3>1, Heads
  <2>3. /\ UNCHANGED <<cfg, asserted, age, txBand, test, applied>>
        /\ rxBand' = rxBand \/ (rxBand' \in Band /\ "rxTune" \in Happens)
    BY <2>1, <2>2, OnAirTaken
  <2>4. \A j \in 1 .. Len(inbox') : Tame(inbox'[j])
    BY <1>0, <2>1
  <2>5. over = "tx" => Thrown' /\ applied' = Want'
    <3> SUFFICES ASSUME over = "tx" PROVE Thrown' /\ applied' = Want'
      OBVIOUS
    <3>1. Thrown /\ applied = Want
      BY <1>6 DEF Heard
    <3>2. rxBand' = rxBand \/ (rxBand' \in Band /\ cfg.decoder \subseteq asserted)
      BY <2>1, <2>3, <3>1, FiltersThrown
    <3>3. Want' = Want
      BY <2>3, <3>2, WantStays, Kinds DEF Before
    <3> QED BY <2>3, <3>1, <3>3 DEF Thrown
  <2>6. over = "lead" => (~Thrown' \/ age' = 0 => wait' + age' >= LastRise + RoundTrip)
    BY <1>1, <1>6, <2>3 DEF Heard, Thrown
  <2>7. ~At("writing")'
    BY <1>1 DEF At
  <2>8. Heard'
    BY <1>1, <2>1, <2>2, <2>3, <2>4, <2>5, <2>6, <2>7 DEF Heard, Tame
  <2> QED BY <1>4, <2>8
<1> QED BY <1>3, <1>5, <1>6

\* apply_ctrl.
LEMMA OverTaking == Before /\ TakeMessage => OverInv'
BY CalmWhenTaking, TurnsWhenTaking, CallWhenTaking, RisesWhenTaking, StepWhenTaking DEF OverInv

----------------------------------------------------------------------------
(* The rest of the loop.                                                   *)

LEMMA StaysCalm ==
    ASSUME Before, UNCHANGED <<inbox, senseOnAir, present, disturbed>>, test' = {}
    PROVE  CalmInv'
BY DEF Before, OverInv, CalmInv

LEMMA TurnsStand ==
    ASSUME Before, UNCHANGED <<inbox, engineOnAir>>, over' = "rx" => over = "rx",
           \A i \in 1 .. Len(inbox) : inbox[i] = Abort => refused',
           ~Running' \/ pc' = "reading" => ~engineOnAir
    PROVE  TurnsInv'
<1>1. \A i \in 1 .. Len(inbox) + 1 : OffBefore(i) => OffBefore(i)'
  BY DEF OffBefore, Presses, Releases, Key, Abort
<1>2. \A i \in 1 .. Len(inbox) : NeedsOff(inbox[i])' => NeedsOff(inbox[i])
  BY DEF NeedsOff, Key
<1>3. Len(inbox) \in Nat
  BY Kinds DEF Before
<1>4. /\ \A i \in 1 .. Len(inbox) : NeedsOff(inbox[i]) => OffBefore(i)
      /\ over = "rx" => OffBefore(Len(inbox) + 1)
  BY DEF Before, OverInv, TurnsInv
<1>5. \A i \in 1 .. Len(inbox') : NeedsOff(inbox[i])' => OffBefore(i)'
  BY <1>1, <1>2, <1>3, <1>4
<1>6. over' = "rx" => OffBefore(Len(inbox) + 1)'
  <2>1. PICK n \in 1 .. Len(inbox) + 1 : n = Len(inbox) + 1
    BY <1>3
  <2>2. over' = "rx" => OffBefore(n)'
    BY <1>1, <1>4, <2>1
  <2> QED BY <2>1, <2>2 DEF OffBefore
<1>7. \A i \in 1 .. Len(inbox') : inbox'[i] = Abort => refused'
  OBVIOUS
<1> QED BY <1>5, <1>6, <1>7 DEF TurnsInv, At, Abort

LEMMA StaysInTurn ==
    ASSUME Before, UNCHANGED <<inbox, over, engineOnAir, refused>>,
           ~Running' \/ pc' = "reading" => ~engineOnAir
    PROVE  TurnsInv'
<1>1. \A i \in 1 .. Len(inbox) : inbox[i] = Abort => refused'
  BY DEF Before, OverInv, TurnsInv
<1> QED BY <1>1, TurnsStand

\* An over that is asked for is, while the worker gets nearer to its channel.
LEMMA StaysAsked ==
    ASSUME Before, Asked, pc # "drain", UNCHANGED <<inbox, over, wait, overBand>>, Busy' =< Busy,
           Busy' \in Nat
    PROVE  Asked'
<1>1. PICK k \in 1 .. Len(inbox) : Underway(k)
  BY DEF Asked
<1>2. Underway(k)'
  BY <1>1 DEF Underway, At, Presses, Key, Tame, TxBand
<1>3. wait' >= Busy' + LastRise + RoundTrip
  <2>1. /\ wait >= Busy + LastRise + RoundTrip /\ wait' = wait
        /\ Busy \in Nat /\ LastRise \in Nat /\ RoundTrip \in Nat /\ wait \in Nat
    BY Kinds, Times DEF Asked, Before
  <2>2. PICK b \in Nat : Busy' = b
    OBVIOUS
  <2> QED BY <2>1, <2>2
<1> QED BY <1>2, <1>3 DEF Asked

\* A step of the loop that leaves the schedule, the channel and the caller alone.
LEMMA Along ==
    ASSUME Before, IInv', UNCHANGED <<seqVars, inbox, over, wait, overBand, refused, disturbed>>,
           pc # "drain" \/ inbox = <<>>, Busy' =< Busy,
           Running', pc' # "writing", pc' = "reading" => ~engineOnAir,
           RisesInv', StepInv'
    PROVE  OverInv'
<1>0. UNCHANGED <<cfg, engineOnAir, senseOnAir, age, asserted, rxBand, txBand, txBandPending, applied,
                  test, present>>
  BY DEF seqVars
<1>1. CalmInv'
  BY <1>0, StaysCalm DEF Before, OverInv, CalmInv
<1>2. TurnsInv'
  BY <1>0, StaysInTurn
<1>3. CallInv'
  <2> SUFFICES ASSUME over # "rx" PROVE Open' /\ (Asked' \/ Heard')
    BY DEF CallInv
  <2>1. Open' /\ (Asked \/ Heard)
    BY DEF Before, OverInv, CallInv, Open, Running
  <2>2. CASE Asked
    <3>1. inbox # <<>>
      BY <2>2 DEF Asked
    <3>2. Busy' \in Nat
      <4>1. left' \in Nat
        BY Kinds, TypeParts, Ticks DEF IInv, LoopTypeOK
      <4> QED BY <4>1, Kinds DEF Busy, Before
    <3> QED BY <2>1, <2>2, <3>1, <3>2, StaysAsked
  <2>3. CASE Heard
    <3>1. Want' = Want /\ Thrown' = Thrown
      BY <1>0, WantStays, Kinds DEF Before, Thrown
    <3>2. \A j \in 1 .. Len(inbox') : Tame(inbox[j])'
      BY <2>3 DEF Heard, Tame
    <3>3. Heard'
      BY <1>0, <2>3, <3>1, <3>2 DEF Heard, At
    <3> QED BY <2>1, <3>3
  <2> QED BY <2>1, <2>2, <2>3
<1> QED BY <1>1, <1>2, <1>3 DEF OverInv

\* The channel is empty, the line is what it was, and the sleep is over.
LEMMA OverLooping == Before /\ IInv' /\ (Drained \/ Look \/ WakeUp) => OverInv'
<1> SUFFICES ASSUME Before, IInv', Drained \/ Look \/ WakeUp PROVE OverInv'
  OBVIOUS
<1>1. UNCHANGED <<seqVars, inbox, left, sleepLeft, over, wait, overBand, refused, disturbed>>
  BY DEF Drained, Look, WakeUp, callerVars, worldVars, quietWorker, Before, Undisturbed
<1>2. \/ pc = "drain" /\ inbox = <<>> /\ pc' = "sense"
      \/ pc = "sense" /\ pc' = "due"
      \/ pc = "sleep" /\ sleepLeft = 0 /\ inbox = <<>> /\ pc' = "drain"
  BY DEF Drained, Look, WakeUp, At, Goto
<1>3. Want' = Want /\ Margin = Margin'
  BY <1>1, <1>2 DEF seqVars, Want, Logical, Word, Xor, Margin
<1>4. RisesInv'
  BY <1>1, <1>3 DEF seqVars, Before, OverInv, RisesInv
<1>5. StepInv'
  BY <1>1, <1>2, <1>3 DEF seqVars, Before, OverInv, StepInv
<1>6. CASE pc = "drain" \/ pc = "sleep"
  <2>1. CallInv'
    <3> SUFFICES ASSUME over # "rx" PROVE Open' /\ Heard'
      BY <1>1 DEF CallInv
    <3>1. Open' /\ (Asked \/ Heard)
      BY <1>1, <1>2 DEF Before, OverInv, CallInv, Open
    <3>2. Heard
      BY <1>2, <1>6, <3>1 DEF Asked
    <3>3. \A j \in 1 .. Len(inbox') : Tame(inbox[j])'
      BY <1>1, <3>2 DEF Heard, Tame
    <3> QED BY <1>1, <1>2, <1>3, <3>1, <3>2, <3>3 DEF seqVars, Heard, Thrown, At
  <2>2. CalmInv' /\ TurnsInv'
    BY <1>1, <1>2, StaysCalm, StaysInTurn DEF seqVars, Before, OverInv, CalmInv, Running
  <2> QED BY <1>4, <1>5, <2>1, <2>2 DEF OverInv
<1>7. CASE pc = "sense"
  <2>1. Busy' = Busy /\ Busy \in Nat
    BY <1>2, <1>7, Kinds DEF Busy, Before
  <2> QED BY <1>1, <1>2, <1>4, <1>5, <1>7, <2>1, Along DEF Running
<1> QED BY <1>2, <1>6, <1>7

\* The clock is read: what falls due is asserted, and written if it changes
\* the mask.
LEMMA OverDue == Before /\ IInv' /\ Due => OverInv'
<1> SUFFICES ASSUME Before, IInv', Due PROVE OverInv'
  OBVIOUS
<1>0. /\ SeqTypeOK /\ age \in Nat /\ wait \in Nat /\ left' \in 0 .. RoundTrip /\ Busy \in Nat
      /\ asserted \subseteq cfg.managed /\ cfg \in Config /\ Margin \in Nat
      /\ RoundTrip \in Nat /\ RoundTrip > 0 /\ LastRise \in Nat
      /\ \A ch \in cfg.managed : RiseOf(cfg, ch) \in 0 .. LastRise
  <2>1. left' \in 0 .. RoundTrip
    BY TypeParts DEF IInv, LoopTypeOK
  <2> QED BY <2>1, Kinds, Times DEF Before
<1>1. present /\ Advance /\ pc = "due" /\ test = {} /\ ~senseOnAir
      /\ UNCHANGED <<inbox, sleepLeft, disturbed, over, wait, overBand, offAge, refused>>
  BY DEF Due, At, Before, OverInv, CalmInv, worldVars, callerVars
<1>2. /\ test' = {} /\ UNCHANGED <<cfg, engineOnAir, senseOnAir, age, rxBand, applied, present>>
      /\ engineOnAir => /\ asserted' = asserted \cup {ch \in cfg.managed : age >= RiseOf(cfg, ch)}
                        /\ txBand' = txBand
  BY <1>1 DEF Advance, OnAir
<1>3. \/ pc' = "writing" /\ writing' = Want' /\ applied # Want'
      \/ pc' = "readBack" /\ applied = Want'
  BY <1>1, <1>2 DEF Due, DueAfterAdvance, StartWrite, Goto
<1>4. StepInv'
  BY <1>2, <1>3 DEF StepInv
<1>5. CalmInv' /\ TurnsInv'
  BY <1>1, <1>2, <1>3, StaysCalm, StaysInTurn DEF Running
\* A write during an over is started at a rise.
<1>6. ASSUME engineOnAir, pc' = "writing", age > 0
      PROVE  \E ch \in cfg.managed \ asserted : RiseOf(cfg, ch) = age
  <2>1. applied = Want /\ applied # Want'
    BY <1>1, <1>3, <1>6 DEF Before, OverInv, StepInv
  <2>2. asserted' # asserted
    BY <1>0, <1>1, <1>2, <1>6, <2>1, WantStays
  <2>3. PICK ch \in cfg.managed \ asserted : age >= RiseOf(cfg, ch)
    BY <1>2, <1>6, <2>2
  <2>4. RiseOf(cfg, ch) >= age + Margin
    BY <1>6, <2>3 DEF Before, OverInv, RisesInv
  <2> QED BY <1>0, <2>3, <2>4
<1>7. RisesInv'
  <2> SUFFICES ASSUME engineOnAir, NEW ch \in cfg.managed \ asserted'
               PROVE  RiseOf(cfg, ch) >= age + Margin'
    BY <1>2 DEF RisesInv, RiseOf, MaxLead
  <2>1. ch \in cfg.managed /\ RiseOf(cfg, ch) > age
    BY <1>0, <1>2
  <2>2. CASE pc' = "readBack"
    BY <1>0, <2>1, <2>2 DEF Margin
  <2>3. CASE pc' = "writing"
    <3>1. PICK first \in cfg.managed : RiseOf(cfg, first) = age
      <4>1. CASE age > 0
        BY <1>6, <2>3, <4>1
      <4>2. CASE age = 0
        BY <1>0, <2>1, <4>2, FirstRise
      <4> QED BY <1>0, <4>1, <4>2
    <3>2. RiseOf(cfg, first) + RoundTrip < RiseOf(cfg, ch)
      BY <1>0, <2>1, <3>1 DEF Before, Timely, Spaced
    <3> QED BY <1>0, <2>1, <2>3, <3>1, <3>2 DEF Margin
  <2> QED BY <1>3, <2>2, <2>3
<1>8. CallInv'
  <2> SUFFICES ASSUME over # "rx" PROVE Open' /\ (Asked' \/ Heard')
    BY <1>1 DEF CallInv
  <2>1. Open' /\ (Asked \/ Heard)
    BY <1>1, <1>3 DEF Before, OverInv, CallInv, Open
  <2>2. CASE Asked
    <3>1. Busy' =< Busy /\ Busy' \in Nat
      <4>1. Busy = 2 * RoundTrip
        BY <1>1 DEF Busy
      <4>2. PICK l \in 0 .. RoundTrip : left' = l
        BY <1>0
      <4>3. Busy' \in {l + RoundTrip, RoundTrip}
        BY <1>3, <4>2 DEF Busy
      <4> QED BY <1>0, <4>1, <4>3
    <3> QED BY <1>1, <2>1, <2>2, <3>1, StaysAsked
  <2>3. CASE Heard
    <3>1. engineOnAir /\ txBand = overBand /\ \A j \in 1 .. Len(inbox) : Tame(inbox[j])
      BY <2>3 DEF Heard
    <3>2. \A j \in 1 .. Len(inbox') : Tame(inbox[j])'
      BY <1>1, <3>1 DEF Tame
    <3>3. asserted \subseteq asserted' /\ asserted' \subseteq cfg.managed /\ txBand' = txBand
      BY <1>0, <1>2, <3>1
    <3>4. over = "lead" => (~Thrown' \/ age' = 0 => wait' + age' >= LastRise + RoundTrip)
      BY <1>1, <1>2, <2>3, <3>3 DEF Heard, Thrown
    <3>5. ASSUME over = "lead", pc' = "writing" PROVE wait' >= left'
      <4>1. CASE age = 0
        <5>1. wait + age >= LastRise + RoundTrip
          BY <2>3, <3>5, <4>1 DEF Heard
        <5> QED BY <1>0, <1>1, <4>1, <5>1
      <4>2. CASE age > 0
        <5>1. PICK ch \in cfg.managed \ asserted : RiseOf(cfg, ch) = age
          BY <1>6, <3>1, <3>5, <4>2
        <5>2. wait + age >= LastRise + RoundTrip
          BY <2>3, <3>5, <5>1 DEF Heard, Thrown
        <5>3. age =< LastRise
          BY <1>0, <5>1
        <5> QED BY <1>0, <1>1, <5>2, <5>3
      <4> QED BY <1>0, <4>1, <4>2
    <3>6. over = "tx" => Thrown' /\ applied' = Want' /\ pc' # "writing"
      <4> SUFFICES ASSUME over = "tx" PROVE Thrown' /\ applied' = Want' /\ pc' # "writing"
        OBVIOUS
      <4>1. Thrown /\ applied = Want
        BY <2>3 DEF Heard
      <4>2. asserted' = asserted
        BY <3>3, <4>1 DEF Thrown
      <4>3. Want' = Want
        BY <1>0, <1>1, <1>2, <3>3, <4>2, WantStays
      <4> QED BY <1>2, <1>3, <4>1, <4>2, <4>3 DEF Thrown
    <3>7. Heard'
      BY <1>1, <1>2, <3>1, <3>2, <3>3, <3>4, <3>5, <3>6 DEF Heard, At
    <3> QED BY <2>1, <3>7
  <2> QED BY <2>1, <2>2, <2>3
<1> QED BY <1>4, <1>5, <1>7, <1>8 DEF OverInv

\* The write is acknowledged.
LEMMA OverWritten == Before /\ IInv' /\ WriteOk => OverInv'
<1> SUFFICES ASSUME Before, IInv', WriteOk PROVE OverInv'
  OBVIOUS
<1>1. /\ pc = "writing" /\ pc' = "readBack" /\ left = 0 /\ applied' = writing
      /\ UNCHANGED <<inbox, left, over, wait, overBand, refused, disturbed>>
      /\ UNCHANGED <<cfg, engineOnAir, senseOnAir, age, asserted, rxBand, txBand, txBandPending, test,
                     present>>
  BY DEF WriteOk, OnAck, At, Goto, quietWorker, worldVars, callerVars
<1>2. Want' = Want /\ Thrown' = Thrown
  BY <1>1, WantStays, Kinds DEF Before, Thrown
<1>3. StepInv'
  <2>1. writing = Want
    BY <1>1 DEF Before, OverInv, StepInv
  <2> QED BY <1>1, <1>2, <2>1 DEF StepInv
<1>4. RisesInv'
  <2>1. Margin = 1 /\ Margin' = 1
    BY <1>1, Kinds DEF Margin, Before
  <2> QED BY <1>1, <2>1 DEF Before, OverInv, RisesInv
<1>5. CalmInv' /\ TurnsInv'
  <2>1. test = {}
    BY DEF Before, OverInv, CalmInv
  <2> QED BY <1>1, <2>1, StaysCalm, StaysInTurn DEF Running
<1>6. CallInv'
  <2> SUFFICES ASSUME over # "rx" PROVE Open' /\ (Asked' \/ Heard')
    BY <1>1 DEF CallInv
  <2>1. Open' /\ (Asked \/ Heard)
    BY <1>1 DEF Before, OverInv, CallInv, Open
  <2>2. CASE Asked
    <3>1. Busy = 0 + RoundTrip /\ Busy' = RoundTrip /\ RoundTrip \in Nat
      BY <1>1, Ticks DEF Busy
    <3> QED BY <1>1, <2>1, <2>2, <3>1, StaysAsked
  <2>3. CASE Heard
    <3>1. over # "tx"
      BY <1>1, <2>3 DEF Heard, At
    <3>2. \A j \in 1 .. Len(inbox') : Tame(inbox[j])'
      BY <1>1, <2>3 DEF Heard, Tame
    <3>3. Heard'
      BY <1>1, <1>2, <2>3, <3>1, <3>2 DEF Heard, At
    <3> QED BY <2>1, <3>3
  <2> QED BY <2>1, <2>2, <2>3
<1> QED BY <1>3, <1>4, <1>5, <1>6 DEF OverInv

\* What is believed of the board is what it holds.
LEMMA Stands ==
    ASSUME Before, applied = Want, pc # "done"
    PROVE  contacts = Want
<1>1. Want # Unknown
  BY WantTypes, UnknownAssumption, Kinds DEF Before
<1>2. ~disturbed
  BY DEF Before, OverInv, CalmInv
<1> QED BY <1>1, <1>2 DEF Before, IInv, BeliefHolds, At

\* The thread goes to sleep until the next rise, or less.
LEMMA OverSlumbers ==
    ASSUME Before, IInv', Slumber, UNCHANGED seqVars, pc \in {"readBack", "reading"}
    PROVE  OverInv'
<1>0. /\ SeqTypeOK /\ age \in Nat /\ asserted \subseteq cfg.managed /\ Busy \in Nat
      /\ \A ch \in cfg.managed : RiseOf(cfg, ch) \in Nat
  BY Kinds, LongestLead DEF Before
<1>1. /\ pc' = "sleep" /\ UNCHANGED <<inbox, over, wait, overBand, refused, disturbed>>
      /\ UNCHANGED <<cfg, engineOnAir, senseOnAir, age, asserted, rxBand, txBand, txBandPending, test,
                     present, applied>>
  BY DEF Slumber, Goto, seqVars, worldVars, callerVars
<1>2. StepInv'
  <2>1. Want' = Want
    BY <1>0, <1>1, WantStays
  <2>2. applied = Want
    BY DEF Before, OverInv, StepInv
  <2> QED BY <1>1, <2>1, <2>2 DEF StepInv
<1>3. RisesInv'
  <2> SUFFICES ASSUME engineOnAir, NEW ch \in cfg.managed \ asserted
               PROVE  RiseOf(cfg, ch) >= age + Margin'
    BY <1>1 DEF RisesInv, RiseOf, MaxLead
  <2>1. pc = "readBack"
    BY DEF Before, OverInv, TurnsInv, At
  <2>2. RiseOf(cfg, ch) >= age + 1
    BY <2>1 DEF Before, OverInv, RisesInv, Margin
  <2>3. RiseOf(cfg, ch) - age \in ChangesIn
    <3>1. RiseOf(cfg, ch) > age /\ OnAir
      BY <1>0, <2>2 DEF OnAir
    <3> QED BY <3>1 DEF ChangesIn
  <2>4. PICK t \in Nat : sleepLeft' = t
    BY TypeParts, Ticks DEF IInv, LoopTypeOK
  <2>5. t =< RiseOf(cfg, ch) - age
    BY <1>0, <2>3, <2>4, SleepTypes
  <2>6. Margin' = t
    BY <1>1, <2>4 DEF Margin
  <2> QED BY <1>0, <2>5, <2>6
<1>4. Busy' =< Busy
  BY <1>0, <1>1 DEF Busy
<1> QED BY <1>1, <1>2, <1>3, <1>4, Along DEF Running

\* The board is asked, or told again, in receive only, and agrees.
LEMMA OverResting ==
    Before /\ IInv' /\ (StartReadBack \/ SkipReadBack \/ ReadBack \/ RestateBoard) => OverInv'
<1> SUFFICES ASSUME Before, IInv', StartReadBack \/ SkipReadBack \/ ReadBack \/ RestateBoard
             PROVE  OverInv'
  OBVIOUS
<1>1. CASE StartReadBack
  <2>1. /\ pc = "readBack" /\ pc' = "reading" /\ left' = RoundTrip /\ ~engineOnAir
        /\ UNCHANGED <<seqVars, inbox, over, wait, overBand, refused, disturbed>>
    BY <1>1 DEF StartReadBack, At, Goto, OnAir, worldVars, callerVars
  <2>2. Busy = RoundTrip /\ Busy' = RoundTrip /\ RoundTrip \in Nat
    BY <2>1, Ticks DEF Busy
  <2>3. RisesInv'
    BY <2>1 DEF RisesInv, seqVars
  <2>4. StepInv'
    <3>1. Want' = Want /\ applied' = applied
      BY <2>1, WantStays, Kinds DEF seqVars, Before
    <3> QED BY <2>1, <3>1 DEF StepInv, Before, OverInv
  <2> QED BY <2>1, <2>2, <2>3, <2>4, Along DEF Running
<1>2. CASE SkipReadBack
  BY <1>2, OverSlumbers DEF SkipReadBack, At
<1>3. CASE ReadBack
  <2>1. pc = "reading"
    BY <1>3 DEF ReadBack, At
  <2>2. applied = Want
    BY <2>1 DEF Before, OverInv, StepInv
  <2>3. contacts = Want
    BY <2>1, <2>2, Stands
  <2> QED BY <1>3, <2>1, <2>3, OverSlumbers DEF ReadBack
<1>4. CASE RestateBoard
  BY <1>4, OverSlumbers DEF RestateBoard, At
<1> QED BY <1>1, <1>2, <1>3, <1>4

\* The way out is taken in receive.
LEMMA OverClosing == Before /\ IInv' /\ (TakeShutdown \/ StandDown) => OverInv'
<1> SUFFICES ASSUME Before, IInv', TakeShutdown \/ StandDown PROVE OverInv'
  OBVIOUS
<1>0. inbox \in Seq(Ctrl)
  BY Kinds DEF Before
<1>1. /\ UNCHANGED <<cfg, engineOnAir, senseOnAir, age, asserted, rxBand, txBand, test, present>>
      /\ UNCHANGED <<over, refused, disturbed>>
      /\ pc' \in {"standDown", "done"}
  BY DEF TakeShutdown, StandDown, Goto, seqVars, worldVars, callerVars
<1>2. \/ inbox # <<>> /\ inbox' = Tail(inbox) /\ inbox[1].op = "shutdown"
      \/ inbox' = inbox /\ pc = "standDown"
  <2>1. CASE TakeShutdown
    BY <1>0, <2>1, Popped DEF TakeShutdown, Message
  <2>2. CASE StandDown
    BY <2>2 DEF StandDown, At
  <2> QED BY <2>1, <2>2
<1>3. ~engineOnAir
  <2>1. CASE pc = "standDown"
    BY <2>1 DEF Before, OverInv, TurnsInv, Running
  <2>2. CASE inbox # <<>> /\ inbox[1].op = "shutdown"
    BY <2>2, FirstTurn DEF NeedsOff
  <2> QED BY <1>2, <2>1, <2>2
<1>4. over = "rx"
  <2> SUFFICES ASSUME over # "rx" PROVE FALSE
    OBVIOUS
  <2>1. Open
    BY DEF Before, OverInv, CallInv
  <2>2. CASE pc = "standDown"
    BY <2>1, <2>2 DEF Open
  <2>3. CASE inbox # <<>> /\ inbox[1].op = "shutdown"
    <3>1. inbox[1] = Shutdown /\ 1 \in DOMAIN inbox
      <4>1. inbox[1] \in Ctrl /\ 1 \in 1 .. Len(inbox)
        BY <1>0, <2>3
      <4> QED BY <1>0, <2>3, <4>1 DEF Ctrl, Key, Abort, Shutdown, RxBand, TxBand, Test, Adopt
    <3> QED BY <2>1, <3>1 DEF Open
  <2> QED BY <1>2, <2>2, <2>3
<1>5. CASE inbox' = inbox
  <2>1. CalmInv' /\ TurnsInv'
    <3>1. test = {}
      BY DEF Before, OverInv, CalmInv
    <3> QED BY <1>1, <1>3, <1>5, <3>1, StaysCalm, StaysInTurn
  <2> QED BY <1>1, <1>3, <1>4, <2>1 DEF OverInv, CallInv, RisesInv, StepInv
<1>6. CASE inbox # <<>> /\ inbox' = Tail(inbox) /\ inbox[1].op = "shutdown"
  <2>0. /\ Len(inbox) \in Nat \ {0} /\ Len(inbox') = Len(inbox) - 1
        /\ \A i \in 1 .. Len(inbox') : i + 1 \in 1 .. Len(inbox) /\ inbox'[i] = inbox[i + 1]
    BY <1>0, <1>6, Popped
  <2>1. CalmInv'
    BY <1>1, <2>0 DEF Before, OverInv, CalmInv
  <2>2. \A i \in 1 .. Len(inbox) : OffBefore(i + 1) => OffBefore(i)'
    <3>1. ~Presses(1) /\ ~Releases(1)
      BY <1>6, Ops DEF Presses, Releases
    <3> QED BY <1>0, <1>1, <1>6, <3>1, OffNearer
  <2>3. \A i \in 1 .. Len(inbox') : NeedsOff(inbox[i])' => OffBefore(i)'
    <3> SUFFICES ASSUME NEW i \in 1 .. Len(inbox'), NeedsOff(inbox[i])' PROVE OffBefore(i)'
      OBVIOUS
    <3>1. NeedsOff(inbox[i + 1])
      BY <2>0 DEF NeedsOff, Key
    <3>2. OffBefore(i + 1) /\ i \in 1 .. Len(inbox)
      BY <2>0, <3>1 DEF Before, OverInv, TurnsInv
    <3> QED BY <2>2, <3>2
  <2>4. OffBefore(Len(inbox) + 1)'
    <3>1. PICK n \in 1 .. Len(inbox) : n = Len(inbox)
      BY <2>0
    <3>2. OffBefore(n + 1)
      BY <1>4, <3>1 DEF Before, OverInv, TurnsInv
    <3>3. OffBefore(n)' /\ Len(inbox') + 1 = n
      BY <2>0, <2>2, <3>1, <3>2
    <3> QED BY <3>3 DEF OffBefore
  <2>5. \A i \in 1 .. Len(inbox') : inbox'[i] = Abort => refused'
    <3>1. \A i \in 1 .. Len(inbox) : inbox[i] = Abort => refused
      BY DEF Before, OverInv, TurnsInv
    <3> QED BY <1>1, <2>0, <3>1
  <2>6. TurnsInv'
    BY <1>1, <1>3, <2>3, <2>4, <2>5 DEF TurnsInv
  <2> QED BY <1>1, <1>3, <1>4, <2>1, <2>6 DEF OverInv, CallInv, RisesInv, StepInv
<1> QED BY <1>2, <1>5, <1>6

----------------------------------------------------------------------------
(* The caller.                                                             *)

\* What the caller does leaves the loop and its schedule where they are.
LEMMA Aside ==
    ASSUME Before, UNCHANGED <<seqVars, pc, left, writing, sleepLeft>>
    PROVE  /\ RisesInv' /\ StepInv' /\ Busy' = Busy
           /\ Want' = Want /\ Thrown' = Thrown /\ Upcoming' = Upcoming
           /\ UNCHANGED <<cfg, engineOnAir, senseOnAir, age, asserted, rxBand, txBand, txBandPending,
                          applied, test, present>>
<1>1. UNCHANGED <<cfg, engineOnAir, senseOnAir, age, asserted, rxBand, txBand, txBandPending, applied,
                  test, present>>
  BY DEF seqVars
<1>2. Want' = Want /\ Thrown' = Thrown /\ Upcoming' = Upcoming
  BY <1>1, WantStays, Kinds DEF Before, Thrown, Upcoming
<1>3. Margin' = Margin /\ Busy' = Busy
  BY DEF Margin, Busy
<1>4. RisesInv'
  BY <1>1, <1>3 DEF Before, OverInv, RisesInv, RiseOf, MaxLead
<1>5. StepInv'
  BY <1>1, <1>2 DEF Before, OverInv, StepInv
<1> QED BY <1>1, <1>2, <1>3, <1>4, <1>5

\* What is sent takes its turn: a key-down behind no other, and an over ends
\* with a release.
LEMMA TurnsWhenSending ==
    ASSUME Before, NEW msgs \in Seq(Ctrl), Send(msgs), UNCHANGED <<engineOnAir, pc>>,
           refused => refused',
           \A i \in 1 .. Len(msgs) :
              /\ NeedsOff(msgs[i]) => over = "rx" /\ \A j \in 1 .. i - 1 : msgs[j] # Key(TRUE)
              /\ msgs[i] = Abort => refused'
              /\ over' = "rx" => msgs[i] # Key(TRUE),
           over' = "rx" => over = "rx" \/ (Len(msgs) >= 1 /\ msgs[1] \in {Key(FALSE), Abort})
    PROVE  TurnsInv'
<1>0. PICK n \in Nat : n = Len(inbox)
  BY Kinds DEF Before
<1>1. /\ inbox \in Seq(Ctrl) /\ inbox' = inbox \o msgs /\ n \in Nat /\ Len(msgs) \in Nat
      /\ Len(inbox') = n + Len(msgs)
      /\ \A i \in 1 .. n : inbox'[i] = inbox[i]
      /\ \A i \in 1 .. Len(msgs) : inbox'[n + i] = msgs[i]
  <2>1. inbox \in Seq(Ctrl) /\ inbox' = inbox \o msgs
    BY Kinds DEF Send, Before
  <2> QED BY <1>0, <2>1, Pushed
<1>2. \A i \in 1 .. n + 1 : OffBefore(i) => OffBefore(i)'
  BY <1>0, <1>1, OffInFront
<1>3. \A i \in 1 .. n : (Releases(i)' <=> Releases(i)) /\ (Presses(i)' <=> Presses(i))
  BY <1>1 DEF Releases, Presses, Key, Abort
<1>4. \A i \in 1 .. Len(msgs) : /\ Presses(n + i)' <=> msgs[i] = Key(TRUE)
                                /\ Releases(n + i)' <=> msgs[i] \in {Key(FALSE), Abort}
  BY <1>1 DEF Releases, Presses, Key, Abort
<1>5. /\ \A i \in 1 .. n : NeedsOff(inbox[i]) => OffBefore(i)
      /\ over = "rx" => OffBefore(n + 1)
      /\ ~Running \/ At("reading") => ~engineOnAir
      /\ \A i \in 1 .. n : inbox[i] = Abort => refused
  BY <1>0 DEF Before, OverInv, TurnsInv
<1>6. ASSUME NEW i \in 1 .. Len(msgs) + 1, over = "rx", \A j \in 1 .. i - 1 : msgs[j] # Key(TRUE)
      PROVE  OffBefore(n + i)'
  <2>1. OffBefore(n + 1)
    BY <1>5, <1>6
  <2>2. engineOnAir' => \E j \in 1 .. n : Releases(j)'
    BY <1>1, <1>3, <2>1 DEF OffBefore
  <2>3. \A p \in 1 .. n : Presses(p)' => \E j \in p + 1 .. n : Releases(j)'
    BY <1>1, <1>3, <2>1 DEF OffBefore
  <2>4. ASSUME NEW p \in n + 1 .. (n + i) - 1 PROVE ~Presses(p)'
    <3>1. p - n \in 1 .. Len(msgs) /\ p - n \in 1 .. i - 1 /\ n + (p - n) = p
      BY <1>1
    <3> QED BY <1>4, <1>6, <3>1
  <2>5. n =< (n + i) - 1
    BY <1>1
  <2>6. engineOnAir' => \E j \in 1 .. (n + i) - 1 : Releases(j)'
    BY <1>1, <2>2, <2>5
  <2>7. \A p \in 1 .. (n + i) - 1 : Presses(p)' => \E j \in p + 1 .. (n + i) - 1 : Releases(j)'
    BY <1>1, <2>3, <2>4, <2>5
  <2> QED BY <1>1, <2>6, <2>7 DEF OffBefore
<1>7. ASSUME NEW i \in 1 .. Len(inbox'), NeedsOff(inbox[i])' PROVE OffBefore(i)'
  <2>1. CASE i =< n
    <3>1. NeedsOff(inbox[i]) /\ i \in 1 .. n
      BY <1>1, <1>7, <2>1 DEF NeedsOff, Key
    <3>2. OffBefore(i)
      BY <1>5, <3>1
    <3>3. i \in 1 .. n + 1
      BY <1>1, <3>1
    <3> QED BY <1>2, <3>2, <3>3
  <2>2. CASE i > n
    <3>1. PICK j \in 1 .. Len(msgs) : i = n + j
      <4>1. i - n \in 1 .. Len(msgs) /\ i = n + (i - n)
        BY <1>1, <2>2
      <4> QED BY <4>1
    <3>2. NeedsOff(msgs[j])
      BY <1>1, <1>7, <3>1 DEF NeedsOff, Key
    <3>3. j \in 1 .. Len(msgs) + 1 /\ over = "rx" /\ \A m \in 1 .. j - 1 : msgs[m] # Key(TRUE)
      <4>1. j \in 1 .. Len(msgs) + 1
        BY ONLY <1>1, j \in 1 .. Len(msgs)
      <4> QED BY <3>2, <4>1, Zenon
    <3>4. OffBefore(n + j)'
      BY <1>6, <3>3
    <3> QED BY <3>1, <3>4 DEF OffBefore
  <2> QED BY <1>1, <2>1, <2>2
<1>8. over' = "rx" => OffBefore(Len(inbox) + 1)'
  <2> SUFFICES ASSUME over' = "rx" PROVE OffBefore(Len(inbox) + 1)'
    OBVIOUS
  <2>0. PICK l \in Nat : l = Len(inbox') + 1 /\ l = n + Len(msgs) + 1
    BY <1>1
  <2>1. OffBefore(l)'
    <3>1. CASE over = "rx"
      <4>1. Len(msgs) + 1 \in 1 .. Len(msgs) + 1 /\ n + (Len(msgs) + 1) = l
        BY <1>1, <2>0
      <4>2. PICK i \in 1 .. Len(msgs) + 1 : i = Len(msgs) + 1
        BY <4>1
      <4>a. \A m \in 1 .. i - 1 : msgs[m] # Key(TRUE)
        <5>1. \A m \in 1 .. i - 1 : m \in 1 .. Len(msgs)
          BY ONLY <1>1, <4>2
        <5> QED BY <5>1, Zenon
      <4>3. OffBefore(n + i)'
        BY <1>6, <3>1, <4>a
      <4> QED BY <4>1, <4>2, <4>3 DEF OffBefore
    <3>2. CASE Len(msgs) >= 1 /\ msgs[1] \in {Key(FALSE), Abort}
      <4>0. 1 \in 1 .. Len(msgs)
        BY <1>1, <3>2
      <4>1. Releases(n + 1)' /\ n + 1 =< l - 1
        <5>1. n + 1 =< l - 1
          BY ONLY <1>1, <2>0, <3>2
        <5>2. Releases(n + 1)'
          BY <1>4, <3>2, <4>0, Zenon
        <5> QED BY <5>1, <5>2
      <4>2. ASSUME NEW p \in n + 1 .. l - 1 PROVE ~Presses(p)'
        <5>1. p - n \in 1 .. Len(msgs) /\ n + (p - n) = p
          BY <1>1, <2>0
        <5> QED BY <1>4, <5>1
      <4>3. engineOnAir' => \E j \in 1 .. l - 1 : Releases(j)'
        BY <1>1, <4>1
      <4>4. \A p \in 1 .. l - 1 : Presses(p)' => \E j \in p + 1 .. l - 1 : Releases(j)'
        BY <1>1, <4>1, <4>2
      <4> QED BY <4>3, <4>4 DEF OffBefore
    <3> QED BY <3>1, <3>2
  <2> QED BY <2>0, <2>1 DEF OffBefore
<1>9. \A i \in 1 .. Len(inbox') : inbox'[i] = Abort => refused'
  <2> SUFFICES ASSUME NEW i \in 1 .. Len(inbox'), inbox'[i] = Abort PROVE refused'
    OBVIOUS
  <2>1. CASE i =< n
    BY <1>1, <1>5, <2>1
  <2>2. CASE i > n
    <3>1. i - n \in 1 .. Len(msgs) /\ n + (i - n) = i
      BY <1>1, <2>2
    <3> QED BY <1>1, <3>1
  <2> QED BY <1>1, <2>1, <2>2
<1>10. ~Running' \/ At("reading")' => ~engineOnAir'
  BY <1>5 DEF Running, At
<1> QED BY <1>7, <1>8, <1>9, <1>10 DEF TurnsInv, Abort

\* What is sent keeps the calm, and the channel open unless it is closed.
LEMMA CalmWhenSending ==
    ASSUME Before, NEW msgs \in Seq(Ctrl), Send(msgs), UNCHANGED <<senseOnAir, test, present, disturbed>>,
           \A i \in 1 .. Len(msgs) : /\ msgs[i].op # "test"
                                     /\ msgs[i].op = "rxBand" => "rxTune" \in Happens
    PROVE  CalmInv'
<1>1. /\ Len(inbox') = Len(inbox) + Len(msgs) /\ Len(inbox) \in Nat /\ Len(msgs) \in Nat
      /\ \A i \in 1 .. Len(inbox) : inbox'[i] = inbox[i]
      /\ \A i \in 1 .. Len(msgs) : inbox'[Len(inbox) + i] = msgs[i]
  BY Pushed, Kinds DEF Send, Before
<1>2. ASSUME NEW i \in 1 .. Len(inbox')
      PROVE  inbox'[i].op # "test" /\ (inbox'[i].op = "rxBand" => "rxTune" \in Happens)
  <2>1. CASE i =< Len(inbox)
    BY <1>1, <2>1 DEF Before, OverInv, CalmInv
  <2>2. CASE i > Len(inbox)
    <3>1. i - Len(inbox) \in 1 .. Len(msgs) /\ Len(inbox) + (i - Len(inbox)) = i
      BY <1>1, <2>2
    <3> QED BY <1>1, <3>1
  <2> QED BY <1>1, <2>1, <2>2
<1> QED BY <1>2 DEF Before, OverInv, CalmInv

LEMMA OpenWhenSending ==
    ASSUME Before, NEW msgs \in Seq(Ctrl), Send(msgs), UNCHANGED pc,
           \A i \in 1 .. Len(msgs) : msgs[i] # Shutdown
    PROVE  Open'
<1>1. /\ Len(inbox') = Len(inbox) + Len(msgs) /\ Len(inbox) \in Nat /\ Len(msgs) \in Nat
      /\ \A i \in 1 .. Len(inbox) : inbox'[i] = inbox[i]
      /\ \A i \in 1 .. Len(msgs) : inbox'[Len(inbox) + i] = msgs[i]
      /\ inbox' \in Seq(Ctrl) /\ inbox \in Seq(Ctrl)
  BY Pushed, Kinds DEF Send, Before
<1>2. ASSUME NEW i \in DOMAIN inbox' PROVE inbox'[i] # Shutdown
  <2>0. i \in 1 .. Len(inbox')
    BY <1>1
  <2>1. CASE i =< Len(inbox)
    <3>1. i \in DOMAIN inbox
      BY <1>1, <2>0, <2>1
    <3> QED BY <1>1, <2>0, <2>1, <3>1 DEF Send, Open
  <2>2. CASE i > Len(inbox)
    <3>1. i - Len(inbox) \in 1 .. Len(msgs) /\ Len(inbox) + (i - Len(inbox)) = i
      BY <1>1, <2>0, <2>2
    <3> QED BY <1>1, <3>1
  <2> QED BY <2>0, <1>1, <2>1, <2>2
<1> QED BY <1>2 DEF Send, Open


\* What over_ended appends is at most a band.
LEMMA AfterEvery == AfterOver = <<>> \/ \E b \in Band : AfterOver = <<TxBand(b)>>
BY SenseBandAssumption DEF AfterOver, MaybeBand

\* One message, and one behind another.
LEMMA OneOrTwo ==
    ASSUME NEW S, NEW x \in S, NEW y \in S
    PROVE  /\ <<x>> \in Seq(S) /\ Len(<<x>>) = 1 /\ <<x>>[1] = x
           /\ <<x>> \o <<>> = <<x>>
           /\ <<x>> \o <<y>> \in Seq(S) /\ Len(<<x>> \o <<y>>) = 2
           /\ (<<x>> \o <<y>>)[1] = x /\ (<<x>> \o <<y>>)[2] = y
           /\ <<x, y>> \in Seq(S) /\ Len(<<x, y>>) = 2 /\ <<x, y>>[1] = x /\ <<x, y>>[2] = y
<1>1. /\ <<x>> \in Seq(S) /\ Len(<<x>>) = 1 /\ <<x>>[1] = x
      /\ <<y>> \in Seq(S) /\ Len(<<y>>) = 1 /\ <<y>>[1] = y
  OBVIOUS
<1>2. <<x>> \o <<>> = <<x>>
  OBVIOUS
<1>3. /\ <<x>> \o <<y>> \in Seq(S) /\ Len(<<x>> \o <<y>>) = 2
      /\ (<<x>> \o <<y>>)[1] = x /\ (<<x>> \o <<y>>)[2] = y
  <2>1. ASSUME NEW s \in Seq(S), NEW t \in Seq(S), Len(s) = 1, Len(t) = 1
        PROVE  s \o t \in Seq(S) /\ Len(s \o t) = 2 /\ (s \o t)[1] = s[1] /\ (s \o t)[2] = t[1]
    <3>1. /\ s \o t \in Seq(S) /\ Len(s \o t) = Len(s) + Len(t)
          /\ \A i \in 1 .. Len(s) : (s \o t)[i] = s[i]
          /\ \A i \in 1 .. Len(t) : (s \o t)[Len(s) + i] = t[i]
      OBVIOUS
    <3>2. 1 + 1 = 2 /\ 1 \in 1 .. 1
      OBVIOUS
    <3> QED BY <2>1, <3>1, <3>2, Zenon
  <2>2. /\ <<x>> \o <<y>> \in Seq(S) /\ Len(<<x>> \o <<y>>) = 2
        /\ (<<x>> \o <<y>>)[1] = <<x>>[1] /\ (<<x>> \o <<y>>)[2] = <<y>>[1]
    BY <1>1, <2>1, Zenon
  <2> QED BY <1>1, <2>2, Zenon
<1>4. <<x, y>> \in Seq(S) /\ Len(<<x, y>>) = 2 /\ <<x, y>>[1] = x /\ <<x, y>>[2] = y
  OBVIOUS
<1> QED BY <1>1, <1>2, <1>3, <1>4, Zenon

\* A release, and the sense band behind it.
LEMMA Ending ==
    ASSUME NEW m \in {Key(FALSE), Abort}, NEW msgs, msgs = <<m>> \o AfterOver
    PROVE  /\ msgs \in Seq(Ctrl) /\ Len(msgs) >= 1 /\ msgs[1] = m
           /\ \A i \in 1 .. Len(msgs) : msgs[i] = m \/ msgs[i].op = "txBand"
<1>1. m \in Ctrl
  BY Messages
<1>2. CASE AfterOver = <<>>
  <2>1. msgs = <<m>> /\ msgs \in Seq(Ctrl) /\ Len(msgs) = 1 /\ msgs[1] = m
    <3>1. <<m>> \o <<>> = <<m>> /\ <<m>> \in Seq(Ctrl) /\ Len(<<m>>) = 1 /\ <<m>>[1] = m
      BY <1>1, OneOrTwo
    <3> QED BY <1>2, <3>1, Zenon
  <2>2. \A i \in 1 .. 1 : i = 1
    OBVIOUS
  <2>3. Len(msgs) >= 1
    BY <2>1
  <2> QED BY <2>1, <2>2, <2>3, Zenon
<1>3. ASSUME NEW b \in Band, AfterOver = <<TxBand(b)>>
      PROVE  /\ msgs \in Seq(Ctrl) /\ Len(msgs) >= 1 /\ msgs[1] = m
             /\ \A i \in 1 .. Len(msgs) : msgs[i] = m \/ msgs[i].op = "txBand"
  <2>1. /\ msgs \in Seq(Ctrl) /\ Len(msgs) = 2
        /\ msgs[1] = m /\ msgs[2] = TxBand(b)
    <3>1. TxBand(b) \in Ctrl
      BY Messages
    <3>2. /\ <<m>> \o <<TxBand(b)>> \in Seq(Ctrl) /\ Len(<<m>> \o <<TxBand(b)>>) = 2
          /\ (<<m>> \o <<TxBand(b)>>)[1] = m /\ (<<m>> \o <<TxBand(b)>>)[2] = TxBand(b)
      BY <1>1, <3>1, OneOrTwo
    <3> QED BY <1>3, <3>2, Zenon
  <2>2. TxBand(b).op = "txBand"
    BY Ops
  <2>3. \A i \in 1 .. 2 : i = 1 \/ i = 2
    OBVIOUS
  <2>4. Len(msgs) >= 1
    BY <2>1
  <2> QED BY <2>1, <2>2, <2>3, <2>4, Zenon
<1> QED BY <1>2, <1>3, AfterEvery

\* A band sent during an over changes nothing about it.
LEMMA CallWhenSending ==
    ASSUME Before, NEW msgs \in Seq(Ctrl), Send(msgs),
           UNCHANGED <<seqVars, pc, left, writing, sleepLeft, over, wait, overBand>>,
           \A i \in 1 .. Len(msgs) : Tame(msgs[i])
    PROVE  CallInv'
<1>0. PICK n \in Nat : n = Len(inbox)
  BY Kinds DEF Before
<1>1. /\ Len(inbox') = n + Len(msgs) /\ Len(msgs) \in Nat
      /\ \A i \in 1 .. n : inbox'[i] = inbox[i]
      /\ \A i \in 1 .. Len(msgs) : inbox'[n + i] = msgs[i]
  BY <1>0, Pushed, Kinds DEF Send, Before
<1>2. ASSUME NEW k \in 0 .. n, \A j \in k + 1 .. n : Tame(inbox[j])
      PROVE  \A j \in k + 1 .. Len(inbox') : Tame(inbox[j])'
  <2> SUFFICES ASSUME NEW j \in k + 1 .. Len(inbox') PROVE Tame(inbox[j])'
    OBVIOUS
  <2>1. CASE j =< n
    BY <1>1, <1>2, <2>1 DEF Tame
  <2>2. CASE j > n
    <3>1. j - n \in 1 .. Len(msgs) /\ n + (j - n) = j
      BY <1>1, <2>2
    <3> QED BY <1>1, <3>1 DEF Tame
  <2> QED BY <1>1, <2>1, <2>2
<1> SUFFICES ASSUME over # "rx" PROVE Open' /\ (Asked' \/ Heard')
  BY DEF CallInv
<1>3. Open'
  <2>1. \A i \in 1 .. Len(msgs) : msgs[i] # Shutdown
    BY Ops DEF Tame
  <2> QED BY <2>1, OpenWhenSending
<1>4. CASE Asked
  <2>1. PICK k \in 1 .. n : Underway(k)
    BY <1>0, <1>4 DEF Asked
  <2>2. Presses(k)' /\ k \in 1 .. Len(inbox')
    BY <1>1, <2>1 DEF Underway, Presses, Key
  <2>3. \A j \in k + 1 .. Len(inbox') : Tame(inbox[j])'
    BY <1>0, <1>2, <2>1 DEF Underway
  <2>4. Upcoming' = Upcoming /\ Busy' = Busy
    BY Aside
  <2>5. \/ k > 1 /\ inbox'[k - 1] = TxBand(overBand)
        \/ k = 1 /\ pc' = "drain" /\ Upcoming' = overBand
    BY <1>1, <2>1, <2>4 DEF Underway, At
  <2>6. Underway(k)'
    BY <2>2, <2>3, <2>5 DEF Underway, At, TxBand
  <2>7. Asked'
    BY <1>4, <2>2, <2>4, <2>6 DEF Asked
  <2> QED BY <1>3, <2>7
<1>5. CASE Heard
  <2>1. \A j \in 1 .. Len(inbox') : Tame(inbox[j])'
    <3>1. \A j \in 0 + 1 .. n : Tame(inbox[j])
      BY <1>0, <1>5 DEF Heard
    <3> QED BY <1>2, <3>1
  <2>2. Heard'
    BY <1>5, <2>1, Aside DEF Heard, At
  <2> QED BY <1>3, <2>2
<1> QED BY <1>4, <1>5 DEF Before, OverInv, CallInv

\* Nothing of an over is under way in receive.
LEMMA CallInReceive == ASSUME over' = "rx" PROVE CallInv'
BY DEF CallInv


\* The key-down: its band and itself go to the back of the channel, and the
\* wait covers whatever the worker is at.
LEMMA OverKeyDown == Before /\ KeyDown => OverInv'
<1> SUFFICES ASSUME Before, KeyDown PROVE OverInv'
  OBVIOUS
<1>1. PICK b \in Band : Send(<<TxBand(b), Key(TRUE)>>) /\ overBand' = b
  BY DEF KeyDown
<1>2. /\ over = "rx" /\ over' = "lead"
      /\ wait' = Smaller(MaxLead(cfg) + RoundTrip, MAX_TR_LEAD)
      /\ UNCHANGED <<seqVars, pc, left, writing, sleepLeft, disturbed, refused>>
  BY DEF KeyDown, quietWorker, worldVars
<1>3. PICK msgs \in Seq(Ctrl) : /\ Send(msgs) /\ Len(msgs) = 2
                               /\ msgs[1] = TxBand(b) /\ msgs[2] = Key(TRUE)
  <2>1. TxBand(b) \in Ctrl /\ Key(TRUE) \in Ctrl
    BY Messages
  <2>2. /\ <<TxBand(b), Key(TRUE)>> \in Seq(Ctrl) /\ Len(<<TxBand(b), Key(TRUE)>>) = 2
        /\ <<TxBand(b), Key(TRUE)>>[1] = TxBand(b) /\ <<TxBand(b), Key(TRUE)>>[2] = Key(TRUE)
    BY <2>1, OneOrTwo
  <2> QED BY <1>1, <2>2, Zenon
<1>4. /\ msgs[1].op = "txBand" /\ msgs[1] # Key(TRUE) /\ msgs[1] # Abort
      /\ msgs[2].op = "key" /\ msgs[2] # Abort /\ msgs[2] = Key(TRUE) /\ ~NeedsOff(msgs[1])
  BY <1>3, Ops DEF NeedsOff
<1>5. \A i \in 1 .. Len(msgs) : i = 1 \/ i = 2
  BY <1>3
<1>6. UNCHANGED <<cfg, engineOnAir, senseOnAir, age, asserted, rxBand, txBand, txBandPending,
                  applied, test, present>>
  BY <1>2, Aside
<1>7. TurnsInv'
  <2>1. ASSUME NEW i \in 1 .. Len(msgs)
        PROVE  /\ NeedsOff(msgs[i]) => over = "rx" /\ \A j \in 1 .. i - 1 : msgs[j] # Key(TRUE)
               /\ msgs[i] = Abort => refused'
               /\ over' = "rx" => msgs[i] # Key(TRUE)
    <3>1. \A j \in 1 .. 2 - 1 : j = 1
      OBVIOUS
    <3> QED BY <1>2, <1>4, <1>5, <3>1
  <2> QED BY <1>2, <1>3, <1>6, <2>1, TurnsWhenSending
<1>8. CalmInv'
  <2>1. \A i \in 1 .. Len(msgs) : msgs[i].op # "test" /\ (msgs[i].op = "rxBand" => "rxTune" \in Happens)
    BY <1>4, <1>5
  <2> QED BY <1>2, <1>3, <1>6, <2>1, CalmWhenSending
<1>9. Open'
  <2>1. \A i \in 1 .. Len(msgs) : msgs[i] # Shutdown
    BY <1>4, <1>5, Ops
  <2> QED BY <1>2, <1>3, <2>1, OpenWhenSending
<1>10. Asked'
  <2>1. PICK k \in Nat : k = Len(inbox) + 2 /\ k = Len(inbox')
    <3>1. Len(inbox') = Len(inbox) + Len(msgs) /\ Len(inbox) \in Nat
      BY <1>3, Pushed, Kinds DEF Send, Before
    <3>2. PICK n \in Nat : n = Len(inbox)
      BY <3>1
    <3>3. n + 2 \in Nat /\ n + 2 = Len(inbox')
      BY <1>3, <3>1, <3>2
    <3> QED BY <3>2, <3>3
  <2>2. inbox'[k - 1] = TxBand(b) /\ inbox'[k] = Key(TRUE) /\ k > 1
    <3>1. /\ Len(inbox) \in Nat
          /\ \A i \in 1 .. Len(msgs) : inbox'[Len(inbox) + i] = msgs[i]
      BY <1>3, Pushed, Kinds DEF Send, Before
    <3>2. k = Len(inbox) + 2 /\ k - 1 = Len(inbox) + 1 /\ k > 1 /\ 1 \in 1 .. 2 /\ 2 \in 1 .. 2
      BY <2>1, <3>1
    <3>3. inbox'[Len(inbox) + 1] = TxBand(b) /\ inbox'[Len(inbox) + 2] = Key(TRUE)
      BY <1>3, <3>1, <3>2, Zenon
    <3> QED BY <3>2, <3>3
  <2>3. \A j \in k + 1 .. Len(inbox') : Tame(inbox[j])'
    BY <2>1
  <2>4. Presses(k)'
    BY <2>2 DEF Presses, Key
  <2>5. Underway(k)'
    <3>1. inbox'[k - 1] = TxBand(overBand')
      BY <1>1, <2>2
    <3> QED BY <2>2, <2>3, <2>4, <3>1 DEF Underway, TxBand
  <2>6. k \in 1 .. Len(inbox')
    BY <2>1, <2>2
  <2>7. wait' >= Busy' + LastRise + RoundTrip
    <3>1. Busy' = Busy /\ Busy =< 2 * RoundTrip
      <4>1. left \in 0 .. RoundTrip /\ RoundTrip \in Nat
        BY Kinds DEF Before
      <4> QED BY <1>2, <4>1, Aside DEF Busy
    <3>2. /\ LastRise + 3 * RoundTrip =< Smaller(MaxLead(cfg) + RoundTrip, MAX_TR_LEAD)
          /\ LastRise \in Nat /\ RoundTrip \in Nat
      BY Times, Kinds DEF Before
    <3>3. PICK w \in Nat : wait' = w /\ w = Smaller(MaxLead(cfg) + RoundTrip, MAX_TR_LEAD)
      <4>1. MaxLead(cfg) \in Nat /\ RoundTrip \in Nat /\ MAX_TR_LEAD \in Nat
        BY LongestLead, Kinds, Ticks DEF Before
      <4> QED BY <1>2, <4>1 DEF Smaller
    <3>4. Busy \in Nat
      BY Kinds DEF Before
    <3> QED BY <3>1, <3>2, <3>3, <3>4
  <2> QED BY <1>2, <2>5, <2>6, <2>7 DEF Asked
<1> QED BY <1>2, <1>7, <1>8, <1>9, <1>10, Aside DEF OverInv, CallInv

\* A release, at the end of an over or of a lead that came to nothing.
LEMMA OverEnding ==
    ASSUME Before, NEW m \in {Key(FALSE), Abort}, Send(<<m>> \o AfterOver),
           UNCHANGED <<seqVars, pc, left, writing, sleepLeft, disturbed>>,
           over # "rx", over' = "rx", refused => refused', m = Abort => refused'
    PROVE  OverInv'
<1>1. PICK msgs : msgs = <<m>> \o AfterOver
  OBVIOUS
<1>2. /\ msgs \in Seq(Ctrl) /\ Len(msgs) >= 1 /\ msgs[1] = m /\ Send(msgs)
      /\ \A i \in 1 .. Len(msgs) : msgs[i] = m \/ msgs[i].op = "txBand"
  <2>1. Send(msgs)
    BY <1>1
  <2> QED BY <1>1, <2>1, Ending
<1>3. m.op \in {"key", "abort"} /\ m # Key(TRUE)
  BY Ops
<1>4. ASSUME NEW i \in 1 .. Len(msgs)
      PROVE  /\ ~NeedsOff(msgs[i]) /\ msgs[i] # Key(TRUE) /\ (msgs[i] = Abort => refused')
             /\ msgs[i].op # "test" /\ msgs[i].op # "rxBand"
  <2>1. msgs[i].op \in {"key", "abort", "txBand"} /\ msgs[i] # Key(TRUE)
    BY <1>2, <1>3, Ops
  <2>2. msgs[i] = Abort => refused'
    BY <1>2, Ops
  <2> QED BY <2>1, <2>2 DEF NeedsOff
<1>5. /\ UNCHANGED <<engineOnAir, senseOnAir, test, present>> /\ RisesInv' /\ StepInv'
  BY Aside
<1>6. TurnsInv'
  <2>1. msgs[1] \in {Key(FALSE), Abort}
    BY <1>2
  <2>2. \A i \in 1 .. Len(msgs) :
           /\ NeedsOff(msgs[i]) => over = "rx" /\ \A j \in 1 .. i - 1 : msgs[j] # Key(TRUE)
           /\ msgs[i] = Abort => refused'
           /\ over' = "rx" => msgs[i] # Key(TRUE)
    BY <1>4
  <2> QED BY <1>2, <1>5, <2>1, <2>2, TurnsWhenSending
<1>7. CalmInv'
  <2>1. \A i \in 1 .. Len(msgs) : msgs[i].op # "test" /\ (msgs[i].op = "rxBand" => "rxTune" \in Happens)
    BY <1>4
  <2> QED BY <1>2, <1>5, <2>1, CalmWhenSending
<1> QED BY <1>5, <1>6, <1>7, CallInReceive DEF OverInv

LEMMA OverReleased == Before /\ (Refuse \/ KeyUp) => OverInv'
<1> SUFFICES ASSUME Before, Refuse \/ KeyUp PROVE OverInv'
  OBVIOUS
<1>1. CASE Refuse
  <2>1. /\ over = "lead" /\ over' = "rx" /\ refused' /\ Send(<<Abort>> \o AfterOver)
        /\ UNCHANGED <<seqVars, pc, left, writing, sleepLeft, disturbed>>
    BY <1>1 DEF Refuse, quietWorker, worldVars
  <2> QED BY <2>1, OverEnding
<1>2. CASE KeyUp
  <2>1. /\ over = "tx" /\ over' = "rx" /\ refused' = refused /\ Send(<<Key(FALSE)>> \o AfterOver)
        /\ UNCHANGED <<seqVars, pc, left, writing, sleepLeft, disturbed>>
    BY <1>2 DEF KeyUp, quietWorker, worldVars
  <2>2. Key(FALSE) # Abort
    BY Ops
  <2> QED BY <2>1, <2>2, OverEnding
<1> QED BY <1>1, <1>2

\* A band may be sent at any time.
LEMMA OverTuned == Before /\ (Retune \/ RxTune) => OverInv'
<1> SUFFICES ASSUME Before, Retune \/ RxTune PROVE OverInv'
  OBVIOUS
<1>1. UNCHANGED <<seqVars, pc, left, writing, sleepLeft, disturbed, over, wait, overBand, refused>>
  BY DEF Retune, RxTune, quietWorker, worldVars, callerVars
<1>2. PICK m \in Ctrl : Send(<<m>>) /\ Tame(m)
  <2>1. ASSUME NEW b \in Band
        PROVE  /\ TxBand(b) \in Ctrl /\ Tame(TxBand(b)) /\ RxBand(b) \in Ctrl
               /\ "rxTune" \in Happens => Tame(RxBand(b))
    BY Messages, Ops DEF Tame
  <2>2. \/ \E b \in Band : Send(<<TxBand(b)>>)
        \/ "rxTune" \in Happens /\ \E b \in Band : Send(<<RxBand(b)>>)
    BY DEF Retune, RxTune
  <2>3. ASSUME NEW b \in Band, Send(<<TxBand(b)>>) PROVE \E m \in Ctrl : Send(<<m>>) /\ Tame(m)
    <3>1. TxBand(b) \in Ctrl /\ Send(<<TxBand(b)>>) /\ Tame(TxBand(b))
      BY <2>1, <2>3
    <3> QED BY <3>1
  <2>4. ASSUME NEW b \in Band, Send(<<RxBand(b)>>), "rxTune" \in Happens
        PROVE  \E m \in Ctrl : Send(<<m>>) /\ Tame(m)
    <3>1. RxBand(b) \in Ctrl /\ Send(<<RxBand(b)>>) /\ Tame(RxBand(b))
      BY <2>1, <2>4
    <3> QED BY <3>1
  <2> QED BY <2>2, <2>3, <2>4
<1>3. PICK msgs \in Seq(Ctrl) : Send(msgs) /\ Len(msgs) = 1 /\ msgs[1] = m
  BY <1>2, OneOrTwo
<1>4. \A i \in 1 .. Len(msgs) : msgs[i] = m
  <2>1. \A i \in 1 .. 1 : i = 1
    OBVIOUS
  <2> QED BY <1>3, <2>1
<1>5. \A i \in 1 .. Len(msgs) :
         Tame(msgs[i]) /\ ~NeedsOff(msgs[i]) /\ msgs[i] # Key(TRUE) /\ msgs[i] # Abort
  BY <1>2, <1>4, Ops DEF Tame, NeedsOff
<1>6. UNCHANGED <<engineOnAir, senseOnAir, test, present>> /\ RisesInv' /\ StepInv'
  BY <1>1, Aside
<1>7. TurnsInv'
  <2>1. over' = "rx" => over = "rx"
    BY <1>1
  <2> QED BY <1>1, <1>3, <1>5, <1>6, <2>1, TurnsWhenSending
<1>8. CalmInv'
  <2>1. \A i \in 1 .. Len(msgs) : msgs[i].op # "test" /\ (msgs[i].op = "rxBand" => "rxTune" \in Happens)
    BY <1>5 DEF Tame
  <2> QED BY <1>1, <1>3, <1>6, <2>1, CalmWhenSending
<1>9. CallInv'
  BY <1>1, <1>3, <1>5, CallWhenSending
<1> QED BY <1>6, <1>7, <1>8, <1>9 DEF OverInv

\* A new configuration, and the end, are sent in receive.
LEMMA OverAdopted == Before /\ (Configure \/ Close) => OverInv'
<1> SUFFICES ASSUME Before, Configure \/ Close PROVE OverInv'
  OBVIOUS
<1>1. /\ UNCHANGED <<seqVars, pc, left, writing, sleepLeft, disturbed, refused>>
      /\ over = "rx" /\ over' = "rx"
  BY DEF Configure, Close, quietWorker, worldVars, callerVars
<1>2. PICK m \in Ctrl : Send(<<m>>) /\ m.op \in {"config", "shutdown"}
  BY Messages, Ops DEF Configure, Close
<1>3. PICK msgs \in Seq(Ctrl) : Send(msgs) /\ Len(msgs) = 1 /\ msgs[1] = m
  BY <1>2, OneOrTwo
<1>4. \A i \in 1 .. Len(msgs) : i = 1 /\ msgs[i] = m
  <2>1. \A i \in 1 .. 1 : i = 1
    OBVIOUS
  <2> QED BY <1>3, <2>1
<1>5. m # Key(TRUE) /\ m # Abort
  BY <1>2, Ops
<1>6. UNCHANGED <<engineOnAir, senseOnAir, test, present>> /\ RisesInv' /\ StepInv'
  BY <1>1, Aside
<1>7. TurnsInv'
  <2>1. ASSUME NEW i \in 1 .. Len(msgs)
        PROVE  /\ NeedsOff(msgs[i]) => over = "rx" /\ \A j \in 1 .. i - 1 : msgs[j] # Key(TRUE)
               /\ msgs[i] = Abort => refused'
               /\ over' = "rx" => msgs[i] # Key(TRUE)
    <3>1. \A j \in 1 .. 1 - 1 : FALSE
      OBVIOUS
    <3> QED BY <1>1, <1>4, <1>5, <3>1
  <2> QED BY <1>1, <1>3, <1>6, <2>1, TurnsWhenSending
<1>8. CalmInv'
  <2>1. \A i \in 1 .. Len(msgs) : msgs[i].op # "test" /\ (msgs[i].op = "rxBand" => "rxTune" \in Happens)
    BY <1>2, <1>4
  <2> QED BY <1>1, <1>3, <1>6, <2>1, CalmWhenSending
<1> QED BY <1>1, <1>6, <1>7, <1>8, CallInReceive DEF OverInv


\* The wait is over: it is a key-down that was heard, the last contact is
\* thrown, and the thread sleeps.
LEMMA Risen ==
    ASSUME Before, over = "lead", wait = 0, Blocked
    PROVE  Heard /\ Thrown /\ pc = "sleep"
<1>0. /\ age \in Nat /\ Margin \in Nat /\ Busy \in Nat /\ left \in 0 .. RoundTrip
      /\ asserted \subseteq cfg.managed
      /\ RoundTrip \in Nat /\ RoundTrip > 0 /\ LastRise \in Nat
      /\ \A ch \in cfg.managed : RiseOf(cfg, ch) \in 0 .. LastRise
  BY Kinds, Times DEF Before
<1>1. Open /\ (Asked \/ Heard)
  BY DEF Before, OverInv, CallInv
<1>2. Heard
  BY <1>0, <1>1 DEF Asked
<1>3. engineOnAir /\ (~Thrown \/ age = 0 => age >= LastRise + RoundTrip) /\ (At("writing") => 0 >= left)
  BY <1>0, <1>2 DEF Heard
<1>4. Thrown
  <2> SUFFICES ASSUME NEW ch \in cfg.managed \ asserted PROVE FALSE
    BY <1>0 DEF Thrown
  <2>1. age >= LastRise + RoundTrip
    BY <1>3 DEF Thrown
  <2>2. RiseOf(cfg, ch) >= age + Margin
    BY <1>3 DEF Before, OverInv, RisesInv
  <2> QED BY <1>0, <2>1, <2>2
<1>5. pc = "sleep"
  <2>1. pc # "reading" /\ pc \notin {"standDown", "done"}
    BY <1>1, <1>3 DEF Before, OverInv, TurnsInv, Open, At
  <2> QED BY <1>0, <1>3, <2>1 DEF Blocked, At
<1> QED BY <1>2, <1>4, <1>5

LEMMA OverRadiates == Before /\ Radiate => OverInv'
<1> SUFFICES ASSUME Before, Radiate PROVE OverInv'
  OBVIOUS
<1>1. /\ over = "lead" /\ wait = 0 /\ Blocked /\ over' = "tx"
      /\ UNCHANGED <<seqVars, inbox, pc, left, writing, sleepLeft, disturbed, overBand>>
  BY DEF Radiate, workerVars, worldVars
<1>2. Heard /\ Thrown /\ pc = "sleep"
  BY <1>1, Risen
<1>3. /\ UNCHANGED <<cfg, engineOnAir, senseOnAir, txBand, applied, test, present, asserted>>
      /\ RisesInv' /\ StepInv' /\ Want' = Want /\ Thrown' = Thrown
  BY <1>1, Aside
<1>4. applied = Want
  BY <1>2 DEF Before, OverInv, StepInv
<1>5. \A j \in 1 .. Len(inbox) : Tame(inbox[j]) /\ inbox[j] # Abort
  BY <1>2, Ops DEF Heard, Tame
<1>6. TurnsInv'
  <2>1. ~Running' \/ pc' = "reading" => ~engineOnAir
    BY <1>1, <1>2 DEF Running
  <2> QED BY <1>1, <1>3, <1>5, <2>1, TurnsStand
<1>7. CalmInv'
  <2>1. test' = {}
    BY <1>3 DEF Before, OverInv, CalmInv
  <2> QED BY <1>1, <1>3, <2>1, StaysCalm
<1>8. CallInv'
  <2>1. Open'
    BY <1>1 DEF Before, OverInv, CallInv, Open
  <2>2. \A j \in 1 .. Len(inbox') : Tame(inbox[j])'
    BY <1>1, <1>5 DEF Tame
  <2>3. Heard'
    BY <1>1, <1>2, <1>3, <1>4, <2>2 DEF Heard, At
  <2> QED BY <2>1, <2>3 DEF CallInv
<1> QED BY <1>3, <1>6, <1>7, <1>8 DEF OverInv

\* While the worker is blocked, its business and the caller's wait run down
\* together, and no contact falls due unseen.
LEMMA OverTicks == Before /\ Tick => OverInv'
<1> SUFFICES ASSUME Before, Tick PROVE OverInv'
  OBVIOUS
<1>0. /\ SeqTypeOK /\ age \in 0 .. MaxAge /\ Margin \in Nat /\ Busy \in Nat /\ left \in 0 .. RoundTrip
      /\ wait \in Nat /\ sleepLeft \in Nat
      /\ asserted \subseteq cfg.managed /\ MaxAge \in Nat /\ MaxAge > 0
      /\ RoundTrip \in Nat /\ RoundTrip > 0 /\ LastRise \in 0 .. MaxAge
      /\ \A ch \in cfg.managed : RiseOf(cfg, ch) \in 0 .. LastRise
  BY Kinds, Times DEF Before, SeqTypeOK
<1>1. /\ Blocked
      /\ UNCHANGED <<inbox, pc, writing, over, overBand, refused, disturbed>>
      /\ UNCHANGED <<cfg, engineOnAir, senseOnAir, asserted, rxBand, txBand, txBandPending, applied,
                     test, present>>
  BY DEF Tick, SeqTick, worldVars
<1>2. PICK a \in Nat : age' = a /\ a = IF age < MaxAge THEN age + 1 ELSE age
  BY <1>0 DEF Tick, SeqTick
<1>3. PICK l \in Nat : left' = l /\ l = IF left > 0 THEN left - 1 ELSE 0
  BY <1>0 DEF Tick
<1>4. PICK w \in Nat : wait' = w /\ w = IF wait > 0 THEN wait - 1 ELSE 0
  BY <1>0 DEF Tick
<1>5. PICK t \in Nat : sleepLeft' = t /\ t = IF sleepLeft > 0 THEN sleepLeft - 1 ELSE 0
  BY <1>0 DEF Tick
<1>6. Want' = Want /\ Thrown' = Thrown
  BY <1>0, <1>1, WantStays DEF Thrown
<1>7. /\ ~Running \/ pc = "reading" => ~engineOnAir
      /\ engineOnAir => \/ pc = "writing" /\ left > 0
                        \/ pc = "sleep" /\ sleepLeft > 0 /\ inbox = <<>>
  <2>1. ~Running \/ pc = "reading" => ~engineOnAir
    BY DEF Before, OverInv, TurnsInv, At
  <2> QED BY <1>1, <2>1 DEF Blocked, Running, At
<1>8. CalmInv' /\ TurnsInv'
  <2>1. test' = {}
    BY <1>1 DEF Before, OverInv, CalmInv
  <2> QED BY <1>1, <1>7, <2>1, StaysCalm, StaysInTurn DEF Running
<1>9. StepInv'
  <2>1. pc \notin {"drain", "sense", "due"}
    BY <1>1 DEF Blocked, At
  <2> QED BY <1>1, <1>6, <2>1 DEF Before, OverInv, StepInv
<1>10. RisesInv'
  <2> SUFFICES ASSUME engineOnAir, NEW ch \in cfg.managed \ asserted
               PROVE  RiseOf(cfg, ch) >= age' + Margin'
    BY <1>1 DEF RisesInv, RiseOf, MaxLead
  <2>1. RiseOf(cfg, ch) >= age + Margin /\ RiseOf(cfg, ch) \in Nat
    BY <1>0 DEF Before, OverInv, RisesInv
  <2>2. CASE pc = "writing" /\ left > 0
    <3>1. Margin = left + 1 /\ Margin' = l + 1 /\ l = left - 1
      BY <1>1, <1>3, <2>2 DEF Margin
    <3> QED BY <1>0, <1>2, <2>1, <3>1
  <2>3. CASE pc = "sleep" /\ sleepLeft > 0
    <3>1. Margin = sleepLeft /\ Margin' = t /\ t = sleepLeft - 1
      BY <1>1, <1>5, <2>3 DEF Margin
    <3> QED BY <1>0, <1>2, <2>1, <3>1
  <2> QED BY <1>7, <2>2, <2>3
<1>11. CallInv'
  <2> SUFFICES ASSUME over # "rx" PROVE Open' /\ (Asked' \/ Heard')
    BY <1>1 DEF CallInv
  <2>1. Open' /\ Running /\ (Asked \/ Heard)
    BY <1>1 DEF Before, OverInv, CallInv, Open, Running
  <2>2. CASE Asked
    <3>1. PICK k \in 1 .. Len(inbox) : Underway(k)
      BY <2>2 DEF Asked
    <3>2. pc \in {"writing", "reading"} /\ left > 0
      <4>1. inbox # <<>>
        BY <3>1
      <4> QED BY <1>1, <2>1, <4>1 DEF Blocked, Running, At
    <3>3. Underway(k)'
      BY <1>1, <3>1, <3>2 DEF Underway, At, Presses, Key, Tame, TxBand
    <3>4. wait' >= Busy' + LastRise + RoundTrip
      <4>1. wait >= Busy + LastRise + RoundTrip
        BY <2>2 DEF Asked
      <4>2. PICK b \in Nat : Busy' = b /\ b = Busy - 1
        <5>1. CASE pc = "writing"
          <6>1. Busy = left + RoundTrip /\ Busy' = l + RoundTrip /\ l = left - 1
            BY <1>1, <1>3, <3>2, <5>1 DEF Busy
          <6>2. l + RoundTrip \in Nat /\ l + RoundTrip = Busy - 1
            BY <1>0, <6>1
          <6> QED BY <6>1, <6>2
        <5>2. CASE pc = "reading"
          <6>1. Busy = left /\ Busy' = l /\ l = left - 1
            BY <1>1, <1>3, <3>2, <5>2 DEF Busy
          <6> QED BY <6>1
        <5> QED BY <3>2, <5>1, <5>2
      <4>3. w >= b + LastRise + RoundTrip
        BY <1>0, <1>4, <4>1, <4>2
      <4> QED BY <1>4, <4>2, <4>3
    <3>5. Asked'
      BY <1>1, <2>2, <3>1, <3>3, <3>4 DEF Asked
    <3> QED BY <2>1, <3>5
  <2>3. CASE Heard
    <3>1. \A j \in 1 .. Len(inbox') : Tame(inbox[j])'
      BY <1>1, <2>3 DEF Heard, Tame
    <3>2. ASSUME over = "lead", ~Thrown \/ a = 0 PROVE w + a >= LastRise + RoundTrip
      <4>1. a # 0
        BY <1>0, <1>2
      <4>2. engineOnAir /\ wait + age >= LastRise + RoundTrip
        BY <2>3, <3>2, <4>1 DEF Heard
      <4>3. PICK ch \in cfg.managed : ch \notin asserted
        BY <1>0, <3>2, <4>1 DEF Thrown
      <4>4. RiseOf(cfg, ch) >= age + Margin
        BY <4>2, <4>3 DEF Before, OverInv, RisesInv
      <4>5. Margin >= 1
        BY <1>0, <1>7, <4>2 DEF Margin
      <4>6. age < LastRise
        BY <1>0, <4>4, <4>5
      <4>7. a = age + 1 /\ wait > 0
        BY <1>0, <1>2, <4>2, <4>6
      <4> QED BY <1>0, <1>4, <4>2, <4>7
    <3>3. ASSUME over = "lead", pc = "writing" PROVE w >= l
      <4>1. wait >= left
        BY <2>3, <3>3 DEF Heard, At
      <4> QED BY <1>0, <1>3, <1>4, <4>1
    <3>4. over = "lead" => /\ (~Thrown \/ age = 0 => wait + age >= LastRise + RoundTrip)'
                           /\ (At("writing") => wait >= left)'
      BY <1>1, <1>2, <1>3, <1>4, <1>6, <3>2, <3>3 DEF At
    <3>5. over = "tx" => Thrown' /\ applied' = Want' /\ pc' # "writing"
      BY <1>1, <1>6, <2>3 DEF Heard, At
    <3>6. engineOnAir' /\ txBand' = overBand'
      BY <1>1, <2>3 DEF Heard
    <3>7. Heard'
      BY <1>1, <3>1, <3>4, <3>5, <3>6 DEF Heard, At
    <3> QED BY <2>1, <3>7
  <2> QED BY <2>1, <2>2, <2>3
<1> QED BY <1>8, <1>9, <1>10, <1>11 DEF OverInv


----------------------------------------------------------------------------
(* Every step.                                                             *)

\* Nothing is under way when the thread is spawned.
LEMMA OverStarts == Init /\ Undisturbed => OverInv
<1> SUFFICES ASSUME Init PROVE OverInv
  OBVIOUS
<1>1. inbox = <<>> /\ Len(inbox) = 0 /\ ~engineOnAir /\ over = "rx" /\ pc = "drain"
  BY DEF Init, SeqInit
<1>2. \A i \in 1 .. 0 : FALSE
  OBVIOUS
<1>3. CalmInv
  BY <1>1, <1>2 DEF Init, SeqInit, CalmInv
<1>4. OffBefore(0 + 1)
  <2>1. \A p \in 1 .. (0 + 1) - 1 : FALSE
    OBVIOUS
  <2> QED BY <1>1, <2>1 DEF OffBefore
<1>5. TurnsInv
  BY <1>1, <1>2, <1>4 DEF TurnsInv, Running, At
<1> QED BY <1>1, <1>3, <1>5 DEF OverInv, CallInv, RisesInv, StepInv

\* Nothing fails, disturbs or interferes.
LEMMA Undisturbing ==
    ASSUME Undisturbed, Next
    PROVE  ~WriteFails /\ ~PressTest /\ ~ToggleLine /\ ~Disturb
BY DEF Undisturbed, WriteFails, PressTest, ToggleLine, Disturb

LEMMA OverStep == Before /\ IInv' /\ [Next]_vars => OverInv'
<1> SUFFICES ASSUME Before, IInv', [Next]_vars PROVE OverInv'
  OBVIOUS
<1>1. CASE UNCHANGED vars
  <2>1. /\ UNCHANGED <<seqVars, inbox, pc, left, writing, sleepLeft, disturbed, over, wait, overBand,
                       refused>>
        /\ UNCHANGED <<engineOnAir, senseOnAir, present, txBand, applied, asserted, test, age>>
        /\ RisesInv' /\ StepInv' /\ Want' = Want /\ Thrown' = Thrown /\ Upcoming' = Upcoming /\ Busy' = Busy
    <3>1. UNCHANGED <<seqVars, inbox, pc, left, writing, sleepLeft, disturbed, over, wait, overBand,
                      refused>>
      BY <1>1 DEF vars, workerVars, worldVars, callerVars
    <3> QED BY <3>1, Aside
  <2>2. CalmInv'
    BY <2>1, StaysCalm DEF Before, OverInv, CalmInv
  <2>3. TurnsInv'
    <3>1. ~Running' \/ pc' = "reading" => ~engineOnAir
      BY <2>1 DEF Before, OverInv, TurnsInv, Running, At
    <3> QED BY <2>1, <3>1, StaysInTurn
  <2>4. CallInv'
    <3>1. (Open <=> Open') /\ (Asked => Asked') /\ (Heard => Heard')
      <4>1. Open <=> Open'
        BY <2>1 DEF Open
      <4>2. Asked => Asked'
        BY <2>1 DEF Asked, Underway, At, Presses, Key, Tame, TxBand
      <4>3. Heard => Heard'
        BY <2>1 DEF Heard, Tame, At
      <4> QED BY <4>1, <4>2, <4>3
    <3> QED BY <2>1, <3>1 DEF Before, OverInv, CallInv
  <2> QED BY <2>1, <2>2, <2>3, <2>4 DEF OverInv
<1>2. CASE Worker
  BY <1>2, Undisturbing, OverTaking, OverLooping, OverDue, OverWritten, OverResting, OverClosing
     DEF Worker, Before, Next
<1>3. CASE Caller
  BY <1>3, Undisturbing, OverKeyDown, OverRadiates, OverReleased, OverTuned, OverAdopted
     DEF Caller, Before, Next
<1>4. CASE ToggleLine \/ Disturb \/ Tick
  BY <1>4, Undisturbing, OverTicks DEF Before, Next
<1> QED BY <1>1, <1>2, <1>3, <1>4 DEF Next

\* An over on a bank whose times leave room for it: every contact is thrown
\* before the caller's wait ends, whatever it interrupted.
THEOREM OversKept ==
    ASSUME Timely, Undisturbed
    PROVE  Spec => []OverInv
<1>1. Init => IInv /\ OverInv
  BY InitHolds, OverStarts
<1>2. IInv /\ OverInv /\ [Next]_vars => IInv' /\ OverInv'
  BY StepKeeps, OverStep DEF Before
<1> QED BY <1>1, <1>2, PTL DEF Spec

\* An over has a band.
BandInv == over # "rx" => overBand \in Band

LEMMA OverHasBand == Spec => []BandInv
<1>1. Init => BandInv
  BY DEF Init, BandInv
<1>2. BandInv /\ [Next]_vars => BandInv'
  <2> SUFFICES ASSUME BandInv, [Next]_vars PROVE BandInv'
    OBVIOUS
  <2>1. CASE KeyDown
    BY <2>1 DEF KeyDown, BandInv
  <2>2. CASE Radiate \/ Refuse \/ KeyUp \/ Retune \/ RxTune \/ PressTest \/ Configure \/ Close
    BY <2>2 DEF Radiate, Refuse, KeyUp, Retune, RxTune, PressTest, Configure, Close, callerVars,
                BandInv
  <2>3. CASE Worker
    BY <2>3 DEF Worker, TakeMessage, TakeShutdown, Drained, Look, Due, WriteOk, WriteFails,
                StartReadBack, SkipReadBack, ReadBack, RestateBoard, Slumber, WakeUp, StandDown,
                callerVars, BandInv
  <2>4. CASE ToggleLine \/ Disturb \/ Tick \/ UNCHANGED vars
    BY <2>4 DEF ToggleLine, Disturb, Tick, vars, callerVars, BandInv
  <2> QED BY <2>1, <2>2, <2>3, <2>4 DEF Next, Caller
<1> QED BY <1>1, <1>2, PTL DEF Spec

\* While RF is out every ordinary contact is in its transmit state and the
\* filters stand on the keyed band's transmit word.
THEOREM ContactsBeforeRf ==
    ASSUME Timely, Undisturbed
    PROVE  Spec => []BankLeadsRf
<1>1. ASSUME IInv, OverInv, BandInv PROVE BankLeadsRf
  <2> SUFFICES ASSUME over = "tx" PROVE /\ \A ch \in Ordinary : InTransmit(ch)
                                        /\ Filters = cfg.txWord[overBand]
    BY DEF BankLeadsRf
  <2>1. Before
    BY <1>1 DEF Before
  <2>2. Open /\ Heard
    BY <1>1 DEF OverInv, CallInv, Asked
  <2>3. contacts = Want
    BY <2>1, <2>2, Stands DEF Heard, Open
  <2>4. test = {} /\ asserted = cfg.managed /\ txBand = overBand /\ overBand \in Band
    BY <1>1, <2>2 DEF OverInv, CalmInv, Heard, Thrown, BandInv
  <2>5. /\ cfg \in Config /\ cfg.managed \subseteq Channel /\ cfg.decoder \subseteq cfg.managed
        /\ cfg.inverted \subseteq cfg.managed /\ cfg.txWord[overBand] \subseteq cfg.decoder
        /\ NoBand \notin Band
    BY <2>1, <2>4, Kinds, ConfigAssumption DEF Before
  <2>6. Word(cfg.txWord, txBand) = cfg.txWord[overBand]
    BY <2>4, <2>5 DEF Word
  <2>7. Word(cfg.rxWord, rxBand) \subseteq cfg.managed
    BY <2>1, <2>5, Kinds, ConfigAssumption DEF Before, Word, SeqTypeOK, MaybeBand
  <2>8. Logical = (cfg.managed \ cfg.decoder) \cup cfg.txWord[overBand]
    BY <2>4, <2>5, <2>6, <2>7 DEF Logical
  <2> QED BY <2>3, <2>5, <2>8 DEF Want, Xor, InTransmit, Ordinary, Filters
<1> QED BY OversKept, WorkerAccounted, OverHasBand, <1>1, PTL


\* The board moves at the end of a write, to what is wanted, and on the way out.
LEMMA BoardMoves ==
    ASSUME Before, Next
    PROVE  contacts' = contacts \/ (WriteOk /\ contacts' = Want) \/ StandDown
<1>0. /\ Board!BoardTypeOK /\ BoardInv /\ ~disturbed /\ writing \subseteq Channel
  BY TypeParts DEF Before, IInv, OverInv, CalmInv, LoopTypeOK
<1>1. CASE WriteOk
  <2>1. writing = Want
    BY <1>1 DEF WriteOk, At, Before, OverInv, StepInv
  <2> QED BY <1>0, <1>1, <2>1, Applied DEF WriteOk
<1>2. CASE RestateBoard
  <2>1. Board!Restate \/ Board!RestateFails
    BY <1>2 DEF RestateBoard
  <2> QED BY <1>0, <2>1, Restated
<1>3. CASE TakeMessage \/ TakeShutdown \/ Drained \/ Look \/ Due \/ StartReadBack
           \/ SkipReadBack \/ ReadBack \/ WakeUp
  BY <1>3 DEF TakeMessage, TakeShutdown, Drained, Look, Due, StartReadBack, SkipReadBack,
              ReadBack, WakeUp, boardVars
<1>4. CASE Caller \/ Tick
  BY <1>4 DEF Caller, KeyDown, Radiate, Refuse, KeyUp, Retune, RxTune, PressTest, Configure,
              Close, Tick, boardVars
<1> QED BY <1>1, <1>2, <1>3, <1>4, Undisturbing DEF Next, Worker, Before

\* No relay is thrown under live RF, where no contact is put to the test.
THEOREM NeverSwitchesHot ==
    ASSUME Timely, Undisturbed
    PROVE  Spec => NoHotSwitch
<1>1. ASSUME IInv, OverInv, [Next]_vars
      PROVE  [over = "tx" /\ over' = "tx" => contacts' = contacts]_vars
  <2> SUFFICES ASSUME Next, over = "tx" PROVE contacts' = contacts
    BY <1>1
  <2>1. Before
    BY <1>1 DEF Before
  <2>2. Open /\ Heard
    BY <1>1 DEF OverInv, CallInv, Asked
  <2>3. ~WriteOk /\ ~StandDown
    BY <2>2 DEF Heard, Open, WriteOk, StandDown, At
  <2> QED BY <2>1, <2>3, BoardMoves
<1> QED BY OversKept, WorkerAccounted, <1>1, PTL DEF Spec, NoHotSwitch

----------------------------------------------------------------------------
(* The hold.                                                               *)

\* One wiring: the configurations differ in their times and their words.
OneWiring ==
    \A c, d \in Config : c.managed = d.managed /\ c.decoder = d.decoder /\ c.inverted = d.inverted

\* A contact that is no longer held is dropped by the write under way, its hold
\* over; or no carrier has been on for longer than any hold.
HoldInv ==
    /\ ~engineOnAir => age =< offAge
    /\ Running /\ ~refused =>
          \A ch \in Ordinary : InTransmit(ch) /\ ch \notin asserted =>
             offAge = MaxAge \/ (At("writing") /\ offAge >= FallOf(cfg, ch))

\* What every step starts from.
Holding == Before /\ HoldInv /\ OneWiring

\* RF is out with the key heard of and every contact held.
LEMMA HeldOnAir ==
    ASSUME Before, over = "tx"
    PROVE  engineOnAir /\ \A ch \in Ordinary : ch \in asserted
<1>1. Heard
  BY DEF Before, OverInv, CallInv, Asked
<1>2. cfg.decoder \subseteq cfg.managed
  BY Kinds, ConfigAssumption DEF Before
<1> QED BY <1>1, <1>2 DEF Heard, Thrown, Ordinary

\* What leaves the board, the schedule and the carrier's clock alone keeps it.
LEMMA HoldStands ==
    ASSUME Holding, UNCHANGED <<cfg, engineOnAir, age, asserted, contacts, offAge>>,
           ~refused' => ~refused, Running' => Running,
           pc = "writing" => pc' = "writing" \/ ~Running'
    PROVE  HoldInv'
<1>1. \A ch : (InTransmit(ch) <=> InTransmit(ch)') /\ FallOf(cfg, ch)' = FallOf(cfg, ch)
  BY DEF InTransmit, FallOf
<1>2. Ordinary' = Ordinary
  BY DEF Ordinary
<1> QED BY <1>1, <1>2 DEF Holding, HoldInv, At

\* A message: a key-up restarts the clock, an abort drops everything.
LEMMA HoldTaking == Holding /\ TakeMessage => HoldInv'
<1> SUFFICES ASSUME Holding, TakeMessage PROVE HoldInv'
  OBVIOUS
<1>0. Before /\ asserted \subseteq cfg.managed /\ cfg \in Config /\ age \in Nat /\ offAge \in Nat
  BY Kinds DEF Holding, Before
<1>1. /\ pc # "writing" /\ pc' # "writing" /\ Running /\ Running'
      /\ UNCHANGED <<contacts, offAge, refused, over>>
  BY <1>0, Orders DEF Running
<1>2. /\ inbox[1] = Abort => refused
      /\ Presses(1) => engineOnAir' = TRUE
      /\ ~Presses(1) /\ ~Releases(1) => engineOnAir' = engineOnAir
  <2>1. 1 \in 1 .. Len(inbox)
    BY <1>0, Orders, Kinds, Popped
  <2> QED BY <1>0, <2>1, Heads DEF Before, OverInv, TurnsInv
<1>3. ~engineOnAir' => age' = 0 \/ (~engineOnAir /\ age' = age)
  <2>1. ~senseOnAir
    BY <1>0 DEF Before, OverInv, CalmInv
  <2>2. \/ inbox[1] = Key(TRUE)
        \/ SetEngine(FALSE) \/ AbortOver
        \/ \E b \in Band : SetRxBand(b) \/ SetTxBand(b)
        \/ \E c \in Config : SetConfig(c)
    BY <1>0, Orders
  <2>3. inbox[1] = Key(TRUE) => engineOnAir' = TRUE
    BY <1>2 DEF Presses
  <2> QED BY <2>1, <2>2, <2>3
       DEF SetEngine, AbortOver, SetRxBand, SetTxBand, SetConfig, OnAir
<1>4. ~refused => /\ asserted' = asserted /\ Ordinary' = Ordinary
                  /\ \A ch : InTransmit(ch)' <=> InTransmit(ch)
  <2> SUFFICES ASSUME ~refused PROVE /\ asserted' = asserted /\ Ordinary' = Ordinary
                                     /\ \A ch : InTransmit(ch)' <=> InTransmit(ch)
    OBVIOUS
  <2>1. \/ \E on \in BOOLEAN : SetEngine(on)
        \/ \E b \in Band : SetRxBand(b) \/ SetTxBand(b)
        \/ \E c \in Config : SetConfig(c)
    BY <1>0, <1>2, Orders
  <2>2. CASE \E c \in Config : SetConfig(c)
    <3>1. PICK c \in Config : cfg' = c /\ asserted' = asserted \cap c.managed
      BY <2>2 DEF SetConfig
    <3>2. c.managed = cfg.managed /\ c.decoder = cfg.decoder /\ c.inverted = cfg.inverted
      BY <1>0 DEF Holding, OneWiring
    <3> QED BY <1>0, <1>1, <3>1, <3>2 DEF Ordinary, InTransmit
  <2>3. CASE ~\E c \in Config : SetConfig(c)
    <3>1. cfg' = cfg /\ asserted' = asserted
      BY <2>1, <2>3 DEF SetEngine, SetRxBand, SetTxBand
    <3> QED BY <1>1, <3>1 DEF Ordinary, InTransmit
  <2> QED BY <2>2, <2>3
<1>5. ~engineOnAir' => age' =< offAge'
  <2>1. ~engineOnAir => age =< offAge
    BY DEF Holding, HoldInv
  <2>2. PICK o \in Nat : offAge' = o /\ o = offAge
    BY <1>0, <1>1
  <2>3. ASSUME ~engineOnAir' PROVE age' =< o
    <3>1. CASE age' = 0
      BY <2>2, <3>1
    <3>2. CASE ~engineOnAir /\ age' = age
      BY <2>1, <2>2, <3>2
    <3> QED BY <1>3, <2>3, <3>1, <3>2
  <2> QED BY <2>2, <2>3
<1>6. ~refused' => \A ch \in Ordinary' : InTransmit(ch)' /\ ch \notin asserted' => offAge' = MaxAge
  BY <1>1, <1>4 DEF Holding, HoldInv, At
<1> QED BY <1>5, <1>6 DEF HoldInv

\* A contact is let go of when its hold is over, and the write that drops it
\* starts in the same step.
LEMMA HoldDue == Holding /\ IInv' /\ Due => HoldInv'
<1> SUFFICES ASSUME Holding, IInv', Due PROVE HoldInv'
  OBVIOUS
<1>0. /\ Before /\ SeqTypeOK /\ SeqTypeOK' /\ asserted \subseteq cfg.managed /\ cfg \in Config
      /\ age \in Nat /\ offAge \in Nat
      /\ \A ch \in cfg.managed : FallOf(cfg, ch) \in Nat
  BY Kinds, LongestLead, TypeParts DEF Holding, Before, IInv
<1>1. /\ present /\ Advance /\ pc = "due" /\ test = {} /\ ~senseOnAir /\ Running
      /\ UNCHANGED <<contacts, offAge, refused>>
  BY <1>0 DEF Due, At, Before, OverInv, CalmInv, boardVars, callerVars, Running
<1>2. /\ test' = {} /\ UNCHANGED <<cfg, engineOnAir, age, applied>>
      /\ engineOnAir => asserted \subseteq asserted'
      /\ ~engineOnAir => asserted' = {ch \in asserted : age < FallOf(cfg, ch)}
  BY <1>1 DEF Advance, OnAir
<1>3. pc' = "writing" \/ applied = Want'
  BY <1>1, <1>2 DEF Due, DueAfterAdvance, StartWrite, Goto
<1>4. Ordinary' = Ordinary /\ \A ch : (InTransmit(ch)' <=> InTransmit(ch)) /\ FallOf(cfg, ch)' = FallOf(cfg, ch)
  BY <1>1, <1>2 DEF Ordinary, InTransmit, FallOf
<1>5. ASSUME ~refused, NEW ch \in Ordinary, InTransmit(ch), ch \notin asserted'
      PROVE  offAge = MaxAge \/ (pc' = "writing" /\ offAge >= FallOf(cfg, ch))
  <2>1. CASE ch \notin asserted
    BY <1>1, <1>5, <2>1 DEF Holding, HoldInv, At
  <2>2. CASE ch \in asserted
    <3>1. ~engineOnAir /\ age >= FallOf(cfg, ch)
      BY <1>0, <1>2, <1>5, <2>2
    <3>2. offAge >= FallOf(cfg, ch)
      <4>1. age =< offAge /\ FallOf(cfg, ch) \in Nat
        BY <1>0, <2>2, <3>1 DEF Holding, HoldInv
      <4> QED BY <1>0, <3>1, <4>1
    <3>3. pc' = "writing"
      <4> SUFFICES ASSUME applied = Want' PROVE FALSE
        BY <1>3
      <4>1. Want' \subseteq Channel /\ Want' # Unknown
        BY <1>0, <1>1, AdvanceTypes, UnknownAssumption DEF Before, IInv
      <4>2. contacts = Want'
        BY <1>0, <1>1, <4>1 DEF Before, IInv, BeliefHolds, OverInv, CalmInv, At
      <4>3. ch \in Want' <=> ch \in cfg.inverted
        <5>1. ch \in cfg.managed /\ ch \notin cfg.decoder
          BY <1>5 DEF Ordinary
        <5>2. Word(cfg.rxWord, rxBand)' \subseteq cfg.decoder
          BY <1>0, <1>2, ConfigAssumption DEF SeqTypeOK, Word, MaybeBand
        <5>3. ch \notin Logical'
          BY <1>2, <1>5, <5>1, <5>2 DEF Logical
        <5> QED BY <1>2, <5>1, <5>3 DEF Want, Xor
      <4> QED BY <1>5, <4>2, <4>3 DEF InTransmit
    <3> QED BY <3>2, <3>3
  <2> QED BY <2>1, <2>2
<1>6. ~engineOnAir' => age' =< offAge'
  BY <1>1, <1>2 DEF Holding, HoldInv
<1> QED BY <1>1, <1>4, <1>5, <1>6 DEF HoldInv, At

\* An acknowledged write leaves in transmit what is held, and nothing else.
LEMMA Dropped ==
    ASSUME Before, WriteOk, contacts' = Want, NEW ch \in Ordinary
    PROVE  InTransmit(ch)' <=> ch \in asserted
<1>0. /\ cfg \in Config /\ SeqTypeOK /\ test = {}
      /\ asserted \subseteq cfg.managed
  BY Kinds DEF Before, OverInv, CalmInv
<1>1. ch \in cfg.managed /\ ch \notin cfg.decoder /\ cfg' = cfg
  BY DEF Ordinary, WriteOk, OnAck
<1>2. Word(cfg.rxWord, rxBand) \subseteq cfg.decoder
  BY <1>0, ConfigAssumption DEF SeqTypeOK, Word, MaybeBand
<1>3. ch \in Logical <=> ch \in asserted
  BY <1>0, <1>1, <1>2 DEF Logical
<1> QED BY <1>1, <1>3 DEF Want, Xor, InTransmit

LEMMA HoldWritten == Holding /\ WriteOk => HoldInv'
<1> SUFFICES ASSUME Holding, WriteOk PROVE HoldInv'
  OBVIOUS
<1>0. Before /\ Next /\ ~StandDown
  BY DEF Holding, Next, Worker, WriteOk, StandDown, At
<1>1. UNCHANGED <<cfg, engineOnAir, age, asserted, offAge, refused>>
  BY DEF WriteOk, OnAck, callerVars
<1>2. contacts' = Want \/ contacts' = contacts
  BY <1>0, BoardMoves
<1>3. contacts' = Want
  <2>1. /\ Board!BoardTypeOK /\ BoardInv /\ ~disturbed /\ writing \subseteq Channel /\ writing = Want
    BY <1>0, TypeParts DEF Before, IInv, OverInv, CalmInv, StepInv, LoopTypeOK, WriteOk, At
  <2> QED BY <2>1, Applied DEF WriteOk
<1>4. \A ch \in Ordinary' : InTransmit(ch)' => ch \in asserted'
  <2>1. Ordinary' = Ordinary
    BY <1>1 DEF Ordinary
  <2> QED BY <1>0, <1>1, <1>3, <2>1, Dropped
<1> QED BY <1>1, <1>4 DEF Holding, HoldInv

\* The caller's clock starts with the end of the carrier, with everything held.
LEMMA HoldCalls == Holding /\ Caller => HoldInv'
<1> SUFFICES ASSUME Holding, Caller PROVE HoldInv'
  OBVIOUS
<1>0. Before /\ UNCHANGED <<seqVars, cfg, engineOnAir, age, asserted, contacts, pc>>
  BY DEF Holding, Caller, KeyDown, Radiate, Refuse, KeyUp, Retune, RxTune, PressTest, Configure,
         Close, seqVars, boardVars, workerVars
<1>1. CASE KeyUp
  <2>1. over = "tx"
    BY <1>1 DEF KeyUp
  <2>2. engineOnAir' /\ \A ch \in Ordinary' : ch \in asserted'
    BY <1>0, <2>1, HeldOnAir DEF Ordinary
  <2> QED BY <2>2 DEF HoldInv
<1>2. CASE Radiate
  <2>1. Thrown /\ Heard
    BY <1>0, <1>2, Risen DEF Radiate
  <2>2. cfg.decoder \subseteq cfg.managed
    BY <1>0, Kinds, ConfigAssumption DEF Before
  <2>3. engineOnAir' /\ \A ch \in Ordinary' : ch \in asserted'
    BY <1>0, <2>1, <2>2 DEF Thrown, Heard, Ordinary
  <2> QED BY <2>3 DEF HoldInv
<1>3. CASE Refuse
  <2>1. refused' /\ offAge' = offAge
    BY <1>3 DEF Refuse
  <2> QED BY <1>0, <2>1 DEF Holding, HoldInv
<1>4. CASE KeyDown \/ Retune \/ RxTune \/ PressTest \/ Configure \/ Close
  <2>1. UNCHANGED <<offAge, refused>>
    BY <1>4 DEF KeyDown, Retune, RxTune, PressTest, Configure, Close, callerVars
  <2> QED BY <1>0, <2>1, HoldStands DEF Running
<1> QED BY <1>1, <1>2, <1>3, <1>4 DEF Caller

LEMMA HoldTicks == Holding /\ Tick => HoldInv'
<1> SUFFICES ASSUME Holding, Tick PROVE HoldInv'
  OBVIOUS
<1>0. /\ Before /\ age \in 0 .. MaxAge /\ offAge \in 0 .. MaxAge /\ MaxAge \in Nat
      /\ cfg \in Config /\ \A ch \in cfg.managed : FallOf(cfg, ch) \in Nat
  BY Kinds, LongestLead, Ticks DEF Holding, Before, SeqTypeOK
<1>1. UNCHANGED <<cfg, engineOnAir, asserted, contacts, pc, refused, over>>
  BY DEF Tick, SeqTick, boardVars
<1>2. PICK a \in Nat : age' = a /\ a = IF age < MaxAge THEN age + 1 ELSE age
  BY <1>0 DEF Tick, SeqTick
<1>3. PICK o \in Nat : /\ offAge' = o
                       /\ o = IF over # "tx" /\ offAge < MaxAge THEN offAge + 1 ELSE offAge
  BY <1>0 DEF Tick
<1>4. ~engineOnAir' => age' =< offAge'
  <2> SUFFICES ASSUME ~engineOnAir PROVE a =< o
    BY <1>1, <1>2, <1>3
  <2>1. over # "tx" /\ age =< offAge
    BY <1>0, HeldOnAir DEF Holding, HoldInv
  <2> QED BY <1>0, <1>2, <1>3, <2>1
<1>5. ASSUME NEW ch \in Ordinary, offAge = MaxAge \/ (At("writing") /\ offAge >= FallOf(cfg, ch))
      PROVE  o = MaxAge \/ (At("writing") /\ o >= FallOf(cfg, ch))
  <2>1. FallOf(cfg, ch) \in Nat
    BY <1>0 DEF Ordinary
  <2> QED BY <1>0, <1>3, <1>5, <2>1
<1>6. Ordinary' = Ordinary /\ \A ch : (InTransmit(ch)' <=> InTransmit(ch)) /\ FallOf(cfg, ch)' = FallOf(cfg, ch)
  BY <1>1 DEF Ordinary, InTransmit, FallOf
<1> QED BY <1>1, <1>3, <1>4, <1>5, <1>6 DEF Holding, HoldInv, Running, At

LEMMA HoldStep == Holding /\ IInv' /\ [Next]_vars => HoldInv'
<1> SUFFICES ASSUME Holding, IInv', [Next]_vars PROVE HoldInv'
  OBVIOUS
<1>0. Before
  BY DEF Holding
<1>1. CASE Drained \/ Look \/ StartReadBack \/ SkipReadBack \/ ReadBack \/ RestateBoard \/ WakeUp
  <2>1. UNCHANGED <<cfg, engineOnAir, age, asserted, offAge, refused>>
    BY <1>0, <1>1 DEF Drained, Look, StartReadBack, SkipReadBack, ReadBack, Invalidate, RestateBoard,
                      WakeUp, Slumber, callerVars, seqVars, Before, Undisturbed
  <2>2. contacts' = contacts
    <3>1. Next /\ ~WriteOk /\ ~StandDown
      BY <1>1 DEF Next, Worker, Drained, Look, StartReadBack, SkipReadBack, ReadBack, RestateBoard,
                  WakeUp, WriteOk, StandDown, At
    <3> QED BY <1>0, <3>1, BoardMoves
  <2>3. Running /\ Running' /\ pc # "writing"
    BY <1>1 DEF Drained, Look, StartReadBack, SkipReadBack, ReadBack, RestateBoard, WakeUp, Slumber,
                Running, At, Goto
  <2> QED BY <2>1, <2>2, <2>3, HoldStands
<1>2. CASE TakeShutdown \/ StandDown
  <2>1. UNCHANGED <<seqVars, offAge>> /\ ~Running'
    BY <1>2 DEF TakeShutdown, StandDown, callerVars, Running, Goto
  <2>2. UNCHANGED <<engineOnAir, age>>
    BY <2>1 DEF seqVars
  <2> QED BY <2>1, <2>2 DEF Holding, HoldInv
<1>3. CASE UNCHANGED vars
  BY <1>3, HoldStands DEF vars, seqVars, workerVars, callerVars, Running
<1>4. CASE TakeMessage \/ Due \/ WriteOk \/ Caller \/ Tick
  BY <1>4, HoldTaking, HoldDue, HoldWritten, HoldCalls, HoldTicks
<1> QED BY <1>0, <1>1, <1>2, <1>3, <1>4, Undisturbing DEF Next, Worker, Before

\* No contact opens before its hold is over after the last carrier, for any
\* holds, unless a later key-down came to nothing or the worker was told to go.
THEOREM HoldsKept ==
    ASSUME Timely, Undisturbed, OneWiring
    PROVE  Spec => HoldKept
<1>1. Init => HoldInv
  <2> SUFFICES ASSUME Init PROVE HoldInv
    OBVIOUS
  <2>1. age = 0 /\ offAge = MaxAge /\ MaxAge \in Nat
    BY Ticks DEF Init, SeqInit
  <2> QED BY <2>1 DEF HoldInv
<1>2. IInv /\ OverInv /\ HoldInv /\ IInv' /\ [Next]_vars => HoldInv'
  BY HoldStep DEF Holding, Before
<1>3. ASSUME IInv, OverInv, HoldInv, [Next]_vars
      PROVE  [\A ch \in Ordinary : InTransmit(ch) /\ ~InTransmit(ch)' /\ ~refused /\ ~At("standDown")
                                     => offAge >= FallOf(cfg, ch)]_vars
  <2> SUFFICES ASSUME Next, NEW ch \in Ordinary, InTransmit(ch), ~InTransmit(ch)', ~refused,
                      ~At("standDown")
               PROVE  offAge >= FallOf(cfg, ch)
    BY <1>3
  <2>0. Holding /\ Before /\ cfg \in Config /\ MaxAge \in Nat
    BY <1>3, Kinds, Ticks DEF Holding, Before
  <2>1. FallOf(cfg, ch) \in 0 .. MaxAge
    BY <2>0, ConfigAssumption DEF FallOf, Ordinary
  <2>2. CASE WriteOk
    <3>1. contacts' = Want /\ Running
      <4>1. /\ Board!BoardTypeOK /\ BoardInv /\ ~disturbed /\ writing \subseteq Channel /\ writing = Want
        BY <2>0, <2>2, TypeParts DEF Before, IInv, OverInv, CalmInv, StepInv, LoopTypeOK, WriteOk, At
      <4> QED BY <2>2, <4>1, Applied DEF WriteOk, Running, At
    <3>2. ch \notin asserted
      BY <2>0, <2>2, <3>1, Dropped
    <3>3. offAge = MaxAge \/ offAge >= FallOf(cfg, ch)
      BY <1>3, <3>1, <3>2 DEF HoldInv
    <3> QED BY <2>0, <2>1, <3>3
  <2>3. CASE ~WriteOk
    <3>1. ~StandDown
      BY DEF StandDown
    <3>2. contacts' = contacts
      BY <2>0, <2>3, <3>1, BoardMoves
    <3>3. cfg'.inverted = cfg.inverted
      <4>1. cfg' \in Config
        BY <1>3, StepKeeps, TypeParts DEF IInv, SeqTypeOK
      <4> QED BY <2>0, <4>1 DEF OneWiring
    <3> QED BY <3>2, <3>3 DEF InTransmit
  <2> QED BY <2>2, <2>3
<1> QED BY OversKept, WorkerAccounted, <1>1, <1>2, <1>3, PTL DEF Spec, HoldKept

=============================================================================
