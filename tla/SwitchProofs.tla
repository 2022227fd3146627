---------------------------- MODULE SwitchProofs ----------------------------
(***************************************************************************)
(* Contacts first, drive second, for any number of radios whose overs are  *)
(* all driven by their engines: what the hub has told the worker is what   *)
(* the radios' bits say, and no carrier meets an open contact.             *)
(***************************************************************************)
EXTENDS StationProofs, SequenceTheorems

\* Every over is driven by an engine, refused, or refused after its lead; dials
\* move, the sense radio's among them, and contacts are tested at any moment.
\* No line is wired to key the station in the engines' place.  (Carriers keyed
\* elsewhere, and front ends swapped under an over, do overtake each other in
\* the hub: the run unkey_race shows it.)
EngineDriven ==
    Happens \subseteq {"keyFails", "retune", "test"} /\ ~Wired

----------------------------------------------------------------------------
(* The invariant.                                                          *)

\* The messages that start or end an over.
Edge(m) == m.op \in {"key", "abort"}

NoEdge(s) == \A i \in DOMAIN s : ~Edge(s[i])

\* Where a worker that is on the air or not will be once it has read s.
Ends(s, on) ==
    \/ on /\ NoEdge(s)
    \/ \E i \in DOMAIN s : s[i] = Key(TRUE) /\ \A j \in DOMAIN s : j > i => ~Edge(s[j])

\* Where an engine is, whether or not it reports its dial on the way.
Bound(r, label) == pc[r] = label \/ (pc[r] = "tell" /\ cont[r] = label)

\* The radio's bit is set: from its claim until the release that undoes it.
Claimed(r) ==
    \/ pc[r] \in {"keySend", "lead", "begin", "release", "abort"}
    \/ Bound(r, "work") /\ txActive[r]

\* The bit is cleared, and the worker not yet told.
KeyUpOwed(r) == pc[r] \in {"unkeySend", "abortSend"}

\* The worker has been sent the key-down of this over, and not its end.
Sent(r) == (Claimed(r) /\ pc[r] # "keySend") \/ KeyUpOwed(r)

\* The lead has been waited out.
UnderWay(r) == pc[r] = "begin" \/ (Bound(r, "work") /\ txActive[r])

\* The gate is this radio's for as long as any of that lasts.
Holds(r) ==
    \/ pc[r] \in {"rails", "claim", "over"} \/ (pc[r] = "tell" /\ cont[r] = "begin")
    \/ Claimed(r) \/ KeyUpOwed(r)

\* Which calls an engine makes, and where it goes on from each.
CallInv(r) ==
    \/ pc[r] \in {"work", "rails", "begin", "deny", "over"}
    \/ pc[r] = "tell" /\ cont[r] \in {"work", "begin"}
    \/ pc[r] \in {"claim", "keySend", "lead"} /\ cont[r] = "begin"
    \/ pc[r] \in {"release", "unkeySend"} /\ cont[r] = "over"
    \/ pc[r] \in {"abort", "abortSend"} /\ cont[r] = "deny"

\* Nothing keys a radio but its engine, and the switch stays installed.
CalmInv ==
    /\ slot /\ running /\ present /\ ~senseOnAir /\ senseEdge = NoLevel
    /\ \A i \in DOMAIN inbox : inbox[i].op # "shutdown"
    /\ \A r \in Radio : ~rigTx[r] /\ ~cwGate[r] /\ ~relayPending[r]

LeadInv(r) == UnderWay(r) => closed = Channel /\ engineOnAir /\ NoEdge(inbox)

EngineInv(r) ==
    /\ CallInv(r)
    /\ r \in bits <=> Claimed(r)
    /\ Holds(r) => owner = r
    /\ txActive[r] => Bound(r, "work") \/ pc[r] \in {"release", "unkeySend", "over"}
    /\ rf[r] => txActive[r] /\ Bound(r, "work")

\* What is still on its way to the worker ends where the radios are.
QueueInv == Ends(inbox, engineOnAir) <=> \E r \in Radio : Sent(r)

SInv ==
    /\ TypeOK /\ CalmInv /\ QueueInv
    /\ \A r \in Radio : EngineInv(r) /\ LeadInv(r)

----------------------------------------------------------------------------
(* The queue.                                                              *)

\* Key-downs, key-ups and aborts are told apart by what they carry.
LEMMA KeyEnds ==
    /\ Edge(Key(TRUE)) /\ Edge(Key(FALSE)) /\ Edge(Abort)
    /\ Key(FALSE) # Key(TRUE) /\ Abort # Key(TRUE)
<1>1. Key(TRUE).op = "key" /\ Key(FALSE).op = "key" /\ Abort.op = "abort"
  BY DEF Key, Abort
<1>2. Key(TRUE).on = TRUE /\ Key(FALSE).on = FALSE
  BY DEF Key
<1> QED BY <1>1, <1>2 DEF Edge

\* A message that ends no over changes nothing about where the queue ends.
LEMMA JoinedQuietly ==
    ASSUME NEW s \in Seq(Ctrl), NEW m \in Seq(Ctrl), NoEdge(m), NEW on
    PROVE  /\ NoEdge(s \o m) <=> NoEdge(s)
           /\ Ends(s \o m, on) <=> Ends(s, on)
<1> DEFINE t == s \o m
<1>1. /\ Len(s) \in Nat /\ Len(m) \in Nat /\ Len(t) = Len(s) + Len(m)
      /\ DOMAIN s = 1 .. Len(s) /\ DOMAIN m = 1 .. Len(m) /\ DOMAIN t = 1 .. Len(t)
  OBVIOUS
<1>2. /\ \A i \in 1 .. Len(s) : t[i] = s[i]
      /\ \A i \in 1 .. Len(t) : i > Len(s) => t[i] = m[i - Len(s)] /\ i - Len(s) \in 1 .. Len(m)
  OBVIOUS
<1> HIDE DEF t
<1>3. \A i \in DOMAIN t : i > Len(s) => ~Edge(t[i])
  BY <1>1, <1>2 DEF NoEdge
<1>4. \A i \in DOMAIN s : i \in DOMAIN t /\ t[i] = s[i]
  BY <1>1, <1>2
<1>5. \A i \in DOMAIN t : i \in DOMAIN s \/ ~Edge(t[i])
  <2>1. \A i \in DOMAIN t : i \in DOMAIN s \/ i > Len(s)
    BY <1>1
  <2> QED BY <1>3, <2>1
<1>6. NoEdge(t) <=> NoEdge(s)
  BY <1>4, <1>5 DEF NoEdge
<1>7. ASSUME NEW i \in DOMAIN s, s[i] = Key(TRUE), \A j \in DOMAIN s : j > i => ~Edge(s[j])
      PROVE  Ends(t, on)
  <2>1. \A j \in DOMAIN t : j > i => ~Edge(t[j])
    BY <1>4, <1>5, <1>7
  <2>2. i \in DOMAIN t /\ t[i] = Key(TRUE)
    BY <1>4, <1>7
  <2> QED BY <2>1, <2>2 DEF Ends
<1>8. ASSUME NEW i \in DOMAIN t, t[i] = Key(TRUE), \A j \in DOMAIN t : j > i => ~Edge(t[j])
      PROVE  Ends(s, on)
  <2>1. Edge(t[i])
    BY <1>8, KeyEnds
  <2>2. i \in DOMAIN s /\ s[i] = Key(TRUE)
    BY <1>4, <1>5, <1>8, <2>1
  <2>3. \A j \in DOMAIN s : j > i => ~Edge(s[j])
    BY <1>4, <1>8
  <2> QED BY <2>2, <2>3 DEF Ends
<1> QED BY <1>6, <1>7, <1>8 DEF Ends, t

\* The last of the messages that join a queue is the last of the queue.
LEMMA JoinedLast ==
    ASSUME NEW s \in Seq(Ctrl), NEW m \in Seq(Ctrl), m # <<>>
    PROVE  \E last \in DOMAIN (s \o m) :
              /\ (s \o m)[last] = m[Len(m)]
              /\ \A j \in DOMAIN (s \o m) : ~(j > last)
<1>1. Len(s) \in Nat /\ Len(m) \in Nat \ {0} /\ Len(s \o m) = Len(s) + Len(m)
  OBVIOUS
<1>2. DOMAIN (s \o m) = 1 .. Len(s) + Len(m)
  BY <1>1
<1>3. Len(s) + Len(m) \in DOMAIN (s \o m) /\ (s \o m)[Len(s) + Len(m)] = m[Len(m)]
  BY <1>1
<1> QED BY <1>1, <1>2, <1>3

\* A key-down put last is where the queue ends ...
LEMMA JoinedKeyDown ==
    ASSUME NEW s \in Seq(Ctrl), NEW m \in Seq(Ctrl), NEW on
    PROVE  Ends(s \o Append(m, Key(TRUE)), on)
<1> DEFINE e == Append(m, Key(TRUE))
<1>1. Key(TRUE) \in Ctrl
  BY DEF Ctrl
<1>2. e \in Seq(Ctrl) /\ e # <<>> /\ e[Len(e)] = Key(TRUE)
  <2>1. \A x \in Ctrl : LET a == Append(m, x) IN a \in Seq(Ctrl) /\ a # <<>> /\ a[Len(a)] = x
    OBVIOUS
  <2> QED BY <1>1, <2>1
<1> HIDE DEF e
<1>3. PICK last \in DOMAIN (s \o e) :
         (s \o e)[last] = Key(TRUE) /\ \A j \in DOMAIN (s \o e) : ~(j > last)
  BY <1>2, JoinedLast
<1>4. Ends(s \o e, on)
  BY <1>3 DEF Ends
<1> QED BY <1>4 DEF e

\* ... and so is the end of an over.
LEMMA JoinedKeyUp ==
    ASSUME NEW s \in Seq(Ctrl), NEW msg \in {Key(FALSE), Abort}, NEW on
    PROVE  ~Ends(s \o <<msg>>, on)
<1> DEFINE e == <<msg>>
<1>1. msg \in Ctrl /\ Edge(msg) /\ msg # Key(TRUE)
  BY KeyEnds DEF Ctrl
<1>2. e \in Seq(Ctrl) /\ e # <<>> /\ e[Len(e)] = msg
  BY <1>1
<1> HIDE DEF e
<1>3. PICK last \in DOMAIN (s \o e) :
         (s \o e)[last] = msg /\ \A j \in DOMAIN (s \o e) : ~(j > last)
  BY <1>2, JoinedLast
<1>4. ~NoEdge(s \o e)
  BY <1>1, <1>3 DEF NoEdge
<1>5. \A i \in DOMAIN (s \o e) : i \in Nat /\ last \in Nat
  BY <1>1, <1>2
<1>6. ASSUME NEW i \in DOMAIN (s \o e), (s \o e)[i] = Key(TRUE),
             \A j \in DOMAIN (s \o e) : j > i => ~Edge((s \o e)[j])
      PROVE  FALSE
  <2>1. ~(last > i) /\ ~(i > last)
    BY <1>1, <1>3, <1>6
  <2>2. i = last
    BY <1>5, <2>1
  <2> QED BY <1>1, <1>3, <1>6, <2>2
<1>7. ~Ends(s \o e, on)
  BY <1>4, <1>6 DEF Ends
<1> QED BY <1>7 DEF e

\* Queues of messages join in any order of joining.
LEMMA Queues ==
    \A s, t, u \in Seq(Ctrl) : s \o t \in Seq(Ctrl) /\ (s \o t) \o u = s \o (t \o u)
<1> SUFFICES ASSUME NEW s \in Seq(Ctrl), NEW t \in Seq(Ctrl), NEW u \in Seq(Ctrl)
             PROVE  s \o t \in Seq(Ctrl) /\ (s \o t) \o u = s \o (t \o u)
  OBVIOUS
<1>1. s \o t \in Seq(Ctrl)
  BY ConcatProperties
<1>2. (s \o t) \o u = s \o (t \o u)
  BY ConcatAssociative
<1> QED BY <1>1, <1>2

\* Reading the first message of the queue moves the worker, not where it ends.
LEMMA Read ==
    ASSUME NEW s \in Seq(Ctrl), s # <<>>, NEW on \in BOOLEAN, NEW next \in BOOLEAN,
           next = IF Head(s).op = "key" THEN Head(s).on
                  ELSE IF Head(s).op = "abort" THEN FALSE ELSE on
    PROVE  /\ NoEdge(s) => NoEdge(Tail(s)) /\ ~Edge(Head(s))
           /\ Ends(Tail(s), next) <=> Ends(s, on)
<1> DEFINE t == Tail(s)
           h == Head(s)
<1>1. /\ Len(s) \in Nat \ {0} /\ Len(t) = Len(s) - 1
      /\ DOMAIN s = 1 .. Len(s) /\ DOMAIN t = 1 .. Len(t)
      /\ h = s[1] /\ 1 \in DOMAIN s
      /\ \A i \in DOMAIN t : t[i] = s[i + 1] /\ i + 1 \in DOMAIN s
      /\ \A i \in DOMAIN s : i # 1 => s[i] = t[i - 1] /\ i - 1 \in DOMAIN t
  OBVIOUS
<1>2. h \in Ctrl /\ (h.op = "key" => h = Key(h.on) /\ h.on \in BOOLEAN)
  <2>1. h \in Ctrl
    BY <1>1
  <2> HIDE DEF h
  <2> QED BY <2>1 DEF Ctrl, Key, Abort, Shutdown, RxBand, TxBand, Test
<1> HIDE DEF t, h
<1>3. NoEdge(s) <=> NoEdge(t) /\ ~Edge(h)
  BY <1>1 DEF NoEdge
<1>4. h = Key(TRUE) <=> h.op = "key" /\ next
  <2>1. CASE h.op = "key"
    <3>1. next = h.on /\ h = Key(next)
      BY <1>2, <2>1 DEF h
    <3>2. Key(TRUE).on = TRUE /\ Key(FALSE).on = FALSE
      BY DEF Key
    <3> QED BY <2>1, <3>1, <3>2
  <2>2. CASE h.op # "key"
    BY <2>2 DEF Key
  <2> QED BY <2>1, <2>2
<1>5. ~Edge(h) => next = on
  BY DEF Edge, h
<1>6. Edge(h) /\ next => h = Key(TRUE)
  <2>1. h.op = "abort" => ~next
    BY DEF h
  <2> QED BY <1>4, <2>1 DEF Edge
<1>7. ASSUME NEW i \in DOMAIN t
      PROVE  (t[i] = Key(TRUE) /\ \A j \in DOMAIN t : j > i => ~Edge(t[j]))
               <=> (s[i + 1] = Key(TRUE) /\ \A j \in DOMAIN s : j > i + 1 => ~Edge(s[j]))
  <2>1. ASSUME \A j \in DOMAIN t : j > i => ~Edge(t[j]), NEW j \in DOMAIN s, j > i + 1
        PROVE  ~Edge(s[j])
    BY <1>1, <2>1
  <2>2. ASSUME \A j \in DOMAIN s : j > i + 1 => ~Edge(s[j]), NEW j \in DOMAIN t, j > i
        PROVE  ~Edge(t[j])
    BY <1>1, <2>2
  <2> QED BY <1>1, <2>1, <2>2
<1>8. Ends(t, next) => Ends(s, on)
  <2>1. CASE next /\ NoEdge(t)
    <3>1. CASE Edge(h)
      <4>1. s[1] = Key(TRUE)
        BY <1>1, <1>6, <2>1, <3>1
      <4>2. \A j \in DOMAIN s : j > 1 => ~Edge(s[j])
        BY <1>1, <2>1 DEF NoEdge
      <4> QED BY <1>1, <4>1, <4>2 DEF Ends
    <3>2. CASE ~Edge(h)
      BY <1>3, <1>5, <2>1, <3>2 DEF Ends
    <3> QED BY <3>1, <3>2
  <2>2. CASE \E i \in DOMAIN t : t[i] = Key(TRUE) /\ \A j \in DOMAIN t : j > i => ~Edge(t[j])
    BY <1>1, <1>7, <2>2 DEF Ends
  <2> QED BY <2>1, <2>2 DEF Ends
<1>9. Ends(s, on) => Ends(t, next)
  <2>1. CASE on /\ NoEdge(s)
    BY <1>3, <1>5, <2>1 DEF Ends
  <2>2. ASSUME NEW i \in DOMAIN s, s[i] = Key(TRUE), \A j \in DOMAIN s : j > i => ~Edge(s[j])
        PROVE  Ends(t, next)
    <3>1. CASE i = 1
      <4>1. next
        BY <1>1, <1>4, <2>2, <3>1
      <4>2. NoEdge(t)
        BY <1>1, <2>2, <3>1 DEF NoEdge
      <4> QED BY <4>1, <4>2 DEF Ends
    <3>2. CASE i # 1
      <4>1. i - 1 \in DOMAIN t /\ (i - 1) + 1 = i
        BY <1>1, <3>2
      <4>2. t[i - 1] = Key(TRUE) /\ \A j \in DOMAIN t : j > i - 1 => ~Edge(t[j])
        BY <1>7, <2>2, <4>1
      <4> QED BY <4>1, <4>2 DEF Ends
    <3> QED BY <3>1, <3>2
  <2> QED BY <2>1, <2>2 DEF Ends
<1> QED BY <1>3, <1>8, <1>9 DEF t, h

----------------------------------------------------------------------------
(* A step of one engine, and the others.                                   *)

\* The step is r's engine's own: it leaves the other engines where they are,
\* their bits as they were and the gate in the hand that holds it.
Alone(r) ==
    \A s \in Radio \ {r} :
        /\ pc'[s] = pc[s] /\ cont'[s] = cont[s]
        /\ txActive'[s] = txActive[s] /\ rf'[s] = rf[s]
        /\ s \in bits' <=> s \in bits
        /\ owner = s => owner' = s

\* The step tells the worker nothing about an over.
SaysNoEdge ==
    /\ NoEdge(inbox) => NoEdge(inbox')
    /\ Ends(inbox', engineOnAir) <=> Ends(inbox, engineOnAir)

\* What another engine's step does not disturb.
LEMMA OthersKept ==
    ASSUME NEW r \in Radio, Alone(r), NEW s \in Radio \ {r}, EngineInv(s)
    PROVE  /\ EngineInv(s)'
           /\ Sent(s)' <=> Sent(s)
           /\ UnderWay(s)' <=> UnderWay(s)
<1>1. /\ pc'[s] = pc[s] /\ cont'[s] = cont[s]
      /\ txActive'[s] = txActive[s] /\ rf'[s] = rf[s]
      /\ s \in bits' <=> s \in bits
      /\ owner = s => owner' = s
  BY DEF Alone
<1>2. /\ CallInv(s)' <=> CallInv(s)
      /\ Claimed(s)' <=> Claimed(s)
      /\ Holds(s)' <=> Holds(s)
      /\ Sent(s)' <=> Sent(s)
      /\ UnderWay(s)' <=> UnderWay(s)
      /\ Bound(s, "work")' <=> Bound(s, "work")
  BY <1>1 DEF CallInv, Claimed, Holds, Sent, UnderWay, Bound, KeyUpOwed
<1> QED BY <1>1, <1>2 DEF EngineInv

\* Whoever the worker has been sent a key-down for holds the gate.
LEMMA SentHolds ==
    ASSUME SInv, NEW r \in Radio, Sent(r) \/ UnderWay(r) \/ r \in bits
    PROVE  Holds(r) /\ owner = r
<1>1. EngineInv(r)
  BY DEF SInv
<1>2. Holds(r)
  BY <1>1 DEF EngineInv, Holds, Sent, Claimed, UnderWay, KeyUpOwed, Bound
<1> QED BY <1>1, <1>2 DEF EngineInv

\* A step that neither starts nor ends an over.
LEMMA QuietStep ==
    ASSUME SInv, TypeOK', CalmInv', NEW r \in Radio, Alone(r), EngineInv(r)',
           SaysNoEdge, UNCHANGED <<engineOnAir, closed>>,
           Sent(r)' <=> Sent(r),
           UnderWay(r)' => UnderWay(r) \/ (closed = Channel /\ engineOnAir /\ NoEdge(inbox))
    PROVE  SInv'
<1>1. ASSUME NEW s \in Radio
      PROVE  EngineInv(s)' /\ (Sent(s)' <=> Sent(s)) /\ LeadInv(s)'
  <2>1. EngineInv(s) /\ LeadInv(s)
    BY DEF SInv
  <2>2. CASE s = r
    BY <2>1, <2>2 DEF LeadInv, SaysNoEdge
  <2>3. CASE s # r
    BY <2>1, <2>3, OthersKept DEF LeadInv, SaysNoEdge
  <2> QED BY <2>2, <2>3
<1>2. QueueInv'
  <2>1. Ends(inbox, engineOnAir)' <=> Ends(inbox, engineOnAir)
    BY DEF SaysNoEdge, Ends
  <2> QED BY <1>1, <2>1 DEF SInv, QueueInv
<1> QED BY <1>1, <1>2 DEF SInv

\* A step that tells the worker that r's over starts or ends: nobody else has
\* one, because r has the gate.
LEMMA EdgeStep ==
    ASSUME SInv, TypeOK', CalmInv', NEW r \in Radio, Holds(r), Alone(r), EngineInv(r)',
           ~UnderWay(r)', Ends(inbox', engineOnAir') <=> Sent(r)'
    PROVE  SInv'
<1>1. EngineInv(r) /\ owner = r
  BY DEF SInv, EngineInv
<1>2. ASSUME NEW s \in Radio \ {r}
      PROVE  EngineInv(s)' /\ ~Sent(s)' /\ ~UnderWay(s)'
  <2>1. ~Sent(s) /\ ~UnderWay(s)
    BY <1>1, SentHolds
  <2> QED BY <2>1, OthersKept DEF SInv
<1>3. QueueInv'
  <2>1. Ends(inbox, engineOnAir)' <=> Ends(inbox', engineOnAir')
    BY DEF Ends
  <2> QED BY <1>2, <2>1 DEF QueueInv
<1> QED BY <1>2, <1>3 DEF SInv, LeadInv

\* A step that says nothing to the worker at all says nothing of an over.
LEMMA Silence == UNCHANGED inbox => SaysNoEdge
BY DEF SaysNoEdge

\* Band messages and tests start and end no over.
LEMMA NoEdgeMessages ==
    /\ \A r \in Radio \cup {NoRadio} : NoEdge(TxBandMsg(r))
    /\ \A ch \in Channel : NoEdge(<<Test(ch)>>)
    /\ \A b \in Band, p, f \in BOOLEAN :
         NoEdge((IF p THEN <<RxBand(b)>> ELSE <<>>) \o (IF f THEN <<TxBand(b)>> ELSE <<>>))
<1>1. \A b : ~Edge(RxBand(b)) /\ ~Edge(TxBand(b)) /\ ~Edge(Test(b))
  BY DEF Edge, RxBand, TxBand, Test
<1> QED BY <1>1 DEF NoEdge, TxBandMsg

----------------------------------------------------------------------------
(* The engine's steps, one by one.                                         *)

\* Where a step of r's engine takes it, and nobody else.
LEMMA Moves ==
    ASSUME TypeOK, NEW r \in Radio, NEW to, NEW return
    PROVE  /\ Goto(r, to) =>
                /\ pc'[r] = to /\ cont'[r] = cont[r]
                /\ \A s \in Radio \ {r} : pc'[s] = pc[s] /\ cont'[s] = cont[s]
           /\ Call(r, to, return) =>
                /\ pc'[r] = to /\ cont'[r] = return
                /\ \A s \in Radio \ {r} : pc'[s] = pc[s] /\ cont'[s] = cont[s]
BY DEF TypeOK, Goto, Call

\* What the worker is told while the switch is installed.
LEMMA Told ==
    ASSUME SInv, NEW m \in Seq(Ctrl), \A i \in DOMAIN m : m[i].op # "shutdown", Tell(m)
    PROVE  /\ inbox' = inbox \o m
           /\ NoEdge(m) => SaysNoEdge
           /\ \A i \in DOMAIN inbox' : inbox'[i].op # "shutdown"
<1>1. inbox' = inbox \o m /\ inbox \in Seq(Ctrl)
  BY DEF SInv, CalmInv, Tell, TypeOK, HubTypeOK, ContactsTypeOK
<1>2. NoEdge(m) => SaysNoEdge
  BY <1>1, JoinedQuietly DEF SaysNoEdge
<1>3. \A i \in DOMAIN inbox' : inbox'[i].op # "shutdown"
  <2>1. \A i \in DOMAIN inbox : inbox[i].op # "shutdown"
    BY DEF SInv, CalmInv
  <2>2. ASSUME NEW i \in DOMAIN (inbox \o m)
        PROVE  \/ i \in DOMAIN inbox /\ (inbox \o m)[i] = inbox[i]
               \/ \E j \in DOMAIN m : (inbox \o m)[i] = m[j]
    BY <1>1
  <2> QED BY <1>1, <2>1, <2>2
<1> QED BY <1>1, <1>2, <1>3

\* Nothing keys a radio but its engine, so its bit is its over's.
LEMMA BitIsOver ==
    ASSUME SInv, NEW r \in Radio, Bound(r, "work")
    PROVE  (r \in bits) = OnAirR(r) /\ OnAirR(r) = txActive[r]
<1>1. (r \in bits <=> Claimed(r)) /\ ~rigTx[r] /\ ~cwGate[r] /\ txActive[r] \in BOOLEAN
  BY DEF SInv, EngineInv, CalmInv, TypeOK
<1>2. Claimed(r) <=> txActive[r]
  BY DEF Claimed, Bound
<1> QED BY <1>1, <1>2 DEF OnAirR, OnAirBy

\* set_rx_band and set_tx_band: the dial's band reaches the worker.
LEMMA TellBandsKeeps ==
    ASSUME SInv, TypeOK', NEW r \in Radio, TellBands(r)
    PROVE  SInv'
<1>1. EngineInv(r) /\ CalmInv /\ TypeOK /\ pc[r] = "tell" /\ cont[r] \in {"work", "begin"}
  BY DEF SInv, EngineInv, CallInv, TellBands, At
<1>2. PICK p \in BOOLEAN, f \in BOOLEAN :
         Tell((IF p THEN <<RxBand(dial[r])>> ELSE <<>>)
              \o (IF f THEN <<TxBand(dial[r])>> ELSE <<>>))
  BY DEF TellBands, SetBands
<1> DEFINE m == (IF p THEN <<RxBand(dial[r])>> ELSE <<>>)
                \o (IF f THEN <<TxBand(dial[r])>> ELSE <<>>)
<1>3. m \in Seq(Ctrl) /\ \A i \in DOMAIN m : m[i].op # "shutdown"
  <2>1. RxBand(dial[r]) \in Ctrl /\ TxBand(dial[r]) \in Ctrl
    BY <1>1, MessageTypes DEF TypeOK
  <2>2. RxBand(dial[r]).op = "rxBand" /\ TxBand(dial[r]).op = "txBand"
    BY DEF RxBand, TxBand
  <2> QED BY <2>1, <2>2
<1>4. NoEdge(m)
  <2>1. dial[r] \in Band
    BY <1>1 DEF TypeOK
  <2> QED BY <2>1, NoEdgeMessages
<1> HIDE DEF m
<1>5. SaysNoEdge /\ \A i \in DOMAIN inbox' : inbox'[i].op # "shutdown"
  BY <1>2, <1>3, <1>4, Told DEF m
<1>6. UNCHANGED <<workerVars, bits, slot, senseEdge, owner, txActive, rigTx, cwGate, relayPending, rf>>
  BY DEF TellBands, SetBands, worldVars
<1>7. CalmInv'
  BY <1>1, <1>5, <1>6 DEF CalmInv, workerVars
<1>8. CASE cont[r] = "begin"
  <2>1. pc'[r] = "claim" /\ cont'[r] = "begin" /\ Alone(r)
    BY <1>1, <1>6, <1>8, Moves DEF TellBands, Leads, Alone
  <2>2. EngineInv(r)' /\ Sent(r)' = Sent(r) /\ ~UnderWay(r)'
    BY <1>1, <1>6, <1>8, <2>1
       DEF EngineInv, CallInv, Claimed, Holds, Sent, UnderWay, KeyUpOwed, Bound
  <2> QED BY <1>5, <1>6, <1>7, <2>1, <2>2, QuietStep DEF workerVars
<1>9. CASE cont[r] = "work"
  <2>1. (r \in bits) = OnAirR(r)
    BY <1>1, <1>9, BitIsOver DEF Bound
  <2>2. pc'[r] = "work" /\ cont'[r] = "work" /\ Alone(r)
    BY <1>1, <1>6, <1>9, <2>1, Moves DEF TellBands, Leads, PublishLabel, Alone
  <2>3. EngineInv(r)' /\ Sent(r)' = Sent(r) /\ UnderWay(r)' = UnderWay(r)
    BY <1>1, <1>6, <1>9, <2>2
       DEF EngineInv, CallInv, Claimed, Holds, Sent, UnderWay, KeyUpOwed, Bound
  <2> QED BY <1>5, <1>6, <1>7, <2>2, <2>3, QuietStep DEF workerVars
<1> QED BY <1>1, <1>8, <1>9

\* A radio about to set its bit finds the mask empty: the gate saw to that.
LEMMA AloneOnTheWay ==
    ASSUME SInv, NEW r \in Radio, Claim(r)
    PROVE  bits = {}
<1>1. EngineInv(r) /\ pc[r] = "claim" /\ cont[r] = "begin"
  BY DEF SInv, EngineInv, CallInv, Claim, At
<1>2. owner = r /\ r \notin bits
  BY <1>1 DEF EngineInv, Holds, Claimed, Bound
<1>3. ASSUME NEW s \in bits PROVE FALSE
  BY <1>2, <1>3, SentHolds DEF SInv, TypeOK, HubTypeOK
<1> QED BY <1>3

\* key: the bit is set first ...
LEMMA ClaimKeeps ==
    ASSUME SInv, TypeOK', NEW r \in Radio, Claim(r)
    PROVE  SInv'
<1>1. EngineInv(r) /\ CalmInv /\ TypeOK /\ pc[r] = "claim" /\ cont[r] = "begin"
  BY DEF SInv, EngineInv, CallInv, Claim, At
<1>2. owner = r /\ r \notin bits
  BY <1>1 DEF EngineInv, Holds, Claimed, Bound
<1>3. bits = {}
  BY AloneOnTheWay
<1>4. UNCHANGED <<contactVars, slot, senseEdge, owner, txActive, rigTx, cwGate, relayPending, rf>>
  BY DEF Claim, KeyClaim, engineVars, worldVars
<1>5. bits' = {r} /\ pc'[r] = "keySend" /\ cont'[r] = "begin" /\ Alone(r)
  BY <1>1, <1>3, <1>4, Moves DEF Claim, KeyClaim, Alone
<1>6. CalmInv'
  BY <1>1, <1>4 DEF CalmInv, contactVars
<1>7. EngineInv(r)' /\ Sent(r)' = Sent(r) /\ ~UnderWay(r)'
  BY <1>1, <1>2, <1>4, <1>5
     DEF EngineInv, CallInv, Claimed, Holds, Sent, UnderWay, KeyUpOwed, Bound
<1> QED BY <1>4, <1>5, <1>6, <1>7, Silence, QuietStep DEF contactVars

\* ... and the key-down sent after it, behind the keyer's band.
LEMMA SendKeyDownKeeps ==
    ASSUME SInv, TypeOK', NEW r \in Radio, SendKeyDown(r)
    PROVE  SInv'
<1>1. /\ EngineInv(r) /\ CalmInv /\ TypeOK /\ pc[r] = "keySend" /\ cont[r] = "begin"
      /\ inbox \in Seq(Ctrl)
  BY DEF SInv, EngineInv, CallInv, SendKeyDown, At, TypeOK, HubTypeOK, ContactsTypeOK
<1>2. UNCHANGED <<workerVars, bits, slot, senseEdge, owner, txActive, rigTx, cwGate, relayPending, rf>>
  BY DEF SendKeyDown, KeySend, engineVars, worldVars
<1>3. pc'[r] = "lead" /\ cont'[r] = "begin" /\ Alone(r)
  BY <1>1, <1>2, Moves DEF SendKeyDown, Leads, Alone, CalmInv
<1> DEFINE m == TxBandMsg(r)
<1>4. m \in Seq(Ctrl) /\ Key(TRUE) \in Ctrl
  BY <1>1, MessageTypes DEF TypeOK
<1>5. \A i \in DOMAIN m : m[i].op # "shutdown"
  BY DEF TxBandMsg, TxBand
<1> HIDE DEF m
<1>6. /\ Append(m, Key(TRUE)) \in Seq(Ctrl)
      /\ \A i \in DOMAIN Append(m, Key(TRUE)) : Append(m, Key(TRUE))[i].op # "shutdown"
  <2>1. Key(TRUE).op # "shutdown"
    BY DEF Key
  <2>2. \A x \in Ctrl : x.op # "shutdown" =>
           /\ Append(m, x) \in Seq(Ctrl)
           /\ \A i \in DOMAIN Append(m, x) : Append(m, x)[i].op # "shutdown"
    BY <1>4, <1>5
  <2> QED BY <1>4, <2>1, <2>2
<1>7. Tell(Append(m, Key(TRUE)))
  BY DEF SendKeyDown, KeySend, m
<1>8. /\ inbox' = inbox \o Append(m, Key(TRUE))
      /\ \A i \in DOMAIN inbox' : inbox'[i].op # "shutdown"
  BY <1>6, <1>7, Told
<1>9. CalmInv'
  BY <1>1, <1>2, <1>8 DEF CalmInv, workerVars
<1>10. Ends(inbox', engineOnAir')
  BY <1>1, <1>4, <1>8, JoinedKeyDown
<1>11. EngineInv(r)' /\ Holds(r) /\ Sent(r)' /\ ~UnderWay(r)'
  BY <1>1, <1>2, <1>3
     DEF EngineInv, CallInv, Claimed, Holds, Sent, UnderWay, KeyUpOwed, Bound
<1> QED BY <1>3, <1>9, <1>10, <1>11, EdgeStep

\* The lead has been slept out: the worker has had the key-down, and closed its
\* contacts.
LEMMA LeadKeeps ==
    ASSUME SInv, TypeOK', NEW r \in Radio, Lead(r)
    PROVE  SInv'
<1>1. /\ EngineInv(r) /\ CalmInv /\ TypeOK /\ pc[r] = "lead" /\ cont[r] = "begin"
      /\ Key(TRUE) \notin {inbox[i] : i \in DOMAIN inbox}
  BY DEF SInv, EngineInv, CallInv, Lead, LeadServed, At
<1>2. UNCHANGED <<hub, owner, engineVars, worldVars>>
  BY DEF Lead
<1>3. pc'[r] = "begin" /\ cont'[r] = "begin" /\ Alone(r)
  BY <1>1, <1>2, Moves DEF Lead, Alone, hub, hubVars, engineVars, worldVars
<1>4. Sent(r)
  BY <1>1 DEF Sent, Claimed
<1>5. engineOnAir /\ NoEdge(inbox)
  <2>1. Ends(inbox, engineOnAir)
    BY <1>4 DEF SInv, QueueInv
  <2> QED BY <1>1, <2>1 DEF Ends
<1>6. closed = Channel
  BY <1>1, <1>5 DEF Lead, LeadServed, OnAir, CalmInv
<1>7. CalmInv'
  BY <1>1, <1>2 DEF CalmInv, hub, hubVars, contactVars, engineVars
<1>8. EngineInv(r)' /\ Sent(r)'
  BY <1>1, <1>2, <1>3
     DEF EngineInv, CallInv, Claimed, Holds, Sent, UnderWay, KeyUpOwed, Bound,
         hub, hubVars, engineVars, worldVars
<1>9. UNCHANGED <<inbox, engineOnAir, closed>>
  BY <1>2 DEF hub, contactVars
<1> QED BY <1>3, <1>4, <1>5, <1>6, <1>7, <1>8, <1>9, Silence, QuietStep

\* unkey and abort: the bit goes first ...
LEMMA ReleaseKeeps ==
    ASSUME SInv, TypeOK', NEW r \in Radio, Unclaim(r) \/ AbortClaim(r)
    PROVE  SInv'
<1>1. /\ EngineInv(r) /\ CalmInv /\ TypeOK
      /\ \/ pc[r] = "release" /\ cont[r] = "over"
         \/ pc[r] = "abort" /\ cont[r] = "deny"
  BY DEF SInv, EngineInv, CallInv, Unclaim, AbortClaim, At
<1>2. owner = r /\ r \in bits
  BY <1>1 DEF EngineInv, Holds, Claimed, Bound
<1>3. bits = {r}
  <2>1. ASSUME NEW s \in bits PROVE s = r
    BY <1>2, <2>1, SentHolds DEF SInv, TypeOK, HubTypeOK
  <2> QED BY <1>2, <2>1
<1>4. UNCHANGED <<contactVars, slot, senseEdge, owner, txActive, rigTx, cwGate, relayPending, rf>>
  BY DEF Unclaim, AbortClaim, ReleaseClaim, engineVars, worldVars
<1>5. /\ bits' = {} /\ cont'[r] = cont[r] /\ Alone(r)
      /\ pc'[r] = IF pc[r] = "release" THEN "unkeySend" ELSE "abortSend"
  <2>1. CASE Unclaim(r)
    BY <1>1, <1>3, <1>4, <2>1, Moves DEF Unclaim, At, ReleaseClaim, UnkeySends, Alone
  <2>2. CASE AbortClaim(r)
    BY <1>1, <1>3, <1>4, <2>2, Moves DEF AbortClaim, At, ReleaseClaim, AbortSends, Alone
  <2> QED BY <2>1, <2>2
<1>6. CalmInv'
  BY <1>1, <1>4 DEF CalmInv, contactVars
<1>7. EngineInv(r)' /\ Sent(r)' = Sent(r) /\ ~UnderWay(r)'
  BY <1>1, <1>2, <1>4, <1>5
     DEF EngineInv, CallInv, Claimed, Holds, Sent, UnderWay, KeyUpOwed, Bound
<1> QED BY <1>4, <1>5, <1>6, <1>7, Silence, QuietStep DEF contactVars

\* ... and the message after it.
LEMMA SendOverEndKeeps ==
    ASSUME SInv, TypeOK', NEW r \in Radio, SendKeyUp(r) \/ SendAbort(r)
    PROVE  SInv'
<1>1. /\ EngineInv(r) /\ CalmInv /\ TypeOK /\ inbox \in Seq(Ctrl)
      /\ \/ pc[r] = "unkeySend" /\ cont[r] = "over"
         \/ pc[r] = "abortSend" /\ cont[r] = "deny"
  BY DEF SInv, EngineInv, CallInv, SendKeyUp, SendAbort, At, TypeOK, HubTypeOK, ContactsTypeOK
<1>2. PICK msg \in {Key(FALSE), Abort} : OverEnded(msg)
  BY DEF SendKeyUp, SendAbort, UnkeySend, AbortSend
<1>3. UNCHANGED <<workerVars, bits, slot, senseEdge, owner, txActive, rigTx, cwGate, relayPending, rf>>
  BY <1>2 DEF SendKeyUp, SendAbort, OverEnded, engineVars, worldVars
<1>4. pc'[r] = cont[r] /\ cont'[r] = cont[r] /\ Alone(r)
  BY <1>1, <1>3, Moves DEF SendKeyUp, SendAbort, Alone
<1>5. /\ <<msg>> \in Seq(Ctrl) /\ \A i \in DOMAIN <<msg>> : <<msg>>[i].op # "shutdown"
  <2>1. Key(FALSE).op = "key" /\ Abort.op = "abort" /\ Key(FALSE) \in Ctrl /\ Abort \in Ctrl
    BY DEF Ctrl, Key, Abort
  <2>2. \A x \in Ctrl : x.op # "shutdown" =>
           <<x>> \in Seq(Ctrl) /\ \A i \in DOMAIN <<x>> : <<x>>[i].op # "shutdown"
    OBVIOUS
  <2>3. msg \in Ctrl /\ msg.op # "shutdown"
    BY <2>1
  <2> QED BY <2>2, <2>3
<1> DEFINE m == TxBandMsg(SenseRadio)
           e == <<msg>>
<1>6. m \in Seq(Ctrl) /\ NoEdge(m) /\ \A i \in DOMAIN m : m[i].op # "shutdown"
  <2>1. m \in Seq(Ctrl)
    BY <1>1, MessageTypes, SenseAssumption DEF TypeOK
  <2>2. \A i \in DOMAIN m : m[i].op # "shutdown"
    BY DEF TxBandMsg, TxBand
  <2> QED BY <2>1, <2>2, NoEdgeMessages, SenseAssumption
<1>7. inbox' = (inbox \o e) \o m /\ \A i \in DOMAIN inbox' : inbox'[i].op # "shutdown"
  <2>1. Tell(e \o m)
    BY <1>2 DEF OverEnded
  <2> HIDE DEF m, e
  <2>2. e \in Seq(Ctrl) /\ \A i \in DOMAIN e : e[i].op # "shutdown"
    BY <1>5 DEF e
  <2>3. e \o m \in Seq(Ctrl) /\ \A i \in DOMAIN (e \o m) : (e \o m)[i].op # "shutdown"
    BY <1>6, <2>2
  <2>4. /\ inbox' = inbox \o (e \o m)
        /\ \A i \in DOMAIN inbox' : inbox'[i].op # "shutdown"
    BY <2>1, <2>3, Told
  <2> QED BY <1>1, <1>6, <2>2, <2>4, Queues
<1> HIDE DEF m
<1>8. CalmInv'
  BY <1>1, <1>3, <1>7 DEF CalmInv, workerVars
<1>9. ~Ends(inbox', engineOnAir')
  <2>1. ~Ends(inbox \o e, engineOnAir')
    BY <1>1, JoinedKeyUp
  <2>2. inbox \o e \in Seq(Ctrl)
    BY <1>1, <1>5, Queues
  <2> QED BY <1>6, <1>7, <2>1, <2>2, JoinedQuietly
<1>10. EngineInv(r)' /\ Holds(r) /\ ~Sent(r)' /\ ~UnderWay(r)'
  BY <1>1, <1>3, <1>4
     DEF EngineInv, CallInv, Claimed, Holds, Sent, UnderWay, KeyUpOwed, Bound
<1> QED BY <1>4, <1>8, <1>9, <1>10, EdgeStep

\* An operator keys: the gate, or a denial.
LEMMA KeyDownKeeps ==
    ASSUME SInv, TypeOK', NEW r \in Radio, KeyDown(r)
    PROVE  SInv'
<1>1. EngineInv(r) /\ CalmInv /\ TypeOK /\ pc[r] = "work" /\ ~txActive[r]
  BY DEF SInv, EngineInv, KeyDown, At
<1>2. UNCHANGED <<hub, txActive, rigTx, cwGate, relayPending, rf>>
  BY DEF KeyDown, worldVars
<1>3. \/ Goto(r, "deny") /\ owner' = owner
      \/ Goto(r, "rails") /\ owner \in {NoRadio, r} /\ owner' = r
  BY DEF KeyDown, Gate!Acquire, Gate!Grants
<1>4. /\ pc'[r] = "deny" \/ (pc'[r] = "rails" /\ owner' = r)
      /\ cont'[r] = cont[r] /\ Alone(r)
  BY <1>1, <1>2, <1>3, Moves, RadioAssumption DEF Alone, hub, hubVars
<1>5. CalmInv'
  BY <1>1, <1>2 DEF CalmInv, hub, hubVars, contactVars
<1>6. EngineInv(r)' /\ Sent(r)' = Sent(r) /\ ~UnderWay(r)'
  BY <1>1, <1>2, <1>4
     DEF EngineInv, CallInv, Claimed, Holds, Sent, UnderWay, KeyUpOwed, Bound, hub, hubVars
<1> QED BY <1>2, <1>4, <1>5, <1>6, Silence, QuietStep DEF hub, contactVars

\* The rails behind the gate let the over through, or deny it.
LEMMA RailsKeep ==
    ASSUME SInv, TypeOK', NEW r \in Radio, PassRails(r) \/ RefuseRails(r)
    PROVE  SInv'
<1>1. EngineInv(r) /\ CalmInv /\ TypeOK /\ pc[r] = "rails"
  BY DEF SInv, EngineInv, PassRails, RefuseRails, At
<1>2. UNCHANGED <<hub, owner, engineVars, worldVars>>
  BY DEF PassRails, RefuseRails
<1>3. /\ \/ pc'[r] \in {"tell", "claim"} /\ cont'[r] = "begin"
         \/ pc'[r] = "deny"
      /\ Alone(r)
  BY <1>1, <1>2, Moves
     DEF PassRails, RefuseRails, TellThenLead, Alone, hub, hubVars, engineVars, worldVars
<1>4. CalmInv'
  BY <1>1, <1>2 DEF CalmInv, hub, hubVars, contactVars, engineVars
<1>5. EngineInv(r)' /\ Sent(r)' = Sent(r) /\ ~UnderWay(r)'
  BY <1>1, <1>2, <1>3
     DEF EngineInv, CallInv, Claimed, Holds, Sent, UnderWay, KeyUpOwed, Bound,
         hub, hubVars, engineVars, worldVars
<1> QED BY <1>2, <1>3, <1>4, <1>5, Silence, QuietStep DEF hub, contactVars

\* The carrier comes up, or tx_begin fails and the key-down is aborted.
LEMMA BeginKeeps ==
    ASSUME SInv, TypeOK', NEW r \in Radio, TxBegin(r) \/ TxBeginFails(r)
    PROVE  SInv'
<1>1. EngineInv(r) /\ CalmInv /\ TypeOK /\ pc[r] = "begin"
  BY DEF SInv, EngineInv, TxBegin, TxBeginFails, At
<1>2. UNCHANGED <<hub, owner, rigTx, cwGate, relayPending>>
  BY DEF TxBegin, TxBeginFails, engineVars
<1>3. /\ \/ pc'[r] = "work" /\ txActive'[r]
         \/ pc'[r] = "abort" /\ cont'[r] = "deny" /\ txActive'[r] = txActive[r] /\ rf'[r] = rf[r]
      /\ Alone(r)
  <2>1. bits' = bits /\ owner' = owner
    BY <1>2 DEF hub, hubVars
  <2>2. CASE TxBegin(r)
    <3>1. Goto(r, "work") /\ txActive'[r]
      BY <1>1, <2>2 DEF TxBegin, TypeOK
    <3>2. \A s \in Radio \ {r} : txActive'[s] = txActive[s] /\ rf'[s] = rf[s]
      BY <1>1, <2>2 DEF TxBegin, TypeOK
    <3> QED BY <1>1, <2>1, <3>1, <3>2, Moves DEF Alone
  <2>3. CASE TxBeginFails(r)
    <3>1. Call(r, "abort", "deny") /\ UNCHANGED <<txActive, rf>>
      BY <2>3 DEF TxBeginFails, engineVars, worldVars
    <3> QED BY <1>1, <2>1, <3>1, Moves DEF Alone
  <2> QED BY <2>2, <2>3
<1>4. CalmInv'
  BY <1>1, <1>2 DEF CalmInv, hub, hubVars, contactVars
<1>5. EngineInv(r)' /\ Sent(r)' = Sent(r) /\ UnderWay(r)
  BY <1>1, <1>2, <1>3
     DEF EngineInv, CallInv, Claimed, Holds, Sent, UnderWay, KeyUpOwed, Bound, hub, hubVars
<1> QED BY <1>2, <1>3, <1>4, <1>5, Silence, QuietStep DEF hub, contactVars

\* A denial, and the end of an over, give the gate back and find the bit as it
\* should be.
LEMMA LetGoKeeps ==
    ASSUME SInv, TypeOK', NEW r \in Radio, Deny(r) \/ Over(r)
    PROVE  SInv'
<1>1. EngineInv(r) /\ CalmInv /\ TypeOK /\ pc[r] \in {"deny", "over"}
  BY DEF SInv, EngineInv, Deny, Over, At
<1>2. ~rigTx[r] /\ ~cwGate[r] /\ r \notin bits /\ (pc[r] = "deny" => ~txActive[r])
  BY <1>1 DEF CalmInv, EngineInv, Claimed, Bound
<1>3. /\ UNCHANGED <<hub, rigTx, cwGate, relayPending, rf>>
      /\ owner' = IF owner = r THEN NoRadio ELSE owner
      /\ Publish(r, FALSE, "work")
  BY <1>1, <1>2 DEF Deny, Over, At, worldVars, Gate!Release, OnAirR, OnAirBy, CalmInv, TypeOK
<1>4. txActive' = IF pc[r] = "over" THEN [txActive EXCEPT ![r] = FALSE] ELSE txActive
  BY <1>1 DEF Deny, Over, At
<1>5. pc'[r] = "work" /\ cont'[r] = "work" /\ ~txActive'[r] /\ Alone(r)
  BY <1>1, <1>2, <1>3, <1>4, Moves DEF TypeOK, Publish, PublishLabel, Alone, hub, hubVars
<1>6. CalmInv'
  BY <1>1, <1>3 DEF CalmInv, hub, hubVars, contactVars
<1>7. EngineInv(r)' /\ Sent(r)' = Sent(r) /\ ~UnderWay(r)'
  BY <1>1, <1>2, <1>3, <1>5
     DEF EngineInv, CallInv, Claimed, Holds, Sent, UnderWay, KeyUpOwed, Bound, hub, hubVars
<1> QED BY <1>3, <1>5, <1>6, <1>7, Silence, QuietStep DEF hub, contactVars

\* The operator lets go: the carrier is taken down before the bit.
LEMMA KeyUpKeeps ==
    ASSUME SInv, TypeOK', NEW r \in Radio, KeyUp(r)
    PROVE  SInv'
<1>1. EngineInv(r) /\ CalmInv /\ TypeOK /\ pc[r] = "work" /\ txActive[r]
  BY DEF SInv, EngineInv, KeyUp, At
<1>2. UNCHANGED <<hub, owner, txActive, rigTx, cwGate, relayPending>>
  BY DEF KeyUp
<1>3. pc'[r] = "release" /\ cont'[r] = "over" /\ ~rf'[r] /\ Alone(r)
  BY <1>1, <1>2, Moves DEF TypeOK, KeyUp, Alone, hub, hubVars
<1>4. CalmInv'
  BY <1>1, <1>2 DEF CalmInv, hub, hubVars, contactVars
<1>5. EngineInv(r)' /\ Sent(r)' = Sent(r) /\ ~UnderWay(r)'
  BY <1>1, <1>2, <1>3
     DEF EngineInv, CallInv, Claimed, Holds, Sent, UnderWay, KeyUpOwed, Bound, hub, hubVars
<1> QED BY <1>2, <1>3, <1>4, <1>5, Silence, QuietStep DEF hub, contactVars

\* The tick has only a new dial to report.
LEMMA PollKeeps ==
    ASSUME SInv, TypeOK', NEW r \in Radio, Poll(r)
    PROVE  SInv'
<1>1. EngineInv(r) /\ CalmInv /\ TypeOK /\ pc[r] = "work"
  BY DEF SInv, EngineInv, Poll, At
<1>2. UNCHANGED <<hub, owner, engineVars, worldVars>>
  BY DEF Poll
<1>3. told[r] # dial[r]
  BY <1>1, BitIsOver DEF Poll, PublishDue, Bound
<1>4. pc'[r] = "tell" /\ cont'[r] = "work" /\ Alone(r)
  BY <1>1, <1>2, <1>3, Moves
     DEF Poll, TellThenPublish, Alone, hub, hubVars, engineVars, worldVars
<1>5. CalmInv'
  BY <1>1, <1>2 DEF CalmInv, hub, hubVars, contactVars, engineVars
<1>6. EngineInv(r)' /\ Sent(r)' = Sent(r) /\ UnderWay(r)' = UnderWay(r)
  BY <1>1, <1>2, <1>4
     DEF EngineInv, CallInv, Claimed, Holds, Sent, UnderWay, KeyUpOwed, Bound,
         hub, hubVars, engineVars, worldVars
<1> QED BY <1>2, <1>4, <1>5, <1>6, Silence, QuietStep DEF hub, contactVars

\* A contact tested, a dial turned, a message of nobody's finished.
LEMMA IdleStepsKeep ==
    ASSUME SInv, TypeOK', NEW r \in Radio, TestRelay(r) \/ Retune(r) \/ RigFinishes(r)
    PROVE  SInv'
<1>1. EngineInv(r) /\ CalmInv /\ TypeOK
  BY DEF SInv
<1>2. /\ UNCHANGED <<workerVars, bits, slot, senseEdge, owner, pc, cont, txActive, rigTx, cwGate,
                      relayPending, rf>>
      /\ SaysNoEdge
      /\ \A i \in DOMAIN inbox' : inbox'[i].op # "shutdown"
  <2>1. CASE TestRelay(r)
    <3>1. PICK ch \in Channel : TestContact(ch)
      BY <2>1 DEF TestRelay
    <3>2. /\ <<Test(ch)>> \in Seq(Ctrl)
          /\ \A i \in DOMAIN <<Test(ch)>> : <<Test(ch)>>[i].op # "shutdown"
      <4>1. Test(ch) \in Ctrl /\ Test(ch).op # "shutdown"
        BY DEF Ctrl, Test
      <4> QED BY <4>1
    <3>3. Tell(<<Test(ch)>>) /\ NoEdge(<<Test(ch)>>)
      BY <3>1, NoEdgeMessages DEF TestContact
    <3> QED BY <2>1, <3>1, <3>2, <3>3, Told
            DEF TestRelay, TestContact, controlVars, engineVars, worldVars
  <2>2. CASE Retune(r) \/ RigFinishes(r)
    BY <1>1, <2>2, Silence
       DEF Retune, RigFinishes, hub, hubVars, contactVars, workerVars, controlVars, engineVars,
           CalmInv
  <2> QED BY <2>1, <2>2
<1>3. Alone(r)
  BY <1>2 DEF Alone
<1>4. CalmInv'
  BY <1>1, <1>2 DEF CalmInv, workerVars
<1>5. EngineInv(r)' /\ Sent(r)' = Sent(r) /\ UnderWay(r)' = UnderWay(r)
  BY <1>1, <1>2
     DEF EngineInv, CallInv, Claimed, Holds, Sent, UnderWay, KeyUpOwed, Bound
<1> QED BY <1>2, <1>3, <1>4, <1>5, QuietStep DEF workerVars

\* No other route on to the air, or off it, is taken here.
LEMMA OtherRoutes ==
    ASSUME EngineDriven, SInv, NEW r \in Radio
    PROVE  /\ ~RigSends(r) /\ ~CwExpires(r) /\ ~AbortCwUnkeys(r) /\ ~RigReport(r)
           /\ ~AdoptSenseEdge(r) /\ ~ApplyPending(r) /\ ~CloseDriver(r) /\ ~OpenDriver(r)
           /\ ~InstallDriver(r) /\ ~Swapped(r)
           /\ ~SendCwText(r) /\ ~AbortCw(r) /\ ~SetRelayConfig(r) /\ ~SwapSource(r) /\ ~Stop(r)
           /\ ~LoseLink(r) /\ ~MicKey(r)
<1>1. Happens \cap {"mic", "cat", "cw", "config", "stop", "lost", "swap"} = {}
  BY DEF EngineDriven
<1>2. /\ pc[r] \notin {"sendCw", "cwUnkey", "cfgClose", "cfgJoin", "cfgInstall", "swapped"}
      /\ ~cwGate[r] /\ ~relayPending[r] /\ senseEdge = NoLevel
  BY DEF SInv, CalmInv, EngineInv, CallInv
<1>3. /\ ~RigSends(r) /\ ~CwExpires(r) /\ ~AbortCwUnkeys(r) /\ ~RigReport(r)
      /\ ~AdoptSenseEdge(r) /\ ~ApplyPending(r) /\ ~CloseDriver(r) /\ ~OpenDriver(r)
      /\ ~InstallDriver(r) /\ ~Swapped(r)
  BY <1>1, <1>2, RadioAssumption
     DEF RigSends, CwExpires, AbortCwUnkeys, RigReport, AdoptSenseEdge, TakeSenseEdge,
         SenseEdgeFor, ApplyPending, CloseDriver, OpenDriver, InstallDriver, Swapped, At
<1>4. /\ ~SendCwText(r) /\ ~AbortCw(r) /\ ~SetRelayConfig(r) /\ ~SwapSource(r) /\ ~Stop(r)
      /\ ~LoseLink(r) /\ ~MicKey(r)
  BY <1>1, <1>2
     DEF SendCwText, AbortCw, SetRelayConfig, SwapSource, Stop, LoseLink, MicKey
<1> QED BY <1>3, <1>4

\* Every step of an engine.
LEMMA EngineKeeps ==
    ASSUME EngineDriven, SInv, TypeOK', NEW r \in Radio, Engine(r) \/ Operator(r)
    PROVE  SInv'
<1>1. CASE HubStep(r)
  BY <1>1, TellBandsKeeps, ClaimKeeps, SendKeyDownKeeps, LeadKeeps, ReleaseKeeps,
     SendOverEndKeeps DEF HubStep, EngineDriven
<1>2. CASE ~HubStep(r)
  BY <1>2, OtherRoutes, KeyDownKeeps, RailsKeep, BeginKeeps, LetGoKeeps, KeyUpKeeps, PollKeeps,
     IdleStepsKeep DEF Engine, Operator, PollTick
<1> QED BY <1>1, <1>2

----------------------------------------------------------------------------
(* The worker's steps.                                                     *)

\* What the worker does moves no engine.
LEMMA EnginesStay ==
    ASSUME SInv, Worker
    PROVE  \A r \in Radio : EngineInv(r)' /\ (Sent(r)' <=> Sent(r)) /\ (UnderWay(r)' <=> UnderWay(r))
<1>1. UNCHANGED elsewhere /\ bits' = bits
  BY WorkerStepEngine DEF Worker, ReceiveCtrl, MoveContacts, SeeLine, Fail, hubOnly, SensePoll
<1> QED BY <1>1
        DEF SInv, EngineInv, CallInv, Claimed, Holds, Sent, UnderWay, KeyUpOwed, Bound,
            elsewhere, controlVars, engineVars, worldVars

\* What reading a message does to the worker's place on or off the air.
LEMMA Obeyed ==
    ASSUME SInv, ReceiveCtrl
    PROVE  /\ inbox \in Seq(Ctrl) /\ inbox # <<>> /\ inbox' = Tail(inbox)
           /\ \A i \in DOMAIN Tail(inbox) : Tail(inbox)[i].op # "shutdown"
           /\ engineOnAir' = IF Head(inbox).op = "key" THEN Head(inbox).on
                             ELSE IF Head(inbox).op = "abort" THEN FALSE ELSE engineOnAir
           /\ ~Edge(Head(inbox)) => closed' = closed
           /\ running' = running /\ present' = present /\ ~senseOnAir'
<1>1. CalmInv /\ inbox \in Seq(Ctrl) /\ inbox # <<>> /\ engineOnAir \in BOOLEAN
  BY DEF SInv, TypeOK, HubTypeOK, ContactsTypeOK, ReceiveCtrl, Receive, ReceiveKey, ReceiveAbort,
         ReceiveRxBand, ReceiveTxBand, ReceiveTest, ReceiveShutdown, Message
<1>2. Head(inbox).op # "shutdown" /\ \A i \in DOMAIN Tail(inbox) : Tail(inbox)[i].op # "shutdown"
  BY <1>1 DEF CalmInv
<1>3. /\ inbox' = Tail(inbox)
      /\ engineOnAir' = IF Head(inbox).op = "key" THEN Head(inbox).on
                        ELSE IF Head(inbox).op = "abort" THEN FALSE ELSE engineOnAir
      /\ ~Edge(Head(inbox)) => closed' = closed
      /\ running' = running /\ present' = present /\ ~senseOnAir'
  <2>1. CASE ReceiveKey
    BY <1>1, <2>1 DEF CalmInv, Edge, ReceiveKey, Message
  <2>2. CASE ReceiveAbort
    <3>1. Head(inbox).op = "abort" /\ Edge(Head(inbox)) /\ "abort" # "key"
      BY <2>2 DEF Edge, ReceiveAbort, Message
    <3> QED BY <2>2, <3>1 DEF ReceiveAbort, Message
  <2>3. CASE ReceiveRxBand \/ ReceiveTxBand \/ ReceiveTest
    <3>1. Head(inbox).op \in {"rxBand", "txBand", "test"}
      BY <2>3 DEF ReceiveRxBand, ReceiveTxBand, ReceiveTest, Message
    <3>2. ~Edge(Head(inbox)) /\ Head(inbox).op \notin {"key", "abort"}
      BY <3>1 DEF Edge
    <3>3. UNCHANGED <<running, present, engineOnAir, senseOnAir, closed>> /\ inbox' = Tail(inbox)
      BY <2>3 DEF ReceiveRxBand, ReceiveTxBand, ReceiveTest, Message
    <3> QED BY <1>1, <3>2, <3>3 DEF CalmInv
  <2>4. ~ReceiveShutdown
    BY <1>2 DEF ReceiveShutdown, Message
  <2> QED BY <2>1, <2>2, <2>3, <2>4 DEF ReceiveCtrl, Receive
<1> QED BY <1>1, <1>2, <1>3

\* Obeying a message moves the worker along the queue.
LEMMA ReceiveKeeps ==
    ASSUME SInv, TypeOK', ReceiveCtrl
    PROVE  SInv'
<1>1. CalmInv /\ engineOnAir \in BOOLEAN
  BY DEF SInv, TypeOK, HubTypeOK, ContactsTypeOK
<1>2. engineOnAir' \in BOOLEAN
  BY DEF TypeOK, HubTypeOK, ContactsTypeOK
<1>3. /\ NoEdge(inbox) => NoEdge(inbox') /\ ~Edge(Head(inbox))
      /\ Ends(inbox', engineOnAir') <=> Ends(inbox, engineOnAir)
  <2>1. \A next \in BOOLEAN :
           next = (IF Head(inbox).op = "key" THEN Head(inbox).on
                   ELSE IF Head(inbox).op = "abort" THEN FALSE ELSE engineOnAir)
             => /\ NoEdge(inbox) => NoEdge(Tail(inbox)) /\ ~Edge(Head(inbox))
                /\ Ends(Tail(inbox), next) <=> Ends(inbox, engineOnAir)
    BY <1>1, Obeyed, Read
  <2> QED BY <1>2, <2>1, Obeyed
<1>4. UNCHANGED <<hubOnly, elsewhere>>
  BY DEF ReceiveCtrl
<1>5. CalmInv'
  BY <1>1, <1>4, Obeyed DEF CalmInv, hubOnly, elsewhere, engineVars
<1>6. \A r \in Radio : EngineInv(r)' /\ (Sent(r)' <=> Sent(r)) /\ (UnderWay(r)' <=> UnderWay(r))
  BY EnginesStay DEF Worker
<1>7. \A r \in Radio : LeadInv(r)'
  <2>1. NoEdge(inbox) => engineOnAir' = engineOnAir /\ closed' = closed
    BY <1>3, Obeyed DEF Edge
  <2> QED BY <1>3, <1>6, <2>1 DEF SInv, LeadInv
<1>8. QueueInv'
  BY <1>3, <1>6 DEF SInv, QueueInv, Ends
<1> QED BY <1>5, <1>6, <1>7, <1>8 DEF SInv

\* Contacts rise under an over and fall when it is gone.
LEMMA MoveKeeps ==
    ASSUME SInv, TypeOK', MoveContacts
    PROVE  SInv'
<1>1. CalmInv /\ closed \subseteq Channel
  BY DEF SInv, TypeOK, HubTypeOK, ContactsTypeOK
<1>2. UNCHANGED <<inbox, running, present, engineOnAir, senseOnAir, hubOnly, elsewhere>>
  BY DEF MoveContacts, Rise, Fall
<1>3. engineOnAir /\ closed = Channel => closed' = Channel
  <2>1. closed' \subseteq Channel
    BY DEF TypeOK, HubTypeOK, ContactsTypeOK
  <2>2. engineOnAir => closed \subseteq closed'
    BY DEF MoveContacts, Rise, Fall, OnAir
  <2> QED BY <2>1, <2>2
<1>4. CalmInv'
  BY <1>1, <1>2 DEF CalmInv, hubOnly, elsewhere, engineVars
<1>5. \A r \in Radio : EngineInv(r)' /\ (Sent(r)' <=> Sent(r)) /\ (UnderWay(r)' <=> UnderWay(r))
  BY EnginesStay DEF Worker
<1>6. \A r \in Radio : LeadInv(r)'
  BY <1>2, <1>3, <1>5 DEF SInv, LeadInv, NoEdge
<1>7. QueueInv'
  BY <1>2, <1>5 DEF SInv, QueueInv, Ends, NoEdge
<1> QED BY <1>4, <1>5, <1>6, <1>7 DEF SInv

----------------------------------------------------------------------------
(* The theorems.                                                           *)

\* A station starts with nothing keyed and nothing said.
LEMMA SwitchInit == Init => SInv
<1> SUFFICES ASSUME Init PROVE SInv
  OBVIOUS
<1>1. TypeOK
  BY TypeInit
<1>2. CalmInv
  BY DEF Init, HubInit, ContactsInit, CalmInv
<1>3. \A r \in Radio : EngineInv(r) /\ LeadInv(r) /\ ~Sent(r)
  BY RadioAssumption
     DEF Init, HubInit, Gate!GateInit, EngineInv, CallInv, Claimed, Holds, Sent, UnderWay,
         KeyUpOwed, Bound, LeadInv
<1>4. QueueInv
  BY <1>3 DEF Init, HubInit, ContactsInit, QueueInv, Ends, NoEdge
<1> QED BY <1>1, <1>2, <1>3, <1>4 DEF SInv

\* Every step of the station.
LEMMA SwitchStep ==
    ASSUME EngineDriven, SInv, [Next]_vars
    PROVE  SInv'
<1>1. TypeOK'
  BY TypeStep DEF SInv
<1>2. ASSUME NEW r \in Radio, Engine(r) \/ Operator(r) PROVE SInv'
  BY <1>1, <1>2, EngineKeeps
<1>3. CASE Worker
  <2>1. ~SeeLine /\ ~Fail
    BY DEF SeeLine, Fail, EngineDriven
  <2> QED BY <1>1, <1>3, <2>1, ReceiveKeeps, MoveKeeps DEF Worker
<1>4. CASE UNCHANGED vars
  <2>1. UNCHANGED <<contactVars, bits, slot, senseEdge, owner, pc, cont, txActive, rigTx, cwGate,
                    relayPending, rf>>
    BY <1>4 DEF vars, hub, hubVars, controlVars, engineVars, worldVars
  <2>2. CalmInv'
    BY <2>1 DEF SInv, CalmInv, contactVars
  <2>3. \A r \in Radio : EngineInv(r)' /\ (Sent(r)' <=> Sent(r)) /\ (UnderWay(r)' <=> UnderWay(r))
    BY <2>1 DEF SInv, EngineInv, CallInv, Claimed, Holds, Sent, UnderWay, KeyUpOwed, Bound
  <2>4. inbox' = inbox /\ engineOnAir' = engineOnAir /\ closed' = closed
    BY <2>1 DEF contactVars
  <2> QED BY <1>1, <2>2, <2>3, <2>4 DEF SInv, QueueInv, LeadInv, Ends, NoEdge
<1> QED BY <1>2, <1>3, <1>4 DEF Next

\* What was sent to the worker and not yet read ends where the radios' bits are
\* (the invariant of TrSwitch under the engines' own overs).
THEOREM SwitchAccounted == ASSUME EngineDriven PROVE Spec => []SInv
BY SwitchInit, SwitchStep, PTL DEF Spec

\* Contacts first, drive second (lead_tr_switch): no carrier an engine asked for
\* meets a contact still in receive.
THEOREM ContactsLeadEveryRf == ASSUME EngineDriven PROVE Spec => []ContactsLeadRf
<1>1. SInv => ContactsLeadRf
  BY DEF SInv, EngineInv, LeadInv, UnderWay, ContactsLeadRf
<1> QED BY SwitchAccounted, <1>1, PTL

\* Once every call has returned and every message is read, the worker is on the
\* air if and only if some radio claims to be (TrSwitch's "the switch follows
\* the OR").
THEOREM SwitchFollowsEveryRadio == ASSUME EngineDriven PROVE Spec => []SwitchFollowsRadios
<1>1. SInv => SwitchFollowsRadios
  <2>1. SUFFICES ASSUME SInv, Settled PROVE engineOnAir <=> bits # {}
    BY DEF SwitchFollowsRadios
  <2>2. Ends(inbox, engineOnAir) <=> engineOnAir
    BY <2>1 DEF Settled, Ends, NoEdge
  <2>3. \A r \in Radio : Sent(r) <=> r \in bits
    BY <2>1 DEF Settled, SInv, EngineInv, Sent, Claimed, KeyUpOwed, Bound
  <2> QED BY <2>1, <2>2, <2>3 DEF SInv, QueueInv, TypeOK, HubTypeOK
<1> QED BY SwitchAccounted, <1>1, PTL

\* A station with no claim has nothing keyed: no receiver is left deaf.
THEOREM SwitchAlwaysComesBack == ASSUME EngineDriven PROVE Spec => []SwitchComesBack
<1>1. SwitchFollowsRadios => SwitchComesBack
  BY DEF SwitchFollowsRadios, SwitchComesBack
<1> QED BY SwitchFollowsEveryRadio, <1>1, PTL

\* An engine speaks to the worker only through its channel, unless it spawns one.
LEMMA OnlyInstallMoves ==
    ASSUME NEW r \in Radio, Engine(r) \/ Operator(r)
    PROVE  UNCHANGED workerVars \/ InstallDriver(r)
<1>1. HubStep(r) => UNCHANGED workerVars
  BY DEF HubStep, TellBands, Claim, SendKeyDown, Lead, Unclaim, SendKeyUp, AbortClaim, SendAbort,
         SetBands, KeyClaim, KeySend, ReleaseClaim, UnkeySend, AbortSend, OverEnded,
         hub, contactVars, workerVars
<1>2. \/ PassRails(r) \/ RefuseRails(r) \/ TxBegin(r) \/ TxBeginFails(r) \/ Deny(r) \/ Over(r)
      \/ RigSends(r) \/ CwExpires(r) \/ AbortCwUnkeys(r) \/ RigReport(r) \/ Swapped(r)
      => UNCHANGED workerVars
  BY DEF PassRails, RefuseRails, TxBegin, TxBeginFails, Deny, Over, RigSends, CwExpires,
         AbortCwUnkeys, RigReport, Swapped, hub, contactVars, workerVars
<1>3. PollTick(r) \/ CloseDriver(r) \/ OpenDriver(r) => UNCHANGED workerVars
  BY DEF PollTick, Poll, AdoptSenseEdge, TakeSenseEdge, ApplyPending, CloseDriver, InstallNone,
         OpenDriver, NoteOpen, hub, contactVars, workerVars
<1>4. Operator(r) => UNCHANGED workerVars
  BY DEF Operator, KeyDown, KeyUp, SendCwText, AbortCw, SetRelayConfig, TestRelay, TestContact,
         SwapSource, Stop, LoseLink, Retune, MicKey, RigFinishes, hub, contactVars, workerVars
<1> QED BY <1>1, <1>2, <1>3, <1>4 DEF Engine

\* The filters do not move under a carrier, whatever any dial does meanwhile
\* (set_tx_band holds a band back while the switch is on the air).
THEOREM NoFilterSwitchesHot == ASSUME EngineDriven PROVE Spec => NoHotFilterSwitch
<1>1. ASSUME SInv, [Next]_vars, NEW r \in Radio, rf[r]
      PROVE  txBand' = txBand
  <2>1. CalmInv /\ engineOnAir /\ NoEdge(inbox)
    BY <1>1 DEF SInv, EngineInv, LeadInv, UnderWay
  <2>2. CASE ReceiveCtrl
    <3>1. ~Edge(Head(inbox)) \/ inbox = <<>>
      BY <1>1, <2>1 DEF NoEdge, SInv, TypeOK, HubTypeOK, ContactsTypeOK
    <3> QED BY <2>1, <2>2, <3>1
            DEF ReceiveCtrl, Receive, ReceiveKey, ReceiveAbort, ReceiveRxBand, ReceiveTxBand,
                ReceiveTest, ReceiveShutdown, Message, OnAir, Edge
  <2>3. CASE MoveContacts
    BY <2>1, <2>3 DEF MoveContacts, Rise, Fall, OnAir
  <2>4. CASE SeeLine \/ Fail
    BY <2>4 DEF SeeLine, Fail, SensePoll, Sense, GiveUp
  <2>5. ASSUME NEW s \in Radio, Engine(s) \/ Operator(s) PROVE txBand' = txBand
    <3>1. CASE UNCHANGED workerVars
      BY <3>1 DEF workerVars
    <3>2. CASE InstallDriver(s)
      <4>1. pc[s] # "cfgInstall"
        BY <1>1 DEF SInv, EngineInv, CallInv
      <4> QED BY <3>2, <4>1 DEF InstallDriver, At
    <3> QED BY <2>5, <3>1, <3>2, OnlyInstallMoves
  <2> QED BY <1>1, <2>2, <2>3, <2>4, <2>5 DEF Next, Worker, vars, hub, contactVars
<1>2. SInv /\ [Next]_vars
        => [\A r \in Radio : rf[r] /\ rf'[r] => txBand' = txBand]_vars
  BY <1>1
<1> QED BY SwitchAccounted, <1>2, PTL DEF Spec, NoHotFilterSwitch

----------------------------------------------------------------------------
(* The filters.                                                            *)

\* The transmit band the filters will stand on at the worker's next key-down.
Taken == IF txBandPending = NoBand THEN txBand ELSE txBandPending

\* The keyer's band d on its way to the filters: sent right before the key-down,
\* which itself is read off the air ...
Waiting(d) ==
    \E s, m \in Seq(Ctrl) :
        /\ inbox = s \o (<<TxBand(d)>> \o (<<Key(TRUE)>> \o m))
        /\ ~Ends(s, engineOnAir) /\ NoEdge(m)

\* ... read, with the key-down next ...
NextUp(d) ==
    \E m \in Seq(Ctrl) :
        inbox = <<Key(TRUE)>> \o m /\ NoEdge(m) /\ ~engineOnAir /\ Taken = d

\* ... or where the filters stand until the over ends.
Standing(d) == engineOnAir /\ NoEdge(inbox) /\ txBand = d

BandComes(d) == Waiting(d) \/ NextUp(d) \/ Standing(d)

\* What the hub knows of a dial, and what follows from a key-down sent.
DialInv(r) ==
    /\ hubTx[r] = told[r]
    /\ pc[r] \in {"claim", "keySend", "lead", "begin"} => told[r] = dial[r]
    /\ pc[r] \in {"lead", "begin"} => \A d \in {dial[r]} : BandComes(d)

FilterInv == \A r \in Radio : DialInv(r)

\* A key-down and a band, as messages and as queues of one.
LEMMA EdgeMessages ==
    /\ Key(TRUE) \in Ctrl /\ <<Key(TRUE)>> \in Seq(Ctrl)
    /\ \A d \in Band : TxBand(d) \in Ctrl /\ <<TxBand(d)>> \in Seq(Ctrl)
<1>1. Key(TRUE) \in Ctrl /\ \A d \in Band : TxBand(d) \in Ctrl
  BY DEF Ctrl
<1>2. \A x \in Ctrl : <<x>> \in Seq(Ctrl)
  OBVIOUS
<1> QED BY <1>1, <1>2

\* Whatever joins the queue behind the key-down does not change its band.
LEMMA JoinedBehind ==
    ASSUME TypeOK, NEW d \in Band, BandComes(d), NEW m \in Seq(Ctrl), NoEdge(m),
           inbox' = inbox \o m, UNCHANGED workerVars
    PROVE  BandComes(d)'
<1>1. inbox \in Seq(Ctrl) /\ UNCHANGED <<engineOnAir, txBand, txBandPending>>
  BY DEF TypeOK, HubTypeOK, ContactsTypeOK, workerVars
<1>2. \A q \in Seq(Ctrl) : NoEdge(q) => q \o m \in Seq(Ctrl) /\ NoEdge(q \o m)
  BY JoinedQuietly, Queues
<1>3. ASSUME NEW q \in Seq(Ctrl)
      PROVE  /\ <<Key(TRUE)>> \o q \in Seq(Ctrl)
             /\ (<<Key(TRUE)>> \o q) \o m = <<Key(TRUE)>> \o (q \o m)
  <2> DEFINE k == <<Key(TRUE)>>
  <2>1. k \in Seq(Ctrl)
    BY EdgeMessages
  <2> HIDE DEF k
  <2>2. k \o q \in Seq(Ctrl) /\ (k \o q) \o m = k \o (q \o m)
    BY <2>1, Queues
  <2> QED BY <2>2 DEF k
<1>4. ASSUME NEW s \in Seq(Ctrl), NEW q \in Seq(Ctrl), NoEdge(q), ~Ends(s, engineOnAir),
             inbox = s \o (<<TxBand(d)>> \o (<<Key(TRUE)>> \o q))
      PROVE  Waiting(d)'
  <2> DEFINE p == <<TxBand(d)>>
             k == <<Key(TRUE)>> \o q
  <2>1. p \in Seq(Ctrl) /\ k \in Seq(Ctrl) /\ inbox = s \o (p \o k)
    BY <1>3, <1>4, EdgeMessages
  <2> HIDE DEF p, k
  <2>2. inbox' = s \o (p \o (k \o m))
    BY <2>1, Queues, SMTT(60)
  <2>3. k \o m = <<Key(TRUE)>> \o (q \o m)
    BY <1>3 DEF k
  <2>4. ~Ends(s, engineOnAir')
    BY <1>1, <1>4
  <2> QED BY <1>2, <1>4, <2>2, <2>3, <2>4 DEF Waiting, p
<1>5. NextUp(d) => NextUp(d)'
  BY <1>1, <1>2, <1>3 DEF NextUp, Taken
<1>6. Standing(d) => Standing(d)'
  BY <1>1, <1>2 DEF Standing
<1> QED BY <1>4, <1>5, <1>6 DEF BandComes, Waiting

\* A key-down sent behind its band, when no other over is left in the queue.
LEMMA BandSent ==
    ASSUME TypeOK, NEW d \in Band, ~Ends(inbox, engineOnAir),
           inbox' = inbox \o Append(<<TxBand(d)>>, Key(TRUE)), UNCHANGED workerVars
    PROVE  BandComes(d)'
<1>1. inbox \in Seq(Ctrl) /\ engineOnAir' = engineOnAir
  BY DEF TypeOK, HubTypeOK, ContactsTypeOK, workerVars
<1>2. Append(<<TxBand(d)>>, Key(TRUE)) = <<TxBand(d)>> \o (<<Key(TRUE)>> \o <<>>)
  <2> DEFINE p == <<TxBand(d)>>
  <2>1. p \in Seq(Ctrl)
    BY EdgeMessages
  <2> HIDE DEF p
  <2>2. \A x \in Ctrl : Append(p, x) = p \o <<x>> /\ <<x>> \o <<>> = <<x>>
    BY <2>1, AppendIsConcat, ConcatEmptySeq
  <2> QED BY <2>2, EdgeMessages DEF p
<1>3. <<>> \in Seq(Ctrl) /\ NoEdge(<<>>)
  BY DEF NoEdge
<1> QED BY <1>1, <1>2, <1>3 DEF BandComes, Waiting

\* What an engine says to the worker besides the edges of its own over.
LEMMA EngineSays ==
    ASSUME EngineDriven, SInv, NEW r \in Radio, Engine(r) \/ Operator(r)
    PROVE  /\ UNCHANGED workerVars
           /\ \/ SendKeyDown(r) \/ SendKeyUp(r) \/ SendAbort(r)
              \/ \E m \in Seq(Ctrl) : NoEdge(m) /\ inbox' = inbox \o m
<1>1. pc[r] # "cfgInstall" /\ pc[r] # "cfgClose" /\ CalmInv /\ TypeOK
  BY DEF SInv, EngineInv, CallInv
<1>2. UNCHANGED workerVars
  BY <1>1, OnlyInstallMoves DEF InstallDriver, At
<1>3. \A m \in Seq(Ctrl) : Tell(m) => inbox' = inbox \o m
  BY <1>1 DEF Tell, CalmInv
<1>4. inbox \in Seq(Ctrl) /\ <<>> \in Seq(Ctrl) /\ NoEdge(<<>>)
  BY <1>1 DEF TypeOK, HubTypeOK, ContactsTypeOK, NoEdge
<1>5. CASE UNCHANGED inbox
  BY <1>2, <1>4, <1>5, ConcatEmptySeq
<1>6. CASE TellBands(r)
  <2>1. PICK p \in BOOLEAN, f \in BOOLEAN :
           Tell((IF p THEN <<RxBand(dial[r])>> ELSE <<>>)
                \o (IF f THEN <<TxBand(dial[r])>> ELSE <<>>))
    BY <1>6 DEF TellBands, SetBands
  <2>2. dial[r] \in Band
    BY <1>1 DEF TypeOK
  <2>3. RxBand(dial[r]) \in Ctrl /\ TxBand(dial[r]) \in Ctrl
    BY <2>2 DEF Ctrl
  <2>4. (IF p THEN <<RxBand(dial[r])>> ELSE <<>>) \o (IF f THEN <<TxBand(dial[r])>> ELSE <<>>)
          \in Seq(Ctrl)
    BY <2>3
  <2> QED BY <1>2, <1>3, <2>1, <2>2, <2>4, NoEdgeMessages
<1>7. CASE TestRelay(r)
  <2>1. PICK ch \in Channel : Tell(<<Test(ch)>>)
    BY <1>7 DEF TestRelay, TestContact
  <2>2. <<Test(ch)>> \in Seq(Ctrl)
    <3>1. Test(ch) \in Ctrl
      BY DEF Ctrl
    <3> QED BY <3>1
  <2> QED BY <1>2, <1>3, <2>1, <2>2, NoEdgeMessages
<1>8. HubStep(r) => \/ TellBands(r) \/ SendKeyDown(r) \/ SendKeyUp(r) \/ SendAbort(r)
                    \/ UNCHANGED inbox
  BY DEF HubStep, Claim, Lead, Unclaim, AbortClaim, KeyClaim, ReleaseClaim, hub, contactVars
<1>9. Engine(r) => HubStep(r) \/ UNCHANGED inbox
  <2>1. \/ PassRails(r) \/ RefuseRails(r) \/ TxBegin(r) \/ TxBeginFails(r) \/ Deny(r) \/ Over(r)
        \/ RigSends(r) \/ CwExpires(r) \/ AbortCwUnkeys(r) \/ RigReport(r) \/ Swapped(r)
        => UNCHANGED inbox
    BY DEF PassRails, RefuseRails, TxBegin, TxBeginFails, Deny, Over, RigSends, CwExpires,
           AbortCwUnkeys, RigReport, Swapped, hub, contactVars
  <2>2. PollTick(r) \/ OpenDriver(r) => UNCHANGED inbox
    BY DEF PollTick, Poll, AdoptSenseEdge, TakeSenseEdge, ApplyPending, OpenDriver, NoteOpen,
           hub, contactVars
  <2>3. ~CloseDriver(r) /\ ~InstallDriver(r)
    BY <1>1 DEF CloseDriver, InstallDriver, At
  <2> QED BY <2>1, <2>2, <2>3 DEF Engine
<1>10. Operator(r) => TestRelay(r) \/ UNCHANGED inbox
  BY DEF Operator, KeyDown, KeyUp, SendCwText, AbortCw, SetRelayConfig, SwapSource, Stop,
         LoseLink, Retune, MicKey, RigFinishes, hub, contactVars
<1> QED BY <1>2, <1>5, <1>6, <1>7, <1>8, <1>9, <1>10

\* Dials are told by their own engine alone, and turned only between handlers.
LEMMA DialsStay ==
    ASSUME EngineDriven, SInv, NEW r \in Radio, Engine(r) \/ Operator(r)
    PROVE  /\ \A s \in Radio \ {r} : dial'[s] = dial[s] /\ told'[s] = told[s] /\ hubTx'[s] = hubTx[s]
           /\ \/ TellBands(r) /\ dial' = dial /\ told'[r] = dial[r] /\ hubTx'[r] = dial[r]
              \/ At(r, "work") /\ pc'[r] = "work" /\ UNCHANGED <<told, hubTx>>
              \/ UNCHANGED <<dial, told, hubTx>>
<1>1. TypeOK
  BY DEF SInv
<1>2. CASE TellBands(r)
  BY <1>1, <1>2 DEF TellBands, SetBands, worldVars, TypeOK, HubTypeOK
<1>3. CASE Retune(r)
  BY <1>1, <1>3 DEF Retune, At, controlVars, engineVars, hub, hubVars, TypeOK
<1>4. CASE HubStep(r) /\ ~TellBands(r)
  BY <1>4 DEF HubStep, Claim, SendKeyDown, Lead, Unclaim, SendKeyUp, AbortClaim, SendAbort,
     KeyClaim, KeySend, ReleaseClaim, UnkeySend, AbortSend, OverEnded, hub, hubVars, engineVars,
     worldVars
<1>5. CASE Engine(r) /\ ~HubStep(r)
  <2>1. CASE \/ PassRails(r) \/ RefuseRails(r) \/ TxBegin(r) \/ TxBeginFails(r) \/ Deny(r)
             \/ Over(r) \/ RigSends(r) \/ CwExpires(r) \/ AbortCwUnkeys(r) \/ RigReport(r)
             \/ Swapped(r)
    BY <2>1 DEF PassRails, RefuseRails, TxBegin, TxBeginFails, Deny, Over, RigSends, CwExpires,
       AbortCwUnkeys, RigReport, Swapped, hub, hubVars, engineVars, worldVars
  <2>2. CASE PollTick(r) \/ CloseDriver(r) \/ OpenDriver(r) \/ InstallDriver(r)
    BY <2>2 DEF PollTick, Poll, AdoptSenseEdge, TakeSenseEdge, ApplyPending, CloseDriver,
       InstallNone, OpenDriver, NoteOpen, InstallDriver, InstallOpened, hub, hubVars, engineVars,
       worldVars
  <2> QED BY <1>5, <2>1, <2>2 DEF Engine
<1>6. CASE Operator(r) /\ ~Retune(r)
  BY <1>6 DEF Operator, KeyDown, KeyUp, SendCwText, AbortCw, SetRelayConfig, TestRelay,
     TestContact, SwapSource, Stop, LoseLink, MicKey, RigFinishes, hub, hubVars, engineVars,
     worldVars
<1> QED BY <1>2, <1>3, <1>4, <1>5, <1>6

\* An engine's step moves no other engine's handler.
LEMMA HandlersStay ==
    ASSUME SInv, NEW r \in Radio, Engine(r) \/ Operator(r), NEW s \in Radio \ {r}
    PROVE  pc'[s] = pc[s]
<1>1. TypeOK
  BY DEF SInv
<1>2. /\ \A to : Goto(r, to) => pc'[s] = pc[s]
      /\ \A to, return : Call(r, to, return) => pc'[s] = pc[s]
  BY <1>1, Moves
<1>3. CASE HubStep(r)
  BY <1>2, <1>3 DEF HubStep, TellBands, Claim, SendKeyDown, Lead, Unclaim, SendKeyUp, AbortClaim,
     SendAbort
<1>4. CASE \/ PassRails(r) \/ RefuseRails(r) \/ TxBegin(r) \/ TxBeginFails(r) \/ Deny(r)
           \/ Over(r) \/ RigSends(r) \/ AbortCwUnkeys(r) \/ RigReport(r) \/ Swapped(r)
  BY <1>2, <1>4 DEF PassRails, RefuseRails, TxBegin, TxBeginFails, Deny, Over, RigSends,
     AbortCwUnkeys, RigReport, Swapped, TellThenLead, TellThenPublish, Publish
<1>5. CASE PollTick(r) \/ CloseDriver(r) \/ OpenDriver(r) \/ InstallDriver(r) \/ CwExpires(r)
  BY <1>2, <1>5 DEF PollTick, Poll, AdoptSenseEdge, ApplyPending, CloseDriver, OpenDriver,
     InstallDriver, CwExpires, TellThenPublish, Publish, controlVars
<1>6. CASE Operator(r)
  BY <1>2, <1>6 DEF Operator, KeyDown, KeyUp, SendCwText, AbortCw, SetRelayConfig, TestRelay,
     SwapSource, Stop, LoseLink, Retune, MicKey, RigFinishes, TellThenLead, TellThenPublish,
     Publish, controlVars
<1> QED BY <1>3, <1>4, <1>5, <1>6 DEF Engine

\* The ways into a key-down: rails, the dial told, the bit, the message, the lead.
LEMMA WaysIn ==
    ASSUME EngineDriven, SInv, NEW r \in Radio, Engine(r) \/ Operator(r),
           pc'[r] \in {"claim", "keySend", "lead", "begin"}
    PROVE  \/ pc'[r] = pc[r]
           \/ TellBands(r) /\ pc'[r] = "claim"
           \/ pc'[r] = "claim" /\ told[r] = dial[r]
           \/ pc[r] = "claim" /\ pc'[r] = "keySend"
           \/ SendKeyDown(r) /\ pc'[r] = "lead"
           \/ pc[r] = "lead" /\ pc'[r] = "begin"
<1>1. TypeOK /\ CalmInv /\ CallInv(r)
  BY DEF SInv, EngineInv
<1>2. /\ \A to : Goto(r, to) => pc'[r] = to
      /\ \A to, return : Call(r, to, return) => pc'[r] = to
  BY <1>1, Moves
<1>3. pc[r] \notin {"sendCw", "cwUnkey", "cfgClose", "cfgJoin", "cfgInstall", "swapped"} /\ ~cwGate[r]
  BY <1>1 DEF CalmInv, CallInv
<1>4. Bound(r, "work") => (r \in bits) = OnAirR(r)
  BY BitIsOver
<1>5. CASE TellBands(r)
  BY <1>1, <1>2, <1>4, <1>5 DEF TellBands, At, CallInv, Bound, Leads, PublishLabel
<1>6. CASE Claim(r)
  <2>1. bits = {}
    BY <1>6, AloneOnTheWay
  <2> QED BY <1>2, <1>6, <2>1 DEF Claim, At
<1>14. CASE SendKeyDown(r) \/ Lead(r)
  BY <1>1, <1>2, <1>14 DEF SendKeyDown, Lead, At, CallInv, Leads, CalmInv
<1>7. CASE Unclaim(r) \/ SendKeyUp(r) \/ AbortClaim(r) \/ SendAbort(r)
  BY <1>1, <1>2, <1>7 DEF Unclaim, SendKeyUp, AbortClaim, SendAbort, At, CallInv
<1>8. CASE PassRails(r)
  BY <1>2, <1>8 DEF PassRails, TellThenLead
<1>9. CASE RefuseRails(r) \/ TxBegin(r) \/ TxBeginFails(r) \/ KeyDown(r) \/ KeyUp(r)
  BY <1>2, <1>9 DEF RefuseRails, TxBegin, TxBeginFails, KeyDown, KeyUp
<1>10. CASE Deny(r) \/ Over(r)
  <2>1. ~rigTx[r] /\ r \notin bits /\ (pc[r] = "deny" => ~txActive[r])
    BY <1>1, <1>10 DEF SInv, CalmInv, EngineInv, Claimed, Bound, Deny, Over, At
  <2> QED BY <1>2, <1>3, <1>10, <2>1
          DEF Deny, Over, At, Publish, PublishLabel, OnAirR, OnAirBy
<1>11. CASE Poll(r)
  BY <1>2, <1>4, <1>11 DEF Poll, At, PublishDue, Bound, TellThenPublish, Publish, PublishLabel
<1>12. CASE TestRelay(r) \/ Retune(r) \/ RigFinishes(r)
  BY <1>12 DEF TestRelay, Retune, RigFinishes, controlVars
<1>13. /\ ~RigSends(r) /\ ~CwExpires(r) /\ ~AbortCwUnkeys(r) /\ ~RigReport(r)
       /\ ~AdoptSenseEdge(r) /\ ~ApplyPending(r) /\ ~CloseDriver(r) /\ ~OpenDriver(r)
       /\ ~InstallDriver(r) /\ ~Swapped(r)
       /\ ~SendCwText(r) /\ ~AbortCw(r) /\ ~SetRelayConfig(r) /\ ~SwapSource(r) /\ ~Stop(r)
       /\ ~LoseLink(r) /\ ~MicKey(r)
  BY OtherRoutes
<1> QED BY <1>5, <1>6, <1>7, <1>8, <1>9, <1>10, <1>11, <1>12, <1>13, <1>14
        DEF Engine, Operator, HubStep, PollTick

\* An engine's step keeps every radio's band on its way.
LEMMA EngineFilters ==
    ASSUME EngineDriven, SInv, FilterInv, NEW r \in Radio, Engine(r) \/ Operator(r)
    PROVE  FilterInv'
<1>1. TypeOK /\ UNCHANGED workerVars /\ inbox \in Seq(Ctrl)
  BY EngineSays DEF SInv, TypeOK, HubTypeOK, ContactsTypeOK
<1>2. ASSUME NEW s \in Radio \ {r}
      PROVE  DialInv(s)'
  <2>1. pc'[s] = pc[s] /\ dial'[s] = dial[s] /\ told'[s] = told[s] /\ hubTx'[s] = hubTx[s]
    BY HandlersStay, DialsStay
  <2>2. DialInv(s) /\ dial[s] \in Band
    BY <1>1 DEF FilterInv, TypeOK
  <2>3. ASSUME pc[s] \in {"lead", "begin"}, NEW d \in {dial[s]}
        PROVE  BandComes(d)'
    <3>1. owner = s /\ ~(owner = r)
      <4>1. Sent(s)
        BY <2>3 DEF Sent, Claimed
      <4> QED BY <4>1, SentHolds
    <3>2. ~SendKeyDown(r) /\ ~SendKeyUp(r) /\ ~SendAbort(r)
      <4>1. pc[r] \in {"keySend", "unkeySend", "abortSend"} => Holds(r)
        BY DEF Holds, Claimed, KeyUpOwed
      <4> QED BY <3>1, <4>1 DEF SInv, EngineInv, SendKeyDown, SendKeyUp, SendAbort, At
    <3>3. PICK m \in Seq(Ctrl) : NoEdge(m) /\ inbox' = inbox \o m
      BY <3>2, EngineSays
    <3>4. BandComes(d) /\ d \in Band
      BY <2>2, <2>3 DEF DialInv
    <3> QED BY <1>1, <3>3, <3>4, JoinedBehind
  <2> QED BY <2>1, <2>2, <2>3 DEF DialInv
<1>3. DialInv(r)'
  <2>1. DialInv(r) /\ dial[r] \in Band /\ told[r] \in MaybeBand
    BY <1>1 DEF FilterInv, TypeOK
  <2>2. hubTx'[r] = told'[r]
    BY <2>1, DialsStay DEF DialInv
  <2>3. ASSUME pc'[r] \in {"claim", "keySend", "lead", "begin"}
        PROVE  told'[r] = dial'[r]
    <3>1. CASE TellBands(r)
      BY <1>1, <3>1 DEF TellBands, worldVars, TypeOK
    <3>2. CASE ~TellBands(r)
      <4>1. told[r] = dial[r]
        BY <2>1, <2>3, <3>2, WaysIn DEF DialInv, SendKeyDown, At
      <4> QED BY <2>3, <3>2, <4>1, DialsStay
    <3> QED BY <3>1, <3>2
  <2>4. ASSUME pc'[r] \in {"lead", "begin"}, NEW d \in {dial'[r]}
        PROVE  BandComes(d)'
    <3>1. d = dial[r] /\ d \in Band
      BY <2>1, <2>4, WaysIn, DialsStay DEF TellBands, At
    <3>2. CASE SendKeyDown(r)
      <4>1. pc[r] = "keySend" /\ ~Sent(r)
        BY <3>2 DEF SendKeyDown, At, Sent, KeyUpOwed
      <4>2. hubTx[r] = d /\ d # NoBand /\ r # NoRadio
        BY <2>1, <3>1, <4>1, BandAssumption, RadioAssumption DEF DialInv
      <4>3. TxBandMsg(r) = <<TxBand(d)>>
        BY <4>2 DEF TxBandMsg
      <4>4. inbox' = inbox \o Append(<<TxBand(d)>>, Key(TRUE))
        BY <3>2, <4>3 DEF SendKeyDown, KeySend, Tell, SInv, CalmInv
      <4>5. ~Ends(inbox, engineOnAir)
        <5>1. Holds(r)
          BY <4>1 DEF Holds, Claimed
        <5>2. \A s \in Radio : ~Sent(s)
          BY <4>1, <5>1, SentHolds DEF SInv, EngineInv
        <5> QED BY <5>2 DEF SInv, QueueInv
      <4> QED BY <1>1, <3>1, <4>4, <4>5, BandSent
    <3>3. CASE ~SendKeyDown(r)
      <4>1. pc[r] \in {"lead", "begin"}
        BY <2>4, <3>3, WaysIn
      <4>2. PICK m \in Seq(Ctrl) : NoEdge(m) /\ inbox' = inbox \o m
        BY <3>3, <4>1, EngineSays DEF SendKeyUp, SendAbort, At
      <4>3. BandComes(d)
        BY <2>1, <3>1, <4>1 DEF DialInv
      <4> QED BY <1>1, <3>1, <4>2, <4>3, JoinedBehind
    <3> QED BY <3>2, <3>3
  <2> QED BY <2>2, <2>3, <2>4 DEF DialInv
<1> QED BY <1>2, <1>3 DEF FilterInv

\* The first message of two queues joined is the first one's.
LEMMA SplitHead ==
    ASSUME NEW s \in Seq(Ctrl), s # <<>>, NEW q \in Seq(Ctrl)
    PROVE  /\ Head(s \o q) = Head(s) /\ Tail(s) \in Seq(Ctrl)
           /\ Tail(s \o q) = Tail(s) \o q
OBVIOUS

\* A band still waiting has its key-down behind it.
LEMMA BandThenEdge ==
    ASSUME inbox \in Seq(Ctrl), NEW d \in Band, Waiting(d)
    PROVE  ~NoEdge(inbox)
<1>1. PICK s, m \in Seq(Ctrl) : inbox = s \o (<<TxBand(d)>> \o (<<Key(TRUE)>> \o m))
  BY DEF Waiting
<1>2. \A x, y \in Ctrl : LET q == <<x>> \o (<<y>> \o m)
                        IN  q \in Seq(Ctrl) /\ Len(q) >= 2 /\ q[2] = y
  OBVIOUS
<1> DEFINE q == <<TxBand(d)>> \o (<<Key(TRUE)>> \o m)
<1>3. q \in Seq(Ctrl) /\ Len(q) >= 2 /\ q[2] = Key(TRUE)
  BY <1>2, EdgeMessages
<1> HIDE DEF q
<1>4. \E i \in DOMAIN (s \o q) : (s \o q)[i] = q[2]
  <2>1. /\ Len(s) \in Nat /\ Len(q) \in Nat /\ Len(q) >= 2
        /\ DOMAIN (s \o q) = 1 .. Len(s) + Len(q)
        /\ \A i \in 1 .. Len(q) : (s \o q)[Len(s) + i] = q[i]
    BY <1>3
  <2>2. 2 \in 1 .. Len(q) /\ Len(s) + 2 \in 1 .. Len(s) + Len(q)
    BY <2>1
  <2> QED BY <2>1, <2>2
<1> QED BY <1>1, <1>3, <1>4, KeyEnds DEF NoEdge, q

\* A carrier comes up at the end of a key-down and nowhere else.
LEMMA CarriersRise ==
    ASSUME SInv, NEW s \in Radio, Engine(s) \/ Operator(s), NEW r \in Radio, ~rf[r], rf'[r]
    PROVE  pc[r] = "begin"
<1>1. rf \in [Radio -> BOOLEAN]
  BY DEF SInv, TypeOK
<1>2. CASE TxBegin(s)
  BY <1>1, <1>2 DEF TxBegin, At
<1>3. CASE HubStep(s)
  BY <1>3 DEF HubStep, TellBands, Claim, SendKeyDown, Lead, Unclaim, SendKeyUp, AbortClaim,
     SendAbort, worldVars
<1>4. CASE \/ PassRails(s) \/ RefuseRails(s) \/ TxBeginFails(s) \/ Deny(s) \/ Over(s)
           \/ RigSends(s) \/ CwExpires(s) \/ AbortCwUnkeys(s) \/ RigReport(s) \/ Swapped(s)
  BY <1>4 DEF PassRails, RefuseRails, TxBeginFails, Deny, Over, RigSends, CwExpires,
     AbortCwUnkeys, RigReport, Swapped, worldVars
<1>5. CASE PollTick(s) \/ CloseDriver(s) \/ OpenDriver(s) \/ InstallDriver(s)
  BY <1>5 DEF PollTick, Poll, AdoptSenseEdge, ApplyPending, CloseDriver, OpenDriver,
     InstallDriver, worldVars
<1>6. CASE Operator(s)
  BY <1>1, <1>6 DEF Operator, KeyDown, KeyUp, SendCwText, AbortCw, SetRelayConfig, TestRelay,
     SwapSource, Stop, LoseLink, Retune, MicKey, RigFinishes, worldVars
<1> QED BY <1>2, <1>3, <1>4, <1>5, <1>6 DEF Engine

\* The worker reads the band, takes it with the key-down and keeps it.
LEMMA ReceiveFilters ==
    ASSUME SInv, ReceiveCtrl, NEW d \in Band, BandComes(d)
    PROVE  BandComes(d)'
<1>1. /\ CalmInv /\ inbox \in Seq(Ctrl) /\ inbox # <<>> /\ inbox' = Tail(inbox)
      /\ engineOnAir \in BOOLEAN
  BY Obeyed DEF SInv, TypeOK, HubTypeOK, ContactsTypeOK
<1>2. /\ TxBand(d).op = "txBand" /\ TxBand(d).band = d
      /\ Key(TRUE).op = "key" /\ Key(TRUE).on = TRUE
  BY DEF Key, TxBand
<1>3. \A x \in Ctrl : \A q \in Seq(Ctrl) : Head(<<x>> \o q) = x /\ Tail(<<x>> \o q) = q
  OBVIOUS
<1>4. ASSUME NEW s \in Seq(Ctrl), NEW m \in Seq(Ctrl), ~Ends(s, engineOnAir), NoEdge(m),
             inbox = s \o (<<TxBand(d)>> \o (<<Key(TRUE)>> \o m))
      PROVE  BandComes(d)'
  <2> DEFINE k == <<Key(TRUE)>> \o m
             rest == <<TxBand(d)>> \o k
  <2>1. k \in Seq(Ctrl) /\ rest \in Seq(Ctrl)
    BY EdgeMessages, ConcatProperties
  <2>2. CASE s = <<>>
    <3>1. inbox = rest
      BY <1>4, <2>1, <2>2, ConcatEmptySeq
    <3>2. Head(inbox) = TxBand(d) /\ inbox' = k
      BY <1>1, <1>3, <2>1, <3>1, EdgeMessages
    <3>3. ~engineOnAir /\ ~OnAir
      BY <1>1, <1>4, <2>2 DEF Ends, NoEdge, OnAir, CalmInv
    <3>4. ReceiveTxBand
      BY <1>2, <3>2 DEF ReceiveCtrl, Receive, ReceiveKey, ReceiveAbort, ReceiveRxBand, ReceiveTest,
         ReceiveShutdown, Message
    <3>5. Taken' = d /\ engineOnAir' = engineOnAir
      BY <1>2, <3>2, <3>3, <3>4, BandAssumption DEF ReceiveTxBand, Taken
    <3> QED BY <1>4, <3>2, <3>3, <3>5 DEF BandComes, NextUp
  <2>3. CASE s # <<>>
    <3> HIDE DEF rest
    <3>1. Head(inbox) = Head(s) /\ Tail(inbox) = Tail(s) \o rest /\ Tail(s) \in Seq(Ctrl)
      BY <1>4, <2>1, <2>3, SplitHead DEF rest
    <3>2. ~Ends(Tail(s), engineOnAir')
      <4>1. engineOnAir' \in BOOLEAN
        BY <1>1, TypeStep DEF SInv, ReceiveCtrl, Worker, Next, TypeOK, HubTypeOK, ContactsTypeOK
      <4>2. \A next \in BOOLEAN :
               next = (IF Head(s).op = "key" THEN Head(s).on
                       ELSE IF Head(s).op = "abort" THEN FALSE ELSE engineOnAir)
                 => /\ NoEdge(s) => NoEdge(Tail(s)) /\ ~Edge(Head(s))
                    /\ Ends(Tail(s), next) <=> Ends(s, engineOnAir)
        BY <1>1, <2>3, Read
      <4> QED BY <1>4, <3>1, <4>1, <4>2, Obeyed
    <3> QED BY <1>1, <1>4, <3>1, <3>2 DEF BandComes, Waiting, rest
  <2> QED BY <2>2, <2>3
<1>5. CASE NextUp(d)
  <2>1. PICK m \in Seq(Ctrl) : inbox = <<Key(TRUE)>> \o m /\ NoEdge(m)
    BY <1>5 DEF NextUp
  <2>2. Head(inbox) = Key(TRUE) /\ inbox' = m
    BY <1>1, <1>3, <2>1, EdgeMessages
  <2>3. ReceiveKey
    BY <1>2, <2>2 DEF ReceiveCtrl, Receive, ReceiveTxBand, ReceiveAbort, ReceiveRxBand, ReceiveTest,
       ReceiveShutdown, Message
  <2>4. ~OnAir
    BY <1>1, <1>5 DEF NextUp, OnAir, CalmInv
  <2>5. engineOnAir' /\ txBand' = Taken
    BY <1>2, <2>2, <2>3, <2>4 DEF ReceiveKey, TakePending, Taken
  <2> QED BY <1>5, <2>1, <2>2, <2>5 DEF NextUp, Standing, BandComes
<1>6. CASE Standing(d)
  <2>1. ~Edge(Head(inbox)) /\ NoEdge(inbox')
    BY <1>1, <1>6 DEF Standing, NoEdge
  <2>2. engineOnAir' = engineOnAir
    BY <2>1, Obeyed DEF Edge
  <2>3. txBand' = txBand
    BY <1>6, <2>1
       DEF ReceiveCtrl, Receive, ReceiveKey, ReceiveAbort, ReceiveRxBand, ReceiveTxBand,
           ReceiveTest, ReceiveShutdown, Message, Standing, OnAir, Edge
  <2> QED BY <1>6, <2>1, <2>2, <2>3 DEF Standing, BandComes
<1> QED BY <1>4, <1>5, <1>6 DEF BandComes, Waiting

\* Contacts that move neither take a band from the queue nor lose one.
LEMMA MoveFilters ==
    ASSUME SInv, MoveContacts, NEW d \in Band, BandComes(d)
    PROVE  BandComes(d)'
<1>1. UNCHANGED <<inbox, engineOnAir>>
  BY DEF MoveContacts, Rise, Fall
<1>2. Taken' = Taken
  BY DEF MoveContacts, Rise, Fall, TakePending, Taken
<1>3. engineOnAir => txBand' = txBand
  BY DEF MoveContacts, Rise, Fall, OnAir
<1>4. Waiting(d) => Waiting(d)'
  BY <1>1 DEF Waiting, Ends, NoEdge
<1>5. NextUp(d) => NextUp(d)'
  BY <1>1, <1>2 DEF NextUp, NoEdge
<1>6. Standing(d) => Standing(d)'
  BY <1>1, <1>3 DEF Standing, NoEdge
<1> QED BY <1>4, <1>5, <1>6 DEF BandComes

\* Every step of the station.
LEMMA FilterStep ==
    ASSUME EngineDriven, SInv, FilterInv, [Next]_vars
    PROVE  FilterInv'
<1>1. ASSUME NEW r \in Radio, Engine(r) \/ Operator(r) PROVE FilterInv'
  BY <1>1, EngineFilters
<1>2. CASE Worker
  <2>1. ~SeeLine /\ ~Fail
    BY DEF SeeLine, Fail, EngineDriven
  <2>2. UNCHANGED <<pc, dial, told, hubTx>>
    BY <1>2, <2>1 DEF Worker, ReceiveCtrl, MoveContacts, hubOnly, elsewhere, controlVars, engineVars,
       worldVars
  <2>3. \A d \in Band : BandComes(d) => BandComes(d)'
    BY <1>2, <2>1, ReceiveFilters, MoveFilters DEF Worker
  <2>4. \A r \in Radio : dial[r] \in Band
    BY DEF SInv, TypeOK
  <2> QED BY <2>2, <2>3, <2>4 DEF FilterInv, DialInv
<1>3. CASE UNCHANGED vars
  <2>1. UNCHANGED <<inbox, engineOnAir, txBand, txBandPending, pc, dial, told, hubTx>>
    BY <1>3 DEF vars, hub, contactVars, hubVars, controlVars, engineVars, worldVars
  <2>2. \A d \in Band : BandComes(d) => BandComes(d)'
    BY <2>1 DEF BandComes, Waiting, NextUp, Standing, Taken, Ends, NoEdge
  <2>3. \A r \in Radio : dial[r] \in Band
    BY DEF SInv, TypeOK
  <2> QED BY <2>1, <2>2, <2>3 DEF FilterInv, DialInv
<1> QED BY <1>1, <1>2, <1>3 DEF Next

\* The filters stand on the keyer's transmit band when its carrier appears
\* (TrSwitch::key sends the band before the key-down, set_source takes it).
THEOREM FiltersReady == ASSUME EngineDriven PROVE Spec => FilterReady
<1>1. Init => FilterInv
  BY DEF Init, HubInit, FilterInv, DialInv
<1>2. SInv /\ FilterInv /\ [Next]_vars => FilterInv'
  BY FilterStep
<1>3. SInv /\ FilterInv /\ [Next]_vars
        => [\A r \in Radio : ~rf[r] /\ rf'[r] => txBand = dial[r]]_vars
  <2>1. SUFFICES ASSUME SInv, FilterInv, Next, NEW r \in Radio, ~rf[r], rf'[r]
                 PROVE  txBand = dial[r]
    OBVIOUS
  <2>2. PICK s \in Radio : Engine(s) \/ Operator(s)
    <3>1. rf' # rf
      BY <2>1
    <3> QED BY <2>1, <3>1, WorkerStepEngine DEF Next, elsewhere, worldVars
  <2>3. pc[r] = "begin"
    BY <2>1, <2>2, CarriersRise
  <2>4. \A d \in {dial[r]} : BandComes(d)
    BY <2>1, <2>3 DEF FilterInv, DialInv
  <2>5. LeadInv(r)
    BY <2>1 DEF SInv
  <2>6. engineOnAir /\ NoEdge(inbox)
    BY <2>3, <2>5 DEF LeadInv, UnderWay
  <2>7. inbox \in Seq(Ctrl) /\ dial[r] \in Band
    BY <2>1 DEF SInv, TypeOK, HubTypeOK, ContactsTypeOK
  <2>8. \A d \in Band : ~Waiting(d)
    BY <2>6, <2>7, BandThenEdge
  <2> QED BY <2>4, <2>6, <2>7, <2>8 DEF BandComes, NextUp, Standing
<1> QED BY <1>1, <1>2, <1>3, SwitchAccounted, PTL DEF Spec, FilterReady
=============================================================================
