---------------------------- MODULE StreamProofs ----------------------------
(***************************************************************************)
(* Theorems about IcomStream.  The argument is one of distance: whatever   *)
(* may still arrive, is asked for, or is asked again bears a number that   *)
(* stands for a packet less than half the sequence space behind the newest *)
(* packet taken, so that Ahead() and Named() - which see wrapped numbers   *)
(* only - speak of the packets they mean.  The distances are those of      *)
(* StreamAssumption, added up along the longest way a request and its      *)
(* answer may take.                                                        *)
(***************************************************************************)
EXTENDS IcomStream, TLAPS

----------------------------------------------------------------------------
(* Wrapped numbers. *)

\* There is a space to wrap in.
LEMMA SpacePositive == SeqSpace \in Nat /\ SeqSpace > 0 /\ SeqSpace = 2 * (SeqSpace \div 2)
BY StreamAssumption

\* Division by the space leaves a number in it.
LEMMA WrapDivides ==
    ASSUME NEW n \in Int
    PROVE  /\ Wrap(n) \in Seq /\ n \div SeqSpace \in Int
           /\ n = (SeqSpace * (n \div SeqSpace)) + Wrap(n)
BY SpacePositive DEF Wrap, Seq

\* A number of whole spaces is added and subtracted as numbers are.
LEMMA Distributes ==
    ASSUME NEW k \in Int, NEW l \in Int
    PROVE  /\ SeqSpace * (k - l) = (SeqSpace * k) - (SeqSpace * l)
           /\ SeqSpace * (k + l) = (SeqSpace * k) + (SeqSpace * l)
           /\ (SeqSpace * k) \in Int
BY SpacePositive

\* One space or more is at least a space.
LEMMA WholeSpaces == ASSUME NEW k \in Int, k >= 1 PROVE SeqSpace * k >= SeqSpace
BY SpacePositive

\* The remainder is the only one.
LEMMA WrapUnique ==
    ASSUME NEW k \in Int, NEW r \in Seq, NEW n \in Int, n = (SeqSpace * k) + r
    PROVE  Wrap(n) = r
<1> DEFINE q == n \div SeqSpace
<1>1. /\ q \in Int /\ Wrap(n) \in Seq /\ n = (SeqSpace * q) + Wrap(n)
  BY WrapDivides
<1>2. SeqSpace * (q - k) = r - Wrap(n) /\ SeqSpace * (k - q) = Wrap(n) - r
  BY <1>1, SpacePositive DEF Seq
<1>3. ~(q - k >= 1)
  <2>1. SUFFICES ASSUME q - k >= 1 PROVE FALSE
    OBVIOUS
  <2>2. SeqSpace * (q - k) >= SeqSpace
    BY <1>1, <2>1, WholeSpaces
  <2> QED BY <1>1, <1>2, <2>2, SpacePositive DEF Seq
<1>4. ~(k - q >= 1)
  <2>1. SUFFICES ASSUME k - q >= 1 PROVE FALSE
    OBVIOUS
  <2>2. SeqSpace * (k - q) >= SeqSpace
    BY <1>1, <2>1, WholeSpaces
  <2> QED BY <1>1, <1>2, <2>2, SpacePositive DEF Seq
<1>5. q - k = 0
  BY <1>1, <1>3, <1>4
<1>6. SeqSpace * (q - k) = 0
  BY <1>5, SpacePositive
<1>7. r - Wrap(n) = 0 /\ r \in Int /\ Wrap(n) \in Int
  BY <1>1, <1>2, <1>6, SpacePositive DEF Seq
<1> QED BY <1>7

\* A number that fits is not changed.
LEMMA WrapFits == ASSUME NEW n \in Seq PROVE Wrap(n) = n
<1>1. n = (SeqSpace * 0) + n /\ n \in Int
  BY SpacePositive DEF Seq
<1> QED BY <1>1, WrapUnique

\* Wrapping again, of a sum or a difference, is wrapping once.
LEMMA WrapAgain ==
    ASSUME NEW a \in Int, NEW b \in Int
    PROVE  /\ Wrap(Wrap(a) + b) = Wrap(a + b)
           /\ Wrap(b - Wrap(a)) = Wrap(b - a)
<1> DEFINE qa == a \div SeqSpace
<1> DEFINE r == Wrap(a + b)
<1> DEFINE q == (a + b) \div SeqSpace
<1> DEFINE s == Wrap(b - a)
<1> DEFINE p == (b - a) \div SeqSpace
<1>1. qa \in Int /\ Wrap(a) \in Int /\ a = (SeqSpace * qa) + Wrap(a)
  BY WrapDivides DEF Seq
<1>2. q \in Int /\ r \in Seq /\ a + b = (SeqSpace * q) + r
  BY WrapDivides
<1>3. p \in Int /\ s \in Seq /\ b - a = (SeqSpace * p) + s
  BY WrapDivides
<1> HIDE DEF qa, r, q, s, p
<1>4. Wrap(a) + b = (SeqSpace * (q - qa)) + r
  <2>1. SeqSpace * (q - qa) = (SeqSpace * q) - (SeqSpace * qa)
    BY <1>1, <1>2, Distributes
  <2>2. (SeqSpace * q) \in Int /\ (SeqSpace * qa) \in Int /\ r \in Int
    BY <1>1, <1>2, SpacePositive DEF Seq
  <2> QED BY <1>1, <1>2, <2>1, <2>2
<1>5. b - Wrap(a) = (SeqSpace * (p + qa)) + s
  <2>1. SeqSpace * (p + qa) = (SeqSpace * p) + (SeqSpace * qa)
    BY <1>1, <1>3, Distributes
  <2>2. (SeqSpace * p) \in Int /\ (SeqSpace * qa) \in Int /\ s \in Int
    BY <1>1, <1>3, SpacePositive DEF Seq
  <2> QED BY <1>1, <1>3, <2>1, <2>2
<1>6. Wrap(Wrap(a) + b) = r
  BY <1>1, <1>2, <1>4, WrapUnique
<1>7. Wrap(b - Wrap(a)) = s
  BY <1>1, <1>3, <1>5, WrapUnique
<1> QED BY <1>6, <1>7 DEF r, s

\* Two numbers of one wrap that are less than a space apart are the same.
LEMMA WrapApart ==
    ASSUME NEW a \in Int, NEW b \in Int, Wrap(a) = Wrap(b), a - b < SeqSpace, b - a < SeqSpace
    PROVE  a = b
<1> DEFINE qa == a \div SeqSpace
<1> DEFINE qb == b \div SeqSpace
<1>1. /\ qa \in Int /\ qb \in Int /\ Wrap(a) \in Int
      /\ a = (SeqSpace * qa) + Wrap(a) /\ b = (SeqSpace * qb) + Wrap(a)
  BY WrapDivides DEF Seq
<1>2. SeqSpace * (qa - qb) = a - b /\ SeqSpace * (qb - qa) = b - a
  BY <1>1, SpacePositive
<1>3. ~(qa - qb >= 1)
  <2>1. SUFFICES ASSUME qa - qb >= 1 PROVE FALSE
    OBVIOUS
  <2>2. SeqSpace * (qa - qb) >= SeqSpace
    BY <1>1, <2>1, WholeSpaces
  <2> QED BY <1>1, <1>2, <2>2, SpacePositive
<1>4. ~(qb - qa >= 1)
  <2>1. SUFFICES ASSUME qb - qa >= 1 PROVE FALSE
    OBVIOUS
  <2>2. SeqSpace * (qb - qa) >= SeqSpace
    BY <1>1, <2>1, WholeSpaces
  <2> QED BY <1>1, <1>2, <2>2, SpacePositive
<1>5. qa = qb
  BY <1>1, <1>3, <1>4
<1> QED BY <1>1, <1>5

\* The signed distance of two wrapped numbers is that of the packets, if they
\* are less than half a space apart.
LEMMA AheadOf ==
    ASSUME NEW a \in Int, NEW b \in Int, a - b < SeqSpace \div 2, b - a <= SeqSpace \div 2
    PROVE  Ahead(Wrap(a), Wrap(b)) = a - b
<1>1. Wrap(a) \in Int /\ Wrap(b) \in Int
  BY WrapDivides DEF Seq
<1>2. Wrap(Wrap(a) - Wrap(b)) = Wrap(Wrap(a) - b)
  BY <1>1, WrapAgain
<1>3. Wrap(Wrap(a) - b) = Wrap(a - b)
  <2>1. Wrap(Wrap(a) + (0 - b)) = Wrap(a + (0 - b))
    BY WrapAgain
  <2>2. Wrap(a) + (0 - b) = Wrap(a) - b /\ a + (0 - b) = a - b
    BY <1>1
  <2> QED BY <2>1, <2>2
<1>4. CASE a - b >= 0
  <2>1. a - b \in Seq
    BY <1>4, SpacePositive DEF Seq
  <2>2. Wrap(a - b) = a - b
    BY <2>1, WrapFits
  <2> QED BY <1>2, <1>3, <2>2 DEF Ahead
<1>5. CASE a - b < 0
  <2>1. (a - b) + SeqSpace \in Seq
    BY <1>5, SpacePositive DEF Seq
  <2>2. a - b = (SeqSpace * (0 - 1)) + ((a - b) + SeqSpace)
    BY SpacePositive
  <2>3. Wrap(a - b) = (a - b) + SeqSpace
    BY <2>1, <2>2, WrapUnique
  <2> QED BY <1>2, <1>3, <1>5, <2>3, SpacePositive DEF Ahead
<1> QED BY <1>4, <1>5

\* How far a wrapped number is behind.
LEMMA BehindBy ==
    ASSUME NEW high \in Int, NEW n \in Int, n <= high, high - n < SeqSpace
    PROVE  Wrap(high - Wrap(n)) = high - n
<1>1. Wrap(high - Wrap(n)) = Wrap(high - n)
  BY WrapAgain
<1>2. high - n \in Seq
  BY SpacePositive DEF Seq
<1> QED BY <1>1, <1>2, WrapFits

\* A gap's number names the packet that is missing.
LEMMA NamedIs ==
    ASSUME NEW n \in Int, top \in Int, n <= top, top - n < SeqSpace
    PROVE  Named(Wrap(n)) = n
<1>1. Wrap(top - Wrap(n)) = top - n
  BY BehindBy
<1> QED BY <1>1 DEF Named

----------------------------------------------------------------------------
(* How far behind the newest packet sent anything may be. *)

Patience == TRIES * Pace            \* a gap that is still asked for
OldBody == TX_BUFFER + Life         \* a packet that arrives
OldGap == OldBody + MAX_MISSING     \* a gap when it is found

\* What the assumption says of the distances: their sum is half a space at most.
LEMMA Bounds ==
    /\ {MAX_MISSING, TX_BUFFER, TRIES, Life, Pace, Silence, OldBody, OldGap} \subseteq Nat \ {0}
    /\ Patience \in Nat /\ OldGap = OldBody + MAX_MISSING /\ OldBody = TX_BUFFER + Life
    /\ Silence < SeqSpace \div 2
    /\ OldGap + Patience + Pace + (2 * Life) + 1 <= SeqSpace \div 2
<1>1. (TRIES + 1) * Pace = Patience + Pace /\ Patience \in Nat
  BY StreamAssumption DEF Patience
<1> HIDE DEF Patience
<1>2. Reach = OldGap + Patience + Pace + (2 * Life) + 1
  BY <1>1, StreamAssumption DEF Reach, OldGap, OldBody
<1> QED BY <1>1, <1>2, StreamAssumption, SpacePositive DEF OldGap, OldBody

\* One more request waits one more Pace.
LEMMA Requests ==
    ASSUME NEW k \in 0 .. TRIES
    PROVE  /\ k * Pace \in Nat /\ k * Pace <= Patience
           /\ (k + 1) * Pace = (k * Pace) + Pace
<1>1. k * Pace \in Nat /\ (k + 1) * Pace = (k * Pace) + Pace
  BY StreamAssumption
<1>2. (TRIES - k) * Pace \in Nat /\ (TRIES - k) * Pace = Patience - (k * Pace)
  BY StreamAssumption DEF Patience
<1> QED BY <1>1, <1>2, StreamAssumption DEF Patience

----------------------------------------------------------------------------
(* The inductive invariant. *)

\* Once anything was taken, the receiver is not further behind than a link that
\* is given up, or than the oldest packet that can arrive.
LagInv ==
    top # None => top < sent /\ (sent - top <= Silence + 1 \/ sent - top <= OldBody)

BufferInv == \A n \in tx_buf : n < sent /\ n >= sent - TX_BUFFER

\* A number stands for a packet up to this one, and not an older one than that.
Passed(high, seq, oldest) ==
    high # None /\ \E n \in Nat : n <= high /\ seq = Wrap(n) /\ n >= oldest

DataInv ==
    \A d \in net :
        /\ sent <= d.until /\ d.until <= sent + Life
        /\ d.body # Idle => /\ d.seq = Wrap(d.body) /\ d.body < sent
                            /\ d.body >= d.until - OldBody

IdleInv ==
    \A d \in net :
        d.body = Idle => Passed(top, d.seq, d.until - (2 * Life) - OldGap - Patience)

AskInv ==
    \A q \in asked :
        /\ sent <= q.until /\ q.until <= sent + Life
        /\ \A s \in q.wanted : Passed(top, s, q.until - Life - OldGap - Patience)

\* The longer a gap is asked for, the further it may be behind.
GapAge(s) == OldGap + (missing[s] * Pace) + sinceAsk

GapInv == \A s \in DOMAIN missing : Passed(top, s, sent - GapAge(s))

\* No gap stands for a packet that was taken.
OpenInv == \A s \in DOMAIN missing : s # 0 => Named(s) \notin handed

HighInv ==
    /\ rx_high = None <=> top = None
    /\ top = None => \A n \in handed : Wrap(n) = 0
    /\ HighIsNewest

IInv ==
    /\ StreamTypeOK /\ LagInv /\ BufferInv /\ DataInv /\ IdleInv /\ AskInv /\ GapInv
    /\ OpenInv /\ HighInv /\ AtMostOnce

\* What the invariant says of a packet, an idle and a gap.
LEMMA DataNear ==
    ASSUME IInv, top # None, NEW d \in net, d.body # Idle
    PROVE  /\ d.body \in Nat /\ d.seq = Wrap(d.body) /\ d.body < sent
           /\ d.body >= sent - OldBody
           /\ Ahead(d.seq, rx_high) = d.body - top
<1>1. d.body \in Nat /\ top \in Nat /\ d.until \in Nat /\ sent \in Nat
  BY DEF IInv, StreamTypeOK
<1>2. d.seq = Wrap(d.body) /\ d.body < sent /\ d.body >= sent - OldBody
  BY <1>1, Bounds DEF IInv, DataInv
<1>3. d.body - top < SeqSpace \div 2 /\ top - d.body <= SeqSpace \div 2
  <2>1. top < sent /\ (sent - top <= Silence + 1 \/ sent - top <= OldBody)
    BY DEF IInv, LagInv
  <2> QED BY <1>1, <1>2, <2>1, Bounds, SpacePositive
<1>4. rx_high = Wrap(top)
  BY DEF IInv, HighInv, HighIsNewest
<1> QED BY <1>1, <1>2, <1>3, <1>4, AheadOf

\* An idle that answers for a lost packet never reads as a packet ahead.
LEMMA IdleBehind ==
    ASSUME IInv, NEW d \in net, d.body = Idle
    PROVE  top # None /\ ~(Ahead(d.seq, rx_high) > 0)
<1>1. Passed(top, d.seq, d.until - (2 * Life) - OldGap - Patience)
  BY DEF IInv, IdleInv
<1>2. PICK n \in Nat : n <= top /\ d.seq = Wrap(n) /\ n >= d.until - (2 * Life) - OldGap - Patience
  BY <1>1 DEF Passed
<1>3. top \in Nat /\ sent \in Nat /\ d.until \in Nat /\ top < sent /\ sent <= d.until
  BY <1>1 DEF Passed, IInv, StreamTypeOK, LagInv, DataInv
<1>4. n - top < SeqSpace \div 2 /\ top - n <= SeqSpace \div 2
  BY <1>2, <1>3, Bounds, SpacePositive
<1>5. rx_high = Wrap(top)
  BY <1>1 DEF Passed, IInv, HighInv, HighIsNewest
<1>6. Ahead(d.seq, rx_high) = n - top
  BY <1>2, <1>3, <1>4, <1>5, AheadOf
<1> QED BY <1>1, <1>2, <1>3, <1>6 DEF Passed

\* A gap stands for one packet, not far behind.
LEMMA GapNear ==
    ASSUME IInv, NEW s \in DOMAIN missing
    PROVE  /\ top \in Nat /\ Named(s) \in Nat /\ Named(s) <= top /\ s = Wrap(Named(s))
           /\ Named(s) >= sent - GapAge(s)
           /\ GapAge(s) \in Nat /\ GapAge(s) <= OldGap + Patience + Pace
           /\ top < sent
<1>1. PICK n \in Nat : n <= top /\ s = Wrap(n) /\ n >= sent - GapAge(s)
  BY DEF IInv, GapInv, Passed
<1>2. top \in Nat /\ sent \in Nat /\ top < sent
  BY DEF IInv, GapInv, Passed, StreamTypeOK, LagInv
<1>3. missing[s] \in 0 .. TRIES /\ sinceAsk \in 0 .. Pace
  BY DEF IInv, StreamTypeOK
<1>4. GapAge(s) \in Nat /\ GapAge(s) <= OldGap + Patience + Pace
  <2>1. missing[s] * Pace \in Nat /\ missing[s] * Pace <= Patience
    BY <1>3, Requests
  <2> QED BY <1>3, <2>1, Bounds DEF GapAge
<1>5. top - n < SeqSpace
  BY <1>1, <1>2, <1>4, Bounds, SpacePositive
<1>6. Named(s) = n
  BY <1>1, <1>2, <1>5, NamedIs
<1> QED BY <1>1, <1>2, <1>4, <1>6

\* What was passed stays passed.
LEMMA StillPassed ==
    ASSUME NEW seq, NEW high \in Nat, NEW higher \in Nat, high <= higher,
           NEW oldest \in Int, NEW older \in Int, older <= oldest,
           Passed(high, seq, oldest)
    PROVE  Passed(higher, seq, older)
<1>1. PICK n \in Nat : n <= high /\ seq = Wrap(n) /\ n >= oldest
  BY DEF Passed
<1>2. n <= higher /\ n >= older /\ higher # None
  BY <1>1, StreamAssumption
<1> QED BY <1>1, <1>2 DEF Passed

\* Nothing was passed before anything was taken.
LEMMA PassedAny == ASSUME NEW high, NEW seq, NEW oldest, Passed(high, seq, oldest) PROVE high # None
BY DEF Passed

----------------------------------------------------------------------------
(* The initial states, and each action. *)

\* It holds before the first packet.
LEMMA InitInv == StreamInit => IInv
BY StreamAssumption
   DEF StreamInit, IInv, StreamTypeOK, LagInv, BufferInv, DataInv, IdleInv, AskInv, GapInv,
       OpenInv, HighInv, HighIsNewest, AtMostOnce

\* Sending: everything else grows one packet older.
LEMMA SendKeeps == IInv /\ SendTracked => IInv'
<1> SUFFICES ASSUME IInv, SendTracked PROVE IInv'
  OBVIOUS
<1> USE DEF sender, receiver, past
<1>1. /\ sent \in Nat /\ sent' = sent + 1 /\ sinceAsk' = sinceAsk + 1
      /\ sinceAsk \in 0 .. Pace - 1 /\ top \in Nat \cup {None}
      /\ UNCHANGED <<receiver, past>>
  BY Bounds DEF IInv, StreamTypeOK, SendTracked
<1>2. StreamTypeOK'
  <2>1. tx_buf' \subseteq Nat
    BY <1>1 DEF SendTracked, IInv, StreamTypeOK
  <2>4. sinceAsk' \in 0 .. Pace /\ sent' \in Nat
    BY <1>1, Bounds
  <2>2. net' \subseteq [seq : Seq, body : Nat \cup {Idle}, until : Nat]
    <3>1. [seq |-> Wrap(sent), body |-> sent, until |-> sent + Life]
             \in [seq : Seq, body : Nat \cup {Idle}, until : Nat]
      BY <1>1, WrapDivides, Bounds
    <3> QED BY <3>1 DEF SendTracked, IInv, StreamTypeOK
  <2>3. asked' \subseteq [wanted : SUBSET Seq, until : Nat]
    BY DEF SendTracked, IInv, StreamTypeOK
  <2> QED BY <1>1, <2>1, <2>2, <2>3, <2>4 DEF IInv, StreamTypeOK
<1>3. LagInv'
  BY <1>1, Bounds, StreamAssumption DEF SendTracked, IInv, LagInv
<1>4. BufferInv'
  BY <1>1, Bounds DEF SendTracked, IInv, BufferInv, StreamTypeOK
<1>5. DataInv'
  <2>1. SUFFICES ASSUME NEW d \in net'
                 PROVE  /\ sent' <= d.until /\ d.until <= sent' + Life
                        /\ d.body # Idle => /\ d.seq = Wrap(d.body) /\ d.body < sent'
                                            /\ d.body >= d.until - OldBody
    BY DEF DataInv
  <2>2. CASE d \in net /\ d.until > sent
    BY <1>1, <2>2, Bounds DEF IInv, DataInv, StreamTypeOK
  <2>3. CASE d = [seq |-> Wrap(sent), body |-> sent, until |-> sent + Life]
    BY <1>1, <2>3, Bounds
  <2> QED BY <2>1, <2>2, <2>3 DEF SendTracked
<1>6. IdleInv'
  <2>1. SUFFICES ASSUME NEW d \in net', d.body = Idle
                 PROVE  Passed(top', d.seq, d.until - (2 * Life) - OldGap - Patience)
    BY DEF IdleInv
  <2>2. d \in net
    BY <1>1, <2>1, StreamAssumption DEF SendTracked
  <2> QED BY <1>1, <2>1, <2>2 DEF IInv, IdleInv
<1>7. AskInv'
  <2>1. SUFFICES ASSUME NEW q \in asked'
                 PROVE  /\ sent' <= q.until /\ q.until <= sent' + Life
                        /\ \A s \in q.wanted :
                              Passed(top', s, q.until - Life - OldGap - Patience)
    BY DEF AskInv
  <2>2. q \in asked /\ q.until > sent /\ q.until \in Nat
    BY DEF SendTracked, IInv, StreamTypeOK
  <2> QED BY <1>1, <2>2, Bounds DEF IInv, AskInv
<1>8. GapInv'
  <2>1. SUFFICES ASSUME NEW s \in DOMAIN missing'
                 PROVE  Passed(top', s, sent' - GapAge(s)')
    BY DEF GapInv
  <2>2. s \in DOMAIN missing /\ top' = top /\ missing[s] \in 0 .. TRIES /\ missing' = missing
    BY <1>1 DEF IInv, StreamTypeOK
  <2>3. missing[s] * Pace \in Nat
    BY <2>2, Requests
  <2>4. sent' - GapAge(s)' = sent - GapAge(s)
    BY <1>1, <2>2, <2>3, Bounds DEF GapAge
  <2> QED BY <2>2, <2>4 DEF IInv, GapInv
<1>9. OpenInv' /\ HighInv' /\ AtMostOnce'
  BY <1>1 DEF IInv, OpenInv, HighInv, HighIsNewest, AtMostOnce, Named
<1> QED BY <1>2, <1>3, <1>4, <1>5, <1>6, <1>7, <1>8, <1>9 DEF IInv

\* Retransmission: from the buffer, or an idle.
LEMMA ServeKeeps == ASSUME NEW q \in asked PROVE IInv /\ ServeRetransmit(q) => IInv'
<1> SUFFICES ASSUME IInv, ServeRetransmit(q) PROVE IInv'
  OBVIOUS
<1> USE DEF sender, receiver, past
<1>1. /\ UNCHANGED <<sender, asked, receiver, sinceAsk, past>>
      /\ sent \in Nat /\ q.until \in Nat /\ q.wanted \subseteq Seq
      /\ sent <= q.until /\ q.until <= sent + Life
      /\ \A s \in q.wanted : Passed(top, s, q.until - Life - OldGap - Patience)
  BY DEF ServeRetransmit, IInv, StreamTypeOK, AskInv
<1>2. ASSUME NEW s \in q.wanted, NEW d, d = Answer(s)
      PROVE  /\ d \in [seq : Seq, body : Nat \cup {Idle}, until : Nat]
             /\ d.until = sent + Life /\ d.seq = s
             /\ d.body # Idle => /\ d.seq = Wrap(d.body) /\ d.body < sent
                                 /\ d.body >= d.until - OldBody
  <2> DEFINE held == {n \in tx_buf : Wrap(n) = s}
  <2>1. d = [seq |-> s, body |-> IF held = {} THEN Idle ELSE CHOOSE n \in held : TRUE,
             until |-> sent + Life]
    BY <1>2 DEF Answer, Datagram
  <2>2. CASE held = {}
    BY <1>1, <2>1, <2>2, Bounds
  <2>3. CASE held # {}
    <3>1. d.body \in held
      BY <2>1, <2>3
    <3>2. d.body \in Nat /\ Wrap(d.body) = s /\ d.body < sent /\ d.body >= sent - TX_BUFFER
      BY <3>1 DEF IInv, BufferInv, StreamTypeOK
    <3> QED BY <1>1, <2>1, <3>2, Bounds
  <2> QED BY <2>2, <2>3
<1>3. net' = net \cup {Answer(s) : s \in q.wanted}
  BY DEF ServeRetransmit
<1>4. StreamTypeOK'
  BY <1>1, <1>2, <1>3 DEF IInv, StreamTypeOK
<1>5. DataInv'
  <2>1. SUFFICES ASSUME NEW d \in net'
                 PROVE  /\ sent <= d.until /\ d.until <= sent + Life
                        /\ d.body # Idle => /\ d.seq = Wrap(d.body) /\ d.body < sent
                                            /\ d.body >= d.until - OldBody
    BY <1>1 DEF DataInv
  <2>2. CASE d \in net
    BY <2>2 DEF IInv, DataInv
  <2>3. CASE \E s \in q.wanted : d = Answer(s)
    BY <1>1, <1>2, <2>3, Bounds
  <2> QED BY <1>3, <2>2, <2>3
<1>6. IdleInv'
  <2>1. SUFFICES ASSUME NEW d \in net', d.body = Idle
                 PROVE  Passed(top, d.seq, d.until - (2 * Life) - OldGap - Patience)
    BY <1>1 DEF IdleInv
  <2>2. CASE d \in net
    BY <2>1, <2>2 DEF IInv, IdleInv
  <2>3. CASE \E s \in q.wanted : d = Answer(s)
    <3>1. PICK s \in q.wanted : d = Answer(s)
      BY <2>3
    <3>2. d.until = sent + Life /\ d.seq = s
      BY <1>2, <3>1
    <3>3. Passed(top, s, q.until - Life - OldGap - Patience) /\ top \in Nat
      BY <1>1, PassedAny DEF IInv, StreamTypeOK
    <3>4. /\ d.until - (2 * Life) - OldGap - Patience <= q.until - Life - OldGap - Patience
          /\ d.until - (2 * Life) - OldGap - Patience \in Int
          /\ q.until - Life - OldGap - Patience \in Int
      BY <1>1, <3>2, Bounds
    <3> QED BY <3>2, <3>3, <3>4, StillPassed
  <2> QED BY <1>3, <2>2, <2>3
<1>7. LagInv' /\ BufferInv' /\ AskInv' /\ OpenInv' /\ HighInv' /\ AtMostOnce'
  BY <1>1 DEF IInv, LagInv, BufferInv, AskInv, OpenInv, HighInv, HighIsNewest, AtMostOnce, Named
<1>8. GapInv'
  BY <1>1 DEF IInv, GapInv, GapAge
<1> QED BY <1>4, <1>5, <1>6, <1>7, <1>8 DEF IInv

\* The request timer.
LEMMA RequestKeeps == IInv /\ RequestMissing => IInv'
<1> SUFFICES ASSUME IInv, RequestMissing PROVE IInv'
  OBVIOUS
<1> USE DEF sender, receiver, past
<1>1. PICK next : /\ next \subseteq {s \in DOMAIN missing : missing[s] < TRIES}
                  /\ missing' = [s \in next |-> missing[s] + 1]
                  /\ forgone' = forgone \cup {Named(s) : s \in DOMAIN missing \ next}
                  /\ asked' = IF next = {} THEN asked
                              ELSE asked \cup {[wanted |-> next, until |-> sent + Life]}
  <2> DEFINE kept == {s \in DOMAIN missing : missing[s] < TRIES}
  <2> DEFINE n == IF Cardinality(DOMAIN missing) > MAX_MISSING THEN {} ELSE kept
  <2> WITNESS n
  <2> QED BY DEF RequestMissing
<1>2. /\ sinceAsk' = 0 /\ UNCHANGED <<sender, net, rx_high, top, handed, repeated>>
      /\ sent \in Nat /\ top \in Nat \cup {None}
  BY DEF RequestMissing, IInv, StreamTypeOK
<1>3. ASSUME NEW s \in next
      PROVE  /\ s \in DOMAIN missing /\ s \in Seq /\ missing'[s] = missing[s] + 1
             /\ missing[s] \in 0 .. TRIES - 1
             /\ missing[s] * Pace \in Nat /\ (missing[s] + 1) * Pace = (missing[s] * Pace) + Pace
             /\ (missing[s] + 1) * Pace <= Patience
             /\ top \in Nat /\ GapAge(s) \in Nat /\ Passed(top, s, sent - GapAge(s))
  <2>1. s \in DOMAIN missing /\ s \in Seq /\ missing[s] \in 0 .. TRIES /\ missing[s] < TRIES
    BY <1>1 DEF IInv, StreamTypeOK
  <2>2. missing'[s] = missing[s] + 1
    BY <1>1
  <2>3. missing[s] \in 0 .. TRIES - 1 /\ missing[s] + 1 \in 0 .. TRIES
    BY <2>1, Bounds
  <2>4. (missing[s] + 1) * Pace <= Patience
    BY <2>3, Requests
  <2> QED BY <2>1, <2>2, <2>3, <2>4, Requests, GapNear DEF IInv, GapInv
<1>4. StreamTypeOK'
  <2>1. forgone' \subseteq Nat
    BY <1>1, GapNear DEF IInv, StreamTypeOK
  <2>2. asked' \subseteq [wanted : SUBSET Seq, until : Nat]
    <3>1. [wanted |-> next, until |-> sent + Life] \in [wanted : SUBSET Seq, until : Nat]
      BY <1>2, <1>3, Bounds
    <3> QED BY <1>1, <3>1 DEF IInv, StreamTypeOK
  <2>3. DOMAIN missing' = next /\ \A s \in next : missing'[s] \in 0 .. TRIES
    BY <1>1, <1>3, Bounds
  <2>4. DOMAIN missing' \subseteq Seq
    BY <2>3, <1>3
  <2>5. sinceAsk' \in 0 .. Pace
    BY <1>2, Bounds
  <2> QED BY <1>2, <2>1, <2>2, <2>3, <2>4, <2>5 DEF IInv, StreamTypeOK
<1>5. AskInv'
  <2>1. SUFFICES ASSUME NEW q \in asked'
                 PROVE  /\ sent <= q.until /\ q.until <= sent + Life
                        /\ \A s \in q.wanted : Passed(top, s, q.until - Life - OldGap - Patience)
    BY <1>2 DEF AskInv
  <2>2. CASE q \in asked
    BY <2>2 DEF IInv, AskInv
  <2>3. CASE q = [wanted |-> next, until |-> sent + Life]
    <3>1. ASSUME NEW s \in next
          PROVE  Passed(top, s, sent - OldGap - Patience)
      <4>1. sent - OldGap - Patience <= sent - GapAge(s)
        BY <1>2, <1>3, Bounds DEF GapAge, IInv, StreamTypeOK
      <4> QED BY <1>2, <1>3, <4>1, Bounds, StillPassed
    <3>2. q.until - Life - OldGap - Patience = sent - OldGap - Patience
      BY <1>2, <2>3, Bounds
    <3> QED BY <1>2, <2>3, <3>1, <3>2, Bounds
  <2> QED BY <1>1, <2>2, <2>3
<1>6. GapInv'
  <2>1. SUFFICES ASSUME NEW s \in next
                 PROVE  Passed(top', s, sent' - GapAge(s)')
    BY <1>1 DEF GapInv
  <2>2. GapAge(s)' = OldGap + ((missing[s] + 1) * Pace)
    BY <1>2, <1>3, Bounds DEF GapAge
  <2>3. sent' - GapAge(s)' \in Int /\ sent' - GapAge(s)' <= sent - GapAge(s)
    BY <1>2, <1>3, <2>2, Bounds DEF GapAge, IInv, StreamTypeOK
  <2> QED BY <1>2, <1>3, <2>3, StillPassed
<1>7. LagInv' /\ BufferInv' /\ DataInv' /\ IdleInv' /\ HighInv' /\ AtMostOnce'
  BY <1>2 DEF IInv, LagInv, BufferInv, DataInv, IdleInv, HighInv, HighIsNewest, AtMostOnce
<1>8. OpenInv'
  BY <1>1, <1>2, <1>3 DEF IInv, OpenInv, Named
<1> QED BY <1>4, <1>5, <1>6, <1>7, <1>8 DEF IInv

\* What an arrival leaves alone, while the receiver moves on.
LEMMA WireKept ==
    ASSUME IInv, UNCHANGED <<sender, wire, sinceAsk>>,
           top' \in Nat, top' < sent, top # None => top <= top',
           top = None => sent - top' <= OldBody
    PROVE  LagInv' /\ BufferInv' /\ DataInv' /\ IdleInv' /\ AskInv'
<1> USE DEF sender, wire
<1>1. sent \in Nat /\ top \in Nat \cup {None} /\ top' # None
  BY StreamAssumption DEF IInv, StreamTypeOK
<1>2. LagInv'
  BY <1>1, Bounds DEF IInv, LagInv
<1>3. BufferInv' /\ DataInv'
  BY DEF IInv, BufferInv, DataInv
<1>4. ASSUME NEW s, NEW o \in Int, Passed(top, s, o)
      PROVE  Passed(top', s, o)
  BY <1>1, <1>4, PassedAny, StillPassed
<1>5. IdleInv'
  <2>1. SUFFICES ASSUME NEW d \in net, d.body = Idle
                 PROVE  Passed(top', d.seq, d.until - (2 * Life) - OldGap - Patience)
    BY DEF IdleInv
  <2>2. d.until - (2 * Life) - OldGap - Patience \in Int
    BY Bounds DEF IInv, StreamTypeOK
  <2> QED BY <1>4, <2>1, <2>2 DEF IInv, IdleInv
<1>6. AskInv'
  <2>1. SUFFICES ASSUME NEW q \in asked, NEW s \in q.wanted
                 PROVE  Passed(top', s, q.until - Life - OldGap - Patience)
    BY DEF AskInv, IInv
  <2>2. q.until - Life - OldGap - Patience \in Int
    BY Bounds DEF IInv, StreamTypeOK
  <2> QED BY <1>4, <2>2 DEF IInv, AskInv
<1> QED BY <1>2, <1>3, <1>5, <1>6

\* A datagram whose sequence is 0.
LEMMA UnsequencedKeeps ==
    ASSUME NEW d \in net
    PROVE  IInv /\ Unsequenced(d) /\ UNCHANGED <<sender, wire, sinceAsk>> => IInv'
<1> SUFFICES ASSUME IInv, Unsequenced(d), UNCHANGED <<sender, wire, sinceAsk>> PROVE IInv'
  OBVIOUS
<1> USE DEF sender, wire, receiver
<1>1. /\ UNCHANGED <<sender, wire, sinceAsk, receiver, top, forgone>>
      /\ d.seq = 0 /\ Take(d) /\ d.body \in Nat \cup {Idle}
  BY DEF Unsequenced, IInv, StreamTypeOK
<1>2. d.body # Idle => Wrap(d.body) = 0
  BY <1>1 DEF IInv, DataInv
<1>3. /\ handed' \subseteq Nat /\ repeated' \subseteq Nat
      /\ \A n \in handed' : n \notin handed => Wrap(n) = 0
      /\ \A n \in repeated' : n \notin repeated => Wrap(n) = 0
  BY <1>1, <1>2 DEF Take, IInv, StreamTypeOK
<1>4. StreamTypeOK'
  BY <1>1, <1>3 DEF IInv, StreamTypeOK
<1>5. LagInv' /\ BufferInv' /\ DataInv' /\ IdleInv' /\ AskInv' /\ GapInv'
  BY <1>1 DEF IInv, LagInv, BufferInv, DataInv, IdleInv, AskInv, GapInv, GapAge
<1>6. OpenInv'
  <2>1. SUFFICES ASSUME NEW s \in DOMAIN missing, s # 0 PROVE Named(s) \notin handed'
    BY <1>1 DEF OpenInv, Named
  <2>2. s = Wrap(Named(s)) /\ Named(s) \notin handed
    BY <2>1, GapNear DEF IInv, OpenInv
  <2> QED BY <1>3, <2>1, <2>2
<1>7. HighInv' /\ AtMostOnce'
  BY <1>1, <1>3 DEF IInv, HighInv, HighIsNewest, AtMostOnce
<1> QED BY <1>4, <1>5, <1>6, <1>7 DEF IInv

\* A packet taken for the first time.
LEMMA TakesNew ==
    ASSUME NEW d \in net, IInv, Take(d), d.body \in Nat, d.body \notin handed
    PROVE  handed' = handed \cup {d.body} /\ repeated' = repeated
<1>1. d.body # Idle
  BY StreamAssumption
<1> QED BY <1>1 DEF Take

\* The first packet of the stream.
LEMMA FirstKeeps ==
    ASSUME NEW d \in net
    PROVE  IInv /\ AcceptFirst(d) /\ UNCHANGED <<sender, wire, sinceAsk>> => IInv'
<1> SUFFICES ASSUME IInv, AcceptFirst(d), UNCHANGED <<sender, wire, sinceAsk>> PROVE IInv'
  OBVIOUS
<1>1. /\ UNCHANGED <<sender, wire, sinceAsk, missing, forgone>>
      /\ top = None /\ rx_high' = d.seq /\ top' = d.body /\ Take(d) /\ d.seq # 0
      /\ d.seq \in Seq /\ d.until \in Nat /\ sent \in Nat
  BY DEF AcceptFirst, IInv, StreamTypeOK, HighInv
<1>2. d.body # Idle
  BY <1>1, IdleBehind
<1>3. /\ d.body \in Nat /\ d.seq = Wrap(d.body) /\ d.body < sent /\ sent - d.body <= OldBody
  BY <1>1, <1>2, Bounds DEF IInv, StreamTypeOK, DataInv
<1>4. DOMAIN missing = {}
  <2>1. SUFFICES ASSUME NEW s \in DOMAIN missing PROVE FALSE
    OBVIOUS
  <2>2. top \in Nat
    BY GapNear
  <2> QED BY <1>1, <2>2, StreamAssumption
<1>5. d.body \notin handed
  BY <1>1, <1>3 DEF IInv, HighInv
<1>6. handed' = handed \cup {d.body} /\ repeated' = repeated
  BY <1>1, <1>3, <1>5, TakesNew
<1>7. StreamTypeOK'
  BY <1>1, <1>3, <1>6 DEF IInv, StreamTypeOK, sender, wire
<1>8. LagInv' /\ BufferInv' /\ DataInv' /\ IdleInv' /\ AskInv'
  BY <1>1, <1>3, WireKept
<1>9. GapInv' /\ OpenInv' /\ AtMostOnce'
  BY <1>1, <1>4, <1>6 DEF IInv, GapInv, OpenInv, AtMostOnce
<1>10. HighInv'
  <2>1. rx_high' # None /\ top' # None
    BY <1>1, <1>3, StreamAssumption DEF Seq
  <2>2. \A n \in handed' : n <= top' \/ Wrap(n) = 0
    BY <1>1, <1>3, <1>6 DEF IInv, HighInv
  <2> QED BY <1>1, <1>3, <2>1, <2>2 DEF HighInv, HighIsNewest
<1> QED BY <1>7, <1>8, <1>9, <1>10 DEF IInv

\* A packet ahead of the highest is new, and not an idle.
LEMMA AheadIsNew ==
    ASSUME NEW d \in net, IInv, rx_high # None, d.seq # 0, Ahead(d.seq, rx_high) > 0
    PROVE  /\ top \in Nat /\ d.body \in Nat /\ d.seq = Wrap(d.body) /\ d.seq \in Seq
           /\ d.body > top /\ d.body < sent /\ d.body >= sent - OldBody
           /\ Ahead(d.seq, rx_high) = d.body - top
           /\ rx_high = Wrap(top)
           /\ d.body \notin handed
<1>1. d.body # Idle
  BY IdleBehind
<1>2. top # None /\ top \in Nat /\ rx_high = Wrap(top) /\ d.seq \in Seq
  BY StreamAssumption DEF IInv, HighInv, HighIsNewest, StreamTypeOK
<1>3. /\ d.body \in Nat /\ d.seq = Wrap(d.body) /\ d.body < sent /\ d.body >= sent - OldBody
      /\ Ahead(d.seq, rx_high) = d.body - top
  BY <1>1, <1>2, DataNear
<1>4. d.body > top
  BY <1>2, <1>3
<1>5. d.body \notin handed
  BY <1>2, <1>3, <1>4 DEF IInv, HighInv, HighIsNewest
<1> QED BY <1>2, <1>3, <1>4, <1>5

\* The receiver's view after it.
LEMMA AheadMoves ==
    ASSUME NEW d \in net, IInv, rx_high # None, d.seq # 0, Ahead(d.seq, rx_high) > 0,
           UNCHANGED <<sender, wire, sinceAsk>>, rx_high' = d.seq, top' = d.body, Take(d)
    PROVE  /\ LagInv' /\ BufferInv' /\ DataInv' /\ IdleInv' /\ AskInv'
           /\ HighInv' /\ AtMostOnce'
           /\ handed' = handed \cup {d.body} /\ repeated' = repeated
<1>1. /\ top \in Nat /\ d.body \in Nat /\ d.seq = Wrap(d.body) /\ d.seq \in Seq
      /\ d.body > top /\ d.body < sent /\ d.body \notin handed
  BY AheadIsNew
<1>2. handed' = handed \cup {d.body} /\ repeated' = repeated
  BY <1>1, TakesNew
<1>3. LagInv' /\ BufferInv' /\ DataInv' /\ IdleInv' /\ AskInv'
  BY <1>1, WireKept, StreamAssumption
<1>4. HighInv'
  <2>1. rx_high' # None /\ top' # None
    BY <1>1, StreamAssumption DEF Seq
  <2>2. \A n \in handed : n \in Nat /\ (n <= top \/ Wrap(n) = 0)
    BY <1>1, StreamAssumption DEF IInv, HighInv, HighIsNewest, StreamTypeOK
  <2>3. \A n \in handed' : n <= top' \/ Wrap(n) = 0
    BY <1>1, <1>2, <2>2
  <2> QED BY <1>1, <2>1, <2>3 DEF HighInv, HighIsNewest
<1>5. AtMostOnce'
  BY <1>2 DEF IInv, AtMostOnce
<1> QED BY <1>2, <1>3, <1>4, <1>5

\* A jump too large to chase is a jump ahead.
LEMMA FarIsAhead ==
    ASSUME NEW d \in net, IInv, Resynchronise(d)
    PROVE  Ahead(d.seq, rx_high) > 0
<1>1. d.seq \in Int /\ rx_high \in Int
  BY DEF Resynchronise, IInv, StreamTypeOK, Seq
<1>2. Wrap(d.seq - rx_high) \in Int
  BY <1>1, WrapDivides DEF Seq
<1>3. Ahead(d.seq, rx_high) \in Int
  BY <1>2, SpacePositive DEF Ahead
<1> QED BY <1>3, Bounds DEF Resynchronise

\* Starting again forgets every gap.
LEMMA ResynchroniseKeeps ==
    ASSUME NEW d \in net
    PROVE  IInv /\ Resynchronise(d) /\ UNCHANGED <<sender, wire, sinceAsk>> => IInv'
<1> SUFFICES ASSUME IInv, Resynchronise(d), UNCHANGED <<sender, wire, sinceAsk>> PROVE IInv'
  OBVIOUS
<1>1. /\ rx_high # None /\ d.seq # 0 /\ rx_high' = d.seq /\ top' = d.body /\ Take(d)
      /\ DOMAIN missing' = {}
      /\ forgone' = forgone \cup Open \cup (top + 1 .. d.body - 1)
  BY DEF Resynchronise
<1>2. Ahead(d.seq, rx_high) > 0
  BY FarIsAhead
<1>3. /\ top \in Nat /\ d.body \in Nat /\ d.seq \in Seq
      /\ LagInv' /\ BufferInv' /\ DataInv' /\ IdleInv' /\ AskInv' /\ HighInv' /\ AtMostOnce'
      /\ handed' = handed \cup {d.body} /\ repeated' = repeated
  BY <1>1, <1>2, AheadIsNew, AheadMoves
<1>4. forgone' \subseteq Nat
  <2>1. Open \subseteq Nat
    BY GapNear DEF Open
  <2>2. top + 1 .. d.body - 1 \subseteq Nat
    BY <1>3
  <2>3. forgone \subseteq Nat
    BY DEF IInv, StreamTypeOK
  <2> QED BY <1>1, <2>1, <2>2, <2>3
<1>5. StreamTypeOK'
  BY <1>1, <1>3, <1>4 DEF IInv, StreamTypeOK, sender, wire
<1>6. GapInv' /\ OpenInv'
  BY <1>1 DEF GapInv, OpenInv
<1> QED BY <1>3, <1>5, <1>6 DEF IInv

\* What a gap's number names after the highest moved.
LEMMA NamedLater ==
    ASSUME NEW s, NEW n \in Nat, s = Wrap(n), top' \in Int, n <= top', top' - n < SeqSpace
    PROVE  Named(s)' = n
<1>1. Wrap(top' - Wrap(n)) = top' - n
  BY BehindBy
<1>2. Named(s)' = top' - Wrap(top' - s)
  BY DEF Named, Wrap
<1> QED BY <1>1, <1>2

\* A packet ahead by no more than a jump: what it skipped becomes gaps.
LEMMA AheadKeeps ==
    ASSUME NEW d \in net
    PROVE  IInv /\ AcceptAhead(d) /\ UNCHANGED <<sender, wire, sinceAsk>> => IInv'
<1> SUFFICES ASSUME IInv, AcceptAhead(d), UNCHANGED <<sender, wire, sinceAsk>> PROVE IInv'
  OBVIOUS
<1> DEFINE fresh == Between(rx_high, d.seq)
<1>1. /\ rx_high # None /\ d.seq # 0 /\ rx_high' = d.seq /\ top' = d.body /\ Take(d)
      /\ UNCHANGED <<sender, wire, sinceAsk, forgone>>
      /\ Ahead(d.seq, rx_high) \in 1 .. MAX_MISSING
      /\ missing' = [s \in DOMAIN missing \cup fresh |->
                        IF s \in DOMAIN missing THEN missing[s] ELSE 0]
  BY DEF AcceptAhead
<1>2. Ahead(d.seq, rx_high) > 0
  BY <1>1, Bounds
<1>3. /\ top \in Nat /\ d.body \in Nat /\ d.seq \in Seq /\ d.body > top /\ d.body < sent
      /\ d.body >= sent - OldBody /\ rx_high = Wrap(top)
      /\ Ahead(d.seq, rx_high) = d.body - top
  BY <1>1, <1>2, AheadIsNew
<1>4. /\ LagInv' /\ BufferInv' /\ DataInv' /\ IdleInv' /\ AskInv' /\ HighInv' /\ AtMostOnce'
      /\ handed' = handed \cup {d.body} /\ repeated' = repeated
  BY <1>1, <1>2, AheadMoves
<1>5. sent \in Nat /\ sinceAsk \in 0 .. Pace /\ sent' = sent /\ sinceAsk' = sinceAsk
  BY <1>1 DEF IInv, StreamTypeOK, sender
<1>6. ASSUME NEW s \in fresh
      PROVE  \E n \in top + 1 .. d.body - 1 : s = Wrap(n) /\ n \in Nat /\ n >= sent - OldGap
  <2>1. PICK i \in 1 .. Ahead(d.seq, rx_high) - 1 : s = Wrap(rx_high + i)
    BY DEF Between
  <2>2. i \in Int /\ i >= 1 /\ i <= d.body - top - 1 /\ d.body - top <= MAX_MISSING
    BY <1>1, <1>3, <2>1
  <2>3. s = Wrap(top + i)
    BY <1>3, <2>1, <2>2, WrapAgain
  <2>4. top + i \in top + 1 .. d.body - 1 /\ top + i \in Nat /\ top + i >= sent - OldGap
    BY <1>3, <1>5, <2>2, Bounds
  <2> QED BY <2>3, <2>4
<1>7. ASSUME NEW s \in DOMAIN missing'
      PROVE  /\ s \in Seq /\ missing'[s] \in 0 .. TRIES
             /\ s \in DOMAIN missing => missing'[s] = missing[s]
             /\ s \notin DOMAIN missing => missing'[s] = 0 /\ s \in fresh
  <2>1. s \in DOMAIN missing => missing'[s] = missing[s] /\ s \in Seq /\ missing[s] \in 0 .. TRIES
    BY <1>1 DEF IInv, StreamTypeOK
  <2>2. s \notin DOMAIN missing => missing'[s] = 0 /\ s \in fresh
    BY <1>1
  <2>3. s \in fresh => s \in Seq
    BY <1>6, WrapDivides
  <2> QED BY <2>1, <2>2, <2>3, Bounds
<1>8. StreamTypeOK'
  BY <1>1, <1>3, <1>4, <1>7 DEF IInv, StreamTypeOK, sender, wire
<1>9. ASSUME NEW s \in DOMAIN missing'
      PROVE  /\ Passed(top', s, sent - GapAge(s)')
             /\ s # 0 => Named(s)' \notin handed'
  <2>1. CASE s \in DOMAIN missing
    <3>1. GapAge(s)' = GapAge(s)
      BY <1>5, <1>7, <2>1 DEF GapAge
    <3>2. /\ Named(s) \in Nat /\ Named(s) <= top /\ s = Wrap(Named(s))
          /\ Named(s) >= sent - GapAge(s) /\ GapAge(s) \in Nat
          /\ GapAge(s) <= OldGap + Patience + Pace
      BY <2>1, GapNear
    <3>3. top' \in Int /\ Named(s) <= top' /\ top' - Named(s) < SeqSpace
      BY <1>1, <1>3, <1>5, <3>2, Bounds, SpacePositive
    <3>4. Named(s)' = Named(s)
      BY <3>2, <3>3, NamedLater
    <3>5. Passed(top', s, sent - GapAge(s))
      BY <1>1, <1>3, <3>2, <3>3, StreamAssumption DEF Passed
    <3>6. s # 0 => Named(s) \notin handed'
      BY <1>3, <1>4, <2>1, <3>2 DEF IInv, OpenInv
    <3> QED BY <3>1, <3>4, <3>5, <3>6
  <2>2. CASE s \notin DOMAIN missing
    <3>1. PICK n \in top + 1 .. d.body - 1 : s = Wrap(n) /\ n \in Nat /\ n >= sent - OldGap
      BY <1>6, <1>7, <2>2
    <3>2. GapAge(s)' = OldGap + sinceAsk
      BY <1>5, <1>7, <2>2, Bounds DEF GapAge
    <3>3. top' \in Int /\ n <= top' /\ top' - n < SeqSpace
      BY <1>1, <1>3, <1>5, <3>1, Bounds, SpacePositive
    <3>4. Passed(top', s, sent - GapAge(s)')
      BY <1>1, <1>3, <1>5, <3>1, <3>2, <3>3, Bounds, StreamAssumption DEF Passed
    <3>5. Named(s)' = n
      BY <3>1, <3>3, NamedLater
    <3>6. s # 0 => n \notin handed'
      <4>1. \A m \in handed : m \in Nat /\ (m <= top \/ Wrap(m) = 0)
        BY <1>3, StreamAssumption DEF IInv, HighInv, HighIsNewest, StreamTypeOK
      <4> QED BY <1>3, <1>4, <3>1, <4>1
    <3> QED BY <3>4, <3>5, <3>6
  <2> QED BY <2>1, <2>2
<1>10. GapInv' /\ OpenInv'
  BY <1>5, <1>9 DEF GapInv, OpenInv
<1> QED BY <1>4, <1>8, <1>10 DEF IInv

\* What an arrival that leaves the highest where it is leaves alone.
LEMMA StillThere ==
    ASSUME IInv, UNCHANGED <<sender, wire, sinceAsk, rx_high, top>>,
           DOMAIN missing' \subseteq DOMAIN missing,
           \A s \in DOMAIN missing' : missing'[s] = missing[s]
    PROVE  LagInv' /\ BufferInv' /\ DataInv' /\ IdleInv' /\ AskInv' /\ GapInv'
<1> USE DEF sender, wire, IInv
<1>1. LagInv' /\ BufferInv'
  BY DEF LagInv, BufferInv
<1>2. DataInv' /\ IdleInv' /\ AskInv'
  BY DEF DataInv, IdleInv, AskInv
<1>3. GapInv'
  BY DEF GapInv, GapAge
<1> QED BY <1>1, <1>2, <1>3

\* An answer that is behind the highest is not ahead of it.
LEMMA AnswerBehind ==
    ASSUME NEW d \in net, IInv, AcceptMissing(d)
    PROVE  ~(Ahead(d.seq, rx_high) > 0)
<1>1. d.seq \in Int /\ rx_high \in Int
  BY DEF AcceptMissing, IInv, StreamTypeOK, Seq
<1>2. Wrap(d.seq - rx_high) \in Int
  BY <1>1, WrapDivides DEF Seq
<1>3. Ahead(d.seq, rx_high) \in Int
  BY <1>2, SpacePositive DEF Ahead
<1> QED BY <1>3 DEF AcceptMissing

\* What fills a gap is the packet that was missing, not one of another round.
LEMMA FillsGap ==
    ASSUME NEW d \in net, IInv, AcceptMissing(d), d.body # Idle
    PROVE  Named(d.seq) = d.body
<1>1. ~(Ahead(d.seq, rx_high) > 0)
  BY AnswerBehind
<1>2. top \in Nat /\ sent \in Nat /\ top < sent /\ top # None
  BY GapNear, StreamAssumption DEF AcceptMissing, IInv, StreamTypeOK
<1>3. /\ d.body \in Nat /\ d.seq = Wrap(d.body) /\ d.body < sent
      /\ d.body >= sent - OldBody /\ Ahead(d.seq, rx_high) = d.body - top
  BY <1>2, DataNear
<1>4. d.body <= top /\ top - d.body < SeqSpace
  BY <1>1, <1>2, <1>3, Bounds, SpacePositive
<1> QED BY <1>2, <1>3, <1>4, NamedIs

\* A late packet, or an answer, for a gap.
LEMMA MissingKeeps ==
    ASSUME NEW d \in net
    PROVE  IInv /\ AcceptMissing(d) /\ UNCHANGED <<sender, wire, sinceAsk>> => IInv'
<1> SUFFICES ASSUME IInv, AcceptMissing(d), UNCHANGED <<sender, wire, sinceAsk>> PROVE IInv'
  OBVIOUS
<1>1. /\ UNCHANGED <<sender, wire, sinceAsk, rx_high, top>>
      /\ d.seq # 0 /\ d.seq \in DOMAIN missing /\ Take(d)
      /\ ~(Ahead(d.seq, rx_high) > 0)
      /\ missing' = [s \in DOMAIN missing \ {d.seq} |-> missing[s]]
      /\ forgone' = IF d.body = Idle THEN forgone \cup {Named(d.seq)} ELSE forgone
  BY AnswerBehind DEF AcceptMissing
<1>2. top \in Nat /\ sent \in Nat /\ top < sent /\ Named(d.seq) \in Nat /\ top # None
  BY <1>1, GapNear, StreamAssumption DEF IInv, StreamTypeOK
<1>3. DOMAIN missing' = DOMAIN missing \ {d.seq} /\ \A s \in DOMAIN missing' : missing'[s] = missing[s]
  BY <1>1
<1>4. CASE d.body = Idle
  <2>1. handed' = handed /\ repeated' = repeated
    BY <1>1, <1>4 DEF Take
  <2>2. StreamTypeOK'
    BY <1>1, <1>2, <1>3, <2>1 DEF IInv, StreamTypeOK, sender, wire
  <2>3. HighInv' /\ AtMostOnce' /\ OpenInv'
    BY <1>1, <1>3, <2>1 DEF IInv, HighInv, HighIsNewest, AtMostOnce, OpenInv, Named
  <2> QED BY <1>1, <1>3, <2>2, <2>3, StillThere DEF IInv
<1>5. CASE d.body # Idle
  <2>1. /\ d.body \in Nat /\ d.seq = Wrap(d.body) /\ d.body < sent
        /\ d.body >= sent - OldBody /\ Ahead(d.seq, rx_high) = d.body - top
    BY <1>2, <1>5, DataNear
  <2>2. Named(d.seq) = d.body
    BY <1>5, FillsGap
  <2>3. d.body \notin handed
    BY <1>1, <2>2 DEF IInv, OpenInv
  <2>4. handed' = handed \cup {d.body} /\ repeated' = repeated /\ forgone' = forgone
    BY <1>1, <1>5, <2>1, <2>3, TakesNew
  <2>5. StreamTypeOK'
    BY <1>1, <1>3, <2>1, <2>4 DEF IInv, StreamTypeOK, sender, wire
  <2>6. OpenInv'
    <3>1. SUFFICES ASSUME NEW s \in DOMAIN missing', s # 0 PROVE Named(s)' \notin handed'
      BY DEF OpenInv
    <3>2. s \in DOMAIN missing /\ s # d.seq /\ Named(s)' = Named(s)
      BY <1>1, <1>3 DEF Named
    <3>3. s = Wrap(Named(s))
      BY <3>2, GapNear
    <3> QED BY <2>1, <2>4, <3>1, <3>2, <3>3 DEF IInv, OpenInv
  <2>7. HighInv'
    <3>1. d.body <= top
      BY <1>1, <1>2, <2>1
    <3> QED BY <1>1, <1>2, <2>4, <3>1 DEF IInv, HighInv, HighIsNewest
  <2>8. AtMostOnce'
    BY <2>4 DEF IInv, AtMostOnce
  <2> QED BY <1>1, <1>3, <2>5, <2>6, <2>7, <2>8, StillThere DEF IInv
<1> QED BY <1>4, <1>5

\* An arrival changes the receiver only.
LEMMA PollKeeps == ASSUME NEW d \in net PROVE IInv /\ Poll(d) => IInv'
BY UnsequencedKeeps, FirstKeeps, AheadKeeps, ResynchroniseKeeps, MissingKeeps DEF Poll

\* A step in which nothing happens.
LEMMA IdlesKeep == IInv /\ UNCHANGED vars => IInv'
BY DEF vars, sender, wire, receiver, past, IInv, StreamTypeOK, LagInv, BufferInv, DataInv, IdleInv,
       AskInv, GapInv, GapAge, OpenInv, Named, HighInv, HighIsNewest, AtMostOnce, Passed

\* IInv is inductive: the receiver never mistakes one round of the sequence
\* numbers for another, whatever the network delays, repeats or loses.
THEOREM StreamAccounted == StreamSpec => []IInv
<1>1. IInv /\ [StreamNext]_vars => IInv'
  BY SendKeeps, ServeKeeps, PollKeeps, RequestKeeps, IdlesKeep DEF StreamNext
<1> QED BY InitInv, <1>1, PTL DEF StreamSpec

\* accept() never hands the caller a sequenced packet a second time.
THEOREM NeverTwice == StreamSpec => []AtMostOnce
<1>1. IInv => AtMostOnce
  BY DEF IInv
<1> QED BY StreamAccounted, <1>1, PTL

\* rx_high is the number of the newest packet taken, across every wrap.
THEOREM HighNewest == StreamSpec => []HighIsNewest
<1>1. IInv => HighIsNewest
  BY DEF IInv, HighInv
<1> QED BY StreamAccounted, <1>1, PTL

\* The variables of the two halves and of the network have their types.
THEOREM StreamTypeCorrect == StreamSpec => []StreamTypeOK
<1>1. IInv => StreamTypeOK
  BY DEF IInv
<1> QED BY StreamAccounted, <1>1, PTL

----------------------------------------------------------------------------
(* Every packet since the first is in one of three places. *)

Accounted(first, n) ==
    /\ n \in handed \cup Open \cup forgone <=> first <= n /\ n <= top
    /\ ~(n \in Open /\ n \in handed)
    /\ ~(n \in forgone /\ n \in handed)
    /\ ~(n \in forgone /\ n \in Open)

AccountInv ==
    /\ top = None => forgone = {}
    /\ top # None => \E first \in handed :
                        /\ Wrap(first) # 0
                        /\ \A n \in Nat : Wrap(n) # 0 => Accounted(first, n)

\* A gap's packet is not past the highest, and a packet open was not taken.
LEMMA OpenBehind ==
    ASSUME IInv, NEW n \in Open
    PROVE  n \in Nat /\ top \in Nat /\ n <= top /\ (Wrap(n) # 0 => n \notin handed)
BY GapNear DEF Open, IInv, OpenInv

\* A jump ahead opens what it skipped, and closes nothing.
LEMMA OpenAhead ==
    ASSUME NEW d \in net, IInv, AcceptAhead(d), UNCHANGED <<sender, wire, sinceAsk>>
    PROVE  Open' = Open \cup (top + 1 .. d.body - 1)
<1>1. /\ rx_high # None /\ d.seq # 0 /\ top' = d.body
      /\ Ahead(d.seq, rx_high) \in 1 .. MAX_MISSING
      /\ DOMAIN missing' = DOMAIN missing \cup Between(rx_high, d.seq)
  BY DEF AcceptAhead
<1>2. Ahead(d.seq, rx_high) > 0
  BY <1>1, Bounds
<1>3. /\ top \in Nat /\ d.body \in Nat /\ d.body > top /\ d.body < sent
      /\ rx_high = Wrap(top) /\ Ahead(d.seq, rx_high) = d.body - top /\ sent \in Nat
  BY <1>1, <1>2, AheadIsNew DEF IInv, StreamTypeOK
<1>4. ASSUME NEW s \in DOMAIN missing
      PROVE  Named(s)' = Named(s)
  <2>1. /\ Named(s) \in Nat /\ Named(s) <= top /\ s = Wrap(Named(s))
        /\ Named(s) >= sent - GapAge(s) /\ GapAge(s) \in Nat
        /\ GapAge(s) <= OldGap + Patience + Pace
    BY GapNear
  <2>2. top' \in Int /\ Named(s) <= top' /\ top' - Named(s) < SeqSpace
    BY <1>1, <1>3, <2>1, Bounds, SpacePositive
  <2> QED BY <2>1, <2>2, NamedLater
<1>5. ASSUME NEW n \in top + 1 .. d.body - 1
      PROVE  n \in Nat /\ Wrap(n) \in Between(rx_high, d.seq) /\ Named(Wrap(n))' = n
  <2>1. n \in Nat /\ n - top \in 1 .. Ahead(d.seq, rx_high) - 1 /\ d.body - top <= MAX_MISSING
    BY <1>1, <1>3
  <2>2. Wrap(rx_high + (n - top)) = Wrap(n)
    <3>1. Wrap(Wrap(top) + (n - top)) = Wrap(top + (n - top)) /\ top + (n - top) = n
      BY <1>3, <2>1, WrapAgain
    <3> QED BY <1>3, <3>1
  <2>3. top' \in Int /\ n <= top' /\ top' - n < SeqSpace
    BY <1>1, <1>3, <2>1, Bounds, SpacePositive
  <2>4. Named(Wrap(n))' = n
    BY <2>1, <2>3, NamedLater
  <2> QED BY <2>1, <2>2, <2>4 DEF Between
<1>6. ASSUME NEW s \in Between(rx_high, d.seq)
      PROVE  \E n \in top + 1 .. d.body - 1 : s = Wrap(n)
  <2>1. PICK i \in 1 .. Ahead(d.seq, rx_high) - 1 : s = Wrap(rx_high + i)
    BY DEF Between
  <2>2. i \in Int /\ i >= 1 /\ i <= d.body - top - 1
    BY <1>3, <2>1
  <2>3. s = Wrap(top + i)
    BY <1>3, <2>1, <2>2, WrapAgain
  <2>4. top + i \in top + 1 .. d.body - 1
    BY <1>3, <2>2
  <2> QED BY <2>3, <2>4
<1>7. Open' = {Named(s)' : s \in DOMAIN missing'}
  BY DEF Open, Named
<1> QED BY <1>1, <1>4, <1>5, <1>6, <1>7 DEF Open

\* Nothing is taken, opened or given up.
LEMMA QuietAccounts ==
    IInv /\ AccountInv /\ UNCHANGED <<top, handed, forgone, missing>> => AccountInv'
BY DEF AccountInv, Accounted, Open, Named

\* What is taken without a number is not accounted for.
LEMMA UnsequencedAccounts ==
    ASSUME NEW d \in net
    PROVE  IInv /\ AccountInv /\ Unsequenced(d) => AccountInv'
<1> SUFFICES ASSUME IInv, AccountInv, Unsequenced(d) PROVE AccountInv'
  OBVIOUS
<1>1. UNCHANGED <<top, forgone>> /\ Open' = Open
  BY DEF Unsequenced, receiver, Open, Named
<1>2. handed \subseteq handed' /\ \A n \in handed' \ handed : Wrap(n) = 0
  <2>1. d.seq = 0 /\ (d.body # Idle => d.seq = Wrap(d.body))
    BY DEF Unsequenced, IInv, DataInv
  <2> QED BY <2>1 DEF Unsequenced, Take
<1>3. ASSUME NEW first \in Nat, NEW n \in Nat, Wrap(n) # 0, Accounted(first, n)
      PROVE  Accounted(first, n)'
  BY <1>1, <1>2, <1>3 DEF Accounted
<1> QED BY <1>1, <1>2, <1>3 DEF AccountInv, IInv, StreamTypeOK

\* The account starts at the first packet.
LEMMA FirstAccounts ==
    ASSUME NEW d \in net
    PROVE  IInv /\ AccountInv /\ AcceptFirst(d) => AccountInv'
<1> SUFFICES ASSUME IInv, AccountInv, AcceptFirst(d) PROVE AccountInv'
  OBVIOUS
<1>1. /\ top = None /\ top' = d.body /\ Take(d) /\ d.seq # 0 /\ missing' = missing
      /\ forgone' = forgone /\ forgone = {}
      /\ \A n \in handed : Wrap(n) = 0
  BY DEF AcceptFirst, IInv, HighInv, AccountInv
<1>2. d.body # Idle
  BY <1>1, IdleBehind
<1>3. d.body \in Nat /\ d.seq = Wrap(d.body)
  BY <1>2 DEF IInv, StreamTypeOK, DataInv
<1>4. handed' = handed \cup {d.body}
  BY <1>1, <1>2 DEF Take
<1>5. Open' = {}
  <2>1. DOMAIN missing = {}
    <3>1. SUFFICES ASSUME NEW s \in DOMAIN missing PROVE FALSE
      OBVIOUS
    <3>2. top \in Nat
      BY GapNear
    <3> QED BY <1>1, <3>2, StreamAssumption
  <2> QED BY <1>1, <2>1 DEF Open
<1>6. ASSUME NEW n \in Nat, Wrap(n) # 0
      PROVE  Accounted(d.body, n)'
  BY <1>1, <1>3, <1>4, <1>5, <1>6 DEF Accounted
<1> QED BY <1>1, <1>3, <1>4, <1>6, StreamAssumption DEF AccountInv

\* What a jump skips is opened.
LEMMA AheadAccounts ==
    ASSUME NEW d \in net
    PROVE  IInv /\ AccountInv /\ AcceptAhead(d) /\ UNCHANGED <<sender, wire, sinceAsk>>
              => AccountInv'
<1> SUFFICES ASSUME IInv, AccountInv, AcceptAhead(d), UNCHANGED <<sender, wire, sinceAsk>>
             PROVE  AccountInv'
  OBVIOUS
<1>1. /\ rx_high # None /\ d.seq # 0 /\ top' = d.body /\ Take(d) /\ forgone' = forgone
      /\ Ahead(d.seq, rx_high) \in 1 .. MAX_MISSING
  BY DEF AcceptAhead
<1>2. Ahead(d.seq, rx_high) > 0
  BY <1>1, Bounds
<1>3. top \in Nat /\ d.body \in Nat /\ d.body > top /\ d.body \notin handed
  BY <1>1, <1>2, AheadIsNew
<1>4. handed' = handed \cup {d.body}
  BY <1>1, <1>3, TakesNew
<1>5. Open' = Open \cup (top + 1 .. d.body - 1)
  BY OpenAhead
<1>6. PICK first \in handed : /\ Wrap(first) # 0
                              /\ \A n \in Nat : Wrap(n) # 0 => Accounted(first, n)
  BY <1>3, StreamAssumption DEF AccountInv
<1>7. first \in Nat /\ first <= top
  BY <1>6 DEF IInv, StreamTypeOK, Accounted
<1>8. ASSUME NEW n \in Nat, Wrap(n) # 0
      PROVE  Accounted(first, n)'
  BY <1>1, <1>3, <1>4, <1>5, <1>6, <1>7, <1>8 DEF Accounted
<1> QED BY <1>1, <1>3, <1>4, <1>6, <1>8, StreamAssumption DEF AccountInv

\* What a resynchronisation skips, and what was open, is given up.
LEMMA ResynchroniseAccounts ==
    ASSUME NEW d \in net
    PROVE  IInv /\ AccountInv /\ Resynchronise(d) => AccountInv'
<1> SUFFICES ASSUME IInv, AccountInv, Resynchronise(d) PROVE AccountInv'
  OBVIOUS
<1>1. /\ rx_high # None /\ d.seq # 0 /\ top' = d.body /\ Take(d) /\ Open' = {}
      /\ forgone' = forgone \cup Open \cup (top + 1 .. d.body - 1)
  BY DEF Resynchronise, Open
<1>2. Ahead(d.seq, rx_high) > 0
  BY FarIsAhead
<1>3. top \in Nat /\ d.body \in Nat /\ d.body > top /\ d.body \notin handed
  BY <1>1, <1>2, AheadIsNew
<1>4. handed' = handed \cup {d.body}
  BY <1>1, <1>3, TakesNew
<1>6. PICK first \in handed : /\ Wrap(first) # 0
                              /\ \A n \in Nat : Wrap(n) # 0 => Accounted(first, n)
  BY <1>3, StreamAssumption DEF AccountInv
<1>7. first \in Nat /\ first <= top
  BY <1>6 DEF IInv, StreamTypeOK, Accounted
<1>8. ASSUME NEW n \in Nat, Wrap(n) # 0
      PROVE  Accounted(first, n)'
  BY <1>1, <1>3, <1>4, <1>6, <1>7, <1>8 DEF Accounted
<1> QED BY <1>1, <1>3, <1>4, <1>6, <1>8, StreamAssumption DEF AccountInv

\* A gap is closed by its packet, or given up for an idle.
LEMMA MissingAccounts ==
    ASSUME NEW d \in net
    PROVE  IInv /\ AccountInv /\ AcceptMissing(d) => AccountInv'
<1> SUFFICES ASSUME IInv, AccountInv, AcceptMissing(d) PROVE AccountInv'
  OBVIOUS
<1>1. /\ d.seq # 0 /\ d.seq \in DOMAIN missing /\ UNCHANGED <<rx_high, top>> /\ Take(d)
      /\ DOMAIN missing' = DOMAIN missing \ {d.seq}
      /\ forgone' = IF d.body = Idle THEN forgone \cup {Named(d.seq)} ELSE forgone
  BY DEF AcceptMissing
<1>2. /\ top \in Nat /\ Named(d.seq) \in Nat /\ Named(d.seq) \in Open
      /\ \A s \in DOMAIN missing : s = Wrap(Named(s))
  BY <1>1, GapNear DEF Open
<1>3. Open' = Open \ {Named(d.seq)}
  <2>1. Open' = {Named(s) : s \in DOMAIN missing'}
    BY <1>1 DEF Open, Named
  <2>2. ASSUME NEW n \in Open'
        PROVE  n \in Open \ {Named(d.seq)}
    <3>1. PICK s \in DOMAIN missing : s # d.seq /\ n = Named(s)
      BY <1>1, <2>1, <2>2
    <3>2. s = Wrap(n) /\ d.seq = Wrap(Named(d.seq))
      BY <1>1, <1>2, <3>1
    <3> QED BY <3>1, <3>2 DEF Open
  <2>3. ASSUME NEW n \in Open \ {Named(d.seq)}
        PROVE  n \in Open'
    <3>1. PICK s \in DOMAIN missing : n = Named(s)
      BY <2>3 DEF Open
    <3>2. s \in DOMAIN missing'
      BY <1>1, <2>3, <3>1
    <3> QED BY <2>1, <3>1, <3>2
  <2> QED BY <2>2, <2>3
<1>4. \/ handed' = handed /\ forgone' = forgone \cup {Named(d.seq)}
      \/ handed' = handed \cup {Named(d.seq)} /\ forgone' = forgone
  <2>1. CASE d.body = Idle
    BY <1>1, <2>1 DEF Take
  <2>2. CASE d.body # Idle
    BY <1>1, <2>2, FillsGap DEF Take
  <2> QED BY <2>1, <2>2
<1>5. PICK first \in handed : /\ Wrap(first) # 0
                              /\ \A n \in Nat : Wrap(n) # 0 => Accounted(first, n)
  BY <1>2, StreamAssumption DEF AccountInv
<1>6. ASSUME NEW n \in Nat, Wrap(n) # 0
      PROVE  Accounted(first, n)'
  <2>1. Accounted(first, n) /\ top' = top
    BY <1>1, <1>5, <1>6
  <2>2. CASE n = Named(d.seq)
    BY <1>2, <1>3, <1>4, <2>1, <2>2 DEF Accounted
  <2>3. CASE n # Named(d.seq)
    BY <1>3, <1>4, <2>1, <2>3 DEF Accounted
  <2> QED BY <2>2, <2>3
<1>7. first \in handed' /\ top' # None
  BY <1>1, <1>2, <1>4, StreamAssumption
<1> QED BY <1>5, <1>6, <1>7 DEF AccountInv

\* A gap asked for often enough is given up.
LEMMA RequestAccounts == IInv /\ AccountInv /\ RequestMissing => AccountInv'
<1> SUFFICES ASSUME IInv, AccountInv, RequestMissing PROVE AccountInv'
  OBVIOUS
<1>1. PICK next : /\ next \subseteq DOMAIN missing /\ DOMAIN missing' = next
                  /\ forgone' = forgone \cup {Named(s) : s \in DOMAIN missing \ next}
                  /\ UNCHANGED <<top, handed>>
  <2> DEFINE kept == {s \in DOMAIN missing : missing[s] < TRIES}
  <2> DEFINE n == IF Cardinality(DOMAIN missing) > MAX_MISSING THEN {} ELSE kept
  <2> WITNESS n
  <2> QED BY DEF RequestMissing
<1> DEFINE dropped == {Named(s) : s \in DOMAIN missing \ next}
<1>2. Open' = Open \ dropped /\ dropped \subseteq Open
  <2>1. Open' = {Named(s) : s \in next}
    BY <1>1 DEF Open, Named
  <2>2. \A s \in DOMAIN missing : s = Wrap(Named(s))
    BY GapNear
  <2> QED BY <1>1, <2>1, <2>2 DEF Open
<1>3. forgone' = forgone \cup dropped
  BY <1>1
<1> HIDE DEF dropped
<1>4. CASE top = None
  <2>1. Open = {}
    BY <1>4, OpenBehind, StreamAssumption
  <2> QED BY <1>1, <1>2, <1>3, <1>4, <2>1 DEF AccountInv
<1>5. CASE top # None
  <2>1. PICK first \in handed : /\ Wrap(first) # 0
                                /\ \A n \in Nat : Wrap(n) # 0 => Accounted(first, n)
    BY <1>5 DEF AccountInv
  <2>2. ASSUME NEW n \in Nat, Accounted(first, n)
        PROVE  Accounted(first, n)'
    BY <1>1, <1>2, <1>3, <2>2 DEF Accounted
  <2> QED BY <1>1, <1>5, <2>1, <2>2 DEF AccountInv
<1> QED BY <1>4, <1>5

\* The account holds through every step.
LEMMA AccountKeeps == IInv /\ AccountInv /\ [StreamNext]_vars => AccountInv'
<1> SUFFICES ASSUME IInv, AccountInv, [StreamNext]_vars PROVE AccountInv'
  OBVIOUS
<1>1. CASE SendTracked \/ (\E q \in asked : ServeRetransmit(q)) \/ UNCHANGED vars
  BY <1>1, QuietAccounts DEF SendTracked, ServeRetransmit, vars, receiver, past
<1>2. CASE \E d \in net : Poll(d)
  BY <1>2, UnsequencedAccounts, FirstAccounts, AheadAccounts, ResynchroniseAccounts,
     MissingAccounts DEF Poll
<1>3. CASE RequestMissing
  BY <1>3, RequestAccounts
<1> QED BY <1>1, <1>2, <1>3 DEF StreamNext

\* What the account says of the three places.
LEMMA AccountTells == IInv /\ AccountInv => NothingUnaccounted
<1>1. SUFFICES ASSUME IInv, AccountInv, top # None PROVE NothingUnaccounted
  BY DEF NothingUnaccounted
<1>2. PICK f \in handed : Wrap(f) # 0 /\ \A n \in Nat : Wrap(n) # 0 => Accounted(f, n)
  BY <1>1 DEF AccountInv
<1>3. /\ f \in Nat /\ top \in Nat
      /\ handed \subseteq Nat /\ forgone \subseteq Nat /\ Open \subseteq Nat
  BY <1>1, OpenBehind DEF IInv, StreamTypeOK
<1> DEFINE First(n) == Wrap(n) # 0 /\ \A m \in handed : Wrap(m) # 0 => n <= m
<1>4. First(f)
  BY <1>2, <1>3 DEF Accounted
<1>5. \A n \in handed : First(n) => n = f
  BY <1>2, <1>3, <1>4
<1>6. (CHOOSE n \in handed : First(n)) = f
  BY <1>2, <1>4, <1>5
<1> DEFINE Sequenced(ids) == {n \in ids : Wrap(n) # 0}
<1>7. {n \in f .. top : Wrap(n) # 0} = Sequenced(handed \cup Open \cup forgone)
  <2>1. \A n \in Nat : Wrap(n) # 0 =>
           (n \in handed \cup Open \cup forgone <=> n \in f .. top)
    BY <1>2, <1>3 DEF Accounted
  <2>2. f .. top \subseteq Nat /\ handed \cup Open \cup forgone \subseteq Nat
    BY <1>3
  <2> QED BY <2>1, <2>2
<1>8. Sequenced(Open \cap handed) = {} /\ Sequenced(forgone \cap (handed \cup Open)) = {}
  BY <1>2, <1>3 DEF Accounted
<1> QED BY <1>6, <1>7, <1>8 DEF NothingUnaccounted

\* No packet since the first is lost without the receiver knowing: it was
\* taken, is listed in missing, or was given up.
THEOREM AllAccounted == StreamSpec => []NothingUnaccounted
<1>1. StreamInit => AccountInv
  BY DEF StreamInit, AccountInv
<1> QED BY StreamAccounted, <1>1, AccountTells, AccountKeeps, PTL DEF StreamSpec

----------------------------------------------------------------------------
(* The same from the middle of the numbers. *)

\* Where a stream may be joined: the packet taken last is a sequenced one.
Joins(start) == start \in Nat \ {0} /\ Wrap(start - 1) # 0 /\ MidStream(start)

\* What is held and on the way there is recent.
LEMMA JoinInv == ASSUME NEW start, Joins(start) PROVE IInv
<1> DEFINE recent(k) == {n \in 0 .. start - 1 : n >= start - k}
<1>1. /\ start \in Nat /\ start > 0 /\ start - 1 \in Nat /\ sent = start
      /\ top = start - 1 /\ handed = {start - 1} /\ rx_high = Wrap(start - 1)
      /\ Wrap(start - 1) \in Seq
      /\ top # None /\ rx_high # None
  <2>1. Wrap(start - 1) \in Int /\ Wrap(start - 1) \in Seq
    BY WrapDivides DEF Joins, Seq
  <2> QED BY <2>1, StreamAssumption DEF Joins, MidStream
<1>2. /\ tx_buf = recent(TX_BUFFER) /\ asked = {} /\ sinceAsk = 0
      /\ DOMAIN missing = {} /\ repeated = {} /\ forgone = {}
      /\ net = {[seq |-> Wrap(n), body |-> n, until |-> n + Life] : n \in recent(Life)}
  BY DEF Joins, MidStream
<1>3. ASSUME NEW d \in net
      PROVE  /\ d \in [seq : Seq, body : Nat \cup {Idle}, until : Nat]
             /\ d.body \in Nat /\ d.body # Idle /\ d.seq = Wrap(d.body) /\ d.body < sent
             /\ d.until = d.body + Life /\ sent <= d.until
  <2>1. PICK n \in recent(Life) : d = [seq |-> Wrap(n), body |-> n, until |-> n + Life]
    BY <1>2
  <2>2. n \in Nat /\ n < start /\ n + Life >= start /\ Wrap(n) \in Seq /\ n + Life \in Nat
    BY <1>1, <2>1, Bounds, WrapDivides
  <2> QED BY <1>1, <2>1, <2>2, StreamAssumption
<1>4. StreamTypeOK
  <2>1. tx_buf \subseteq Nat /\ net \subseteq [seq : Seq, body : Nat \cup {Idle}, until : Nat]
    BY <1>1, <1>2, <1>3
  <2>2. 0 \in 0 .. Pace /\ {} \subseteq [wanted : SUBSET Seq, until : Nat]
    BY Bounds
  <2>3. \A s \in DOMAIN missing : missing[s] \in 0 .. TRIES
    BY <1>2
  <2> QED BY <1>1, <1>2, <2>1, <2>2, <2>3 DEF StreamTypeOK
<1>5. LagInv /\ BufferInv
  <2>1. sent - top = 1 /\ top < sent /\ Silence + 1 >= 1
    BY <1>1, Bounds
  <2>2. \A n \in recent(TX_BUFFER) : n < sent /\ n >= sent - TX_BUFFER
    BY <1>1
  <2> QED BY <1>2, <2>1, <2>2 DEF LagInv, BufferInv
<1>6. DataInv /\ IdleInv
  BY <1>1, <1>3, Bounds DEF DataInv, IdleInv
<1>7. AskInv /\ GapInv /\ OpenInv /\ AtMostOnce
  BY <1>2 DEF AskInv, GapInv, OpenInv, AtMostOnce
<1>8. HighInv
  BY <1>1 DEF HighInv, HighIsNewest
<1> QED BY <1>4, <1>5, <1>6, <1>7, <1>8 DEF IInv

\* The account starts at the packet taken last.
LEMMA JoinAccounts == ASSUME NEW start, Joins(start) PROVE AccountInv
<1>1. /\ start - 1 \in Nat /\ Wrap(start - 1) # 0 /\ top = start - 1 /\ handed = {start - 1}
      /\ DOMAIN missing = {} /\ forgone = {}
  BY DEF Joins, MidStream
<1>2. Open = {} /\ top # None
  BY <1>1, StreamAssumption DEF Open
<1>3. ASSUME NEW n \in Nat
      PROVE  Accounted(start - 1, n)
  BY <1>1, <1>2 DEF Accounted
<1> QED BY <1>1, <1>2, <1>3 DEF AccountInv

\* A stream joined anywhere, as the run does shortly before the wrap: no packet
\* is handed over twice, the highest number is the newest packet's, and none is
\* lost without the receiver knowing.
THEOREM JoinedAnywhere ==
    ASSUME CONSTANT start
    PROVE  Joins(start) /\ [][StreamNext]_vars
              => [](StreamTypeOK /\ AtMostOnce /\ HighIsNewest /\ NothingUnaccounted)
<1>1. Joins(start) => IInv /\ AccountInv
  BY JoinInv, JoinAccounts
<1>2. IInv /\ AccountInv /\ [StreamNext]_vars => IInv' /\ AccountInv'
  BY SendKeeps, ServeKeeps, PollKeeps, RequestKeeps, IdlesKeep, AccountKeeps DEF StreamNext
<1>3. IInv /\ AccountInv => StreamTypeOK /\ AtMostOnce /\ HighIsNewest /\ NothingUnaccounted
  BY AccountTells DEF IInv, HighInv
<1> QED BY <1>1, <1>2, <1>3, PTL

=============================================================================
