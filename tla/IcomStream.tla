---------------------------- MODULE IcomStream ----------------------------
(***************************************************************************)
(* One direction of the reliability layer of sdroxide_icomnet: the sending *)
(* half of a Stream at one end, the receiving half at the other, and a     *)
(* network between them that loses, repeats and reorders.  Sequence        *)
(* numbers are finite and wrap; packets are known here by how many were    *)
(* sent before them, so that what the code tells apart by a wrapped number *)
(* can be compared with what it really was.                                *)
(***************************************************************************)
EXTENDS Integers, FiniteSets

CONSTANTS
    SeqSpace,       \* how many sequence numbers there are (2^16)
    MAX_MISSING,    \* a jump or a backlog larger than this is not chased
    TX_BUFFER,      \* packets kept for retransmission
    TRIES,          \* requests for one packet before it is forgotten
    Life,           \* a datagram is lost or delivered before Life more are sent
    Pace,           \* packets sent between two runs of the request timer
    Silence,        \* packets sent on a link where nothing new arrives
    Sends,          \* bound: the packets a behaviour may send
    None, Idle

\* How far behind the newest packet anything on the way may be: sent again from
\* the buffer, or answering the last request for a gap.
Reach == TX_BUFFER + MAX_MISSING + (TRIES + 1) * Pace + 3 * Life + 1

ASSUME StreamAssumption ==
    /\ SeqSpace \in Nat /\ SeqSpace % 2 = 0
    /\ {MAX_MISSING, TX_BUFFER, TRIES, Life, Pace, Silence} \subseteq Nat \ {0}
    /\ Sends \subseteq Nat
    /\ None \notin Int /\ Idle \notin Int
    \* A link is given up long before half the sequence numbers are in play.
    /\ 2 * Silence < SeqSpace /\ 2 * Reach <= SeqSpace

VARIABLES
    sent,           \* packets sent; send_seq is this, wrapped
    tx_buf,         \* those still held
    net,            \* datagrams that may yet arrive
    asked,          \* retransmission requests that may yet arrive
    rx_high, missing,
    sinceAsk,       \* packets sent since the request timer ran
    top,            \* the packet rx_high stands for
    handed,         \* packets taken in
    repeated,       \* packets handed to the caller more than once
    forgone         \* packets the receiver stopped waiting for

sender == <<sent, tx_buf>>
wire == <<net, asked>>
receiver == <<rx_high, missing>>
past == <<top, handed, repeated, forgone>>
vars == <<sender, wire, receiver, sinceAsk, past>>

Seq == 0 .. SeqSpace - 1

\* Slip: a counter wider than the field it is stamped into.
Unwrapped(n) == n

Wrap(n) == n % SeqSpace

\* Slip: an unsigned distance.
AheadUnsigned(seq, high) == Wrap(seq - high)

\* Signed distance, so that a wrap reads as +1.
Ahead(seq, high) ==
    LET d == Wrap(seq - high) IN IF d < SeqSpace \div 2 THEN d ELSE d - SeqSpace

Datagram(seq, body) == [seq |-> seq, body |-> body, until |-> sent + Life]

StreamInit ==
    /\ sent = 0 /\ tx_buf = {}
    /\ net = {} /\ asked = {}
    /\ rx_high = None /\ missing = [s \in {} |-> 0]
    /\ sinceAsk = 0
    /\ top = None /\ handed = {} /\ repeated = {} /\ forgone = {}

\* A stream in the middle of its numbers, all before them over: the last packets
\* are still held, and may be on the way once more.
MidStream(start) ==
    LET recent(k) == {n \in 0 .. start - 1 : n >= start - k}
    IN  /\ sent = start /\ tx_buf = recent(TX_BUFFER)
        /\ net = {[seq |-> Wrap(n), body |-> n, until |-> n + Life] : n \in recent(Life)}
        /\ asked = {}
        /\ rx_high = Wrap(start - 1) /\ missing = [s \in {} |-> 0]
        /\ sinceAsk = 0
        /\ top = start - 1 /\ handed = {start - 1} /\ repeated = {} /\ forgone = {}

----------------------------------------------------------------------------
(* The sending half. *)

SendTracked ==
    /\ sent \in Sends /\ sinceAsk < Pace
    /\ top # None => sent - top <= Silence
    /\ sent' = sent + 1 /\ sinceAsk' = sinceAsk + 1
    /\ tx_buf' = {n \in tx_buf : n > sent - TX_BUFFER} \cup {sent}
    /\ net' = {d \in net : d.until > sent}
              \cup {[seq |-> Wrap(sent), body |-> sent, until |-> sent + Life]}
    /\ asked' = {q \in asked : q.until > sent}
    /\ UNCHANGED <<receiver, past>>

\* What is no longer held is answered with an idle that bears its number.
Answer(seq) ==
    LET held == {n \in tx_buf : Wrap(n) = seq}
    IN  Datagram(seq, IF held = {} THEN Idle ELSE CHOOSE n \in held : TRUE)

ServeRetransmit(q) ==
    /\ net' = net \cup {Answer(s) : s \in q.wanted}
    /\ UNCHANGED <<sender, asked, receiver, sinceAsk, past>>

----------------------------------------------------------------------------
(* The receiving half. *)

\* The packet of this sequence number nearest below the highest.
Named(seq) == top - Wrap(top - seq)

Open == {Named(s) : s \in DOMAIN missing}

\* Slip: a range that does not go round the wrap.
BetweenPlain(high, seq) == high + 1 .. seq - 1

Between(high, seq) == {Wrap(high + i) : i \in 1 .. Ahead(seq, high) - 1}

Take(d) ==
    IF d.body = Idle THEN UNCHANGED <<handed, repeated>>
    ELSE /\ handed' = handed \cup {d.body}
         /\ repeated' = repeated \cup ({d.body} \cap handed)

\* A zero sequence is the protocol's "unsequenced" marker.
Unsequenced(d) ==
    /\ d.seq = 0
    /\ Take(d)
    /\ UNCHANGED <<receiver, top, forgone>>

AcceptFirst(d) ==
    /\ d.seq # 0 /\ rx_high = None
    /\ rx_high' = d.seq /\ top' = d.body
    /\ Take(d)
    /\ UNCHANGED <<missing, forgone>>

AcceptAhead(d) ==
    /\ d.seq # 0 /\ rx_high # None
    /\ Ahead(d.seq, rx_high) \in 1 .. MAX_MISSING
    /\ missing' = [s \in DOMAIN missing \cup Between(rx_high, d.seq) |->
                      IF s \in DOMAIN missing THEN missing[s] ELSE 0]
    /\ rx_high' = d.seq /\ top' = d.body
    /\ Take(d)
    /\ UNCHANGED forgone

\* Not a gap: start again rather than chase it.
Resynchronise(d) ==
    /\ d.seq # 0 /\ rx_high # None
    /\ Ahead(d.seq, rx_high) > MAX_MISSING
    /\ missing' = [s \in {} |-> 0]
    /\ rx_high' = d.seq /\ top' = d.body
    /\ Take(d)
    /\ forgone' = forgone \cup Open \cup (top + 1 .. d.body - 1)

\* Slip: the gap is looked up and not closed.
AcceptStillMissing(d) ==
    /\ d.seq # 0 /\ rx_high # None
    /\ Ahead(d.seq, rx_high) <= 0
    /\ d.seq \in DOMAIN missing
    /\ Take(d)
    /\ UNCHANGED <<missing, forgone, rx_high, top>>

\* At or behind the highest: only if it was missing.  Otherwise a duplicate,
\* and nothing happens.
AcceptMissing(d) ==
    /\ d.seq # 0 /\ rx_high # None
    /\ Ahead(d.seq, rx_high) <= 0
    /\ d.seq \in DOMAIN missing
    /\ missing' = [s \in DOMAIN missing \ {d.seq} |-> missing[s]]
    /\ Take(d)
    /\ forgone' = IF d.body = Idle THEN forgone \cup {Named(d.seq)} ELSE forgone
    /\ UNCHANGED <<rx_high, top>>

Poll(d) ==
    /\ \/ Unsequenced(d) \/ AcceptFirst(d) \/ AcceptAhead(d)
       \/ Resynchronise(d) \/ AcceptMissing(d)
    /\ UNCHANGED <<sender, wire, sinceAsk>>

\* Slip: the requests are not counted.
RequestUncounted ==
    /\ sinceAsk' = 0
    /\ asked' = IF DOMAIN missing = {} THEN asked
                ELSE asked \cup {[wanted |-> DOMAIN missing, until |-> sent + Life]}
    /\ UNCHANGED <<sender, net, receiver, past>>

RequestMissing ==
    LET kept == {s \in DOMAIN missing : missing[s] < TRIES}
        next == IF Cardinality(DOMAIN missing) > MAX_MISSING THEN {} ELSE kept
    IN  /\ sinceAsk' = 0
        /\ missing' = [s \in next |-> missing[s] + 1]
        /\ forgone' = forgone \cup {Named(s) : s \in DOMAIN missing \ next}
        /\ asked' = IF next = {} THEN asked
                    ELSE asked \cup {[wanted |-> next, until |-> sent + Life]}
        /\ UNCHANGED <<sender, net, rx_high, top, handed, repeated>>

StreamNext ==
    \/ SendTracked
    \/ \E q \in asked : ServeRetransmit(q)
    \/ \E d \in net : Poll(d)
    \/ RequestMissing

StreamSpec == StreamInit /\ [][StreamNext]_vars

\* The request timer of tick() runs every 100 ms.
StreamFair == StreamSpec /\ WF_vars(RequestMissing)

----------------------------------------------------------------------------
StreamTypeOK ==
    /\ sent \in Nat /\ tx_buf \subseteq Nat
    /\ net \subseteq [seq : Seq, body : Nat \cup {Idle}, until : Nat]
    /\ asked \subseteq [wanted : SUBSET Seq, until : Nat]
    /\ rx_high \in Seq \cup {None} /\ top \in Nat \cup {None}
    /\ DOMAIN missing \subseteq Seq /\ \A s \in DOMAIN missing : missing[s] \in 0 .. TRIES
    /\ sinceAsk \in 0 .. Pace
    /\ handed \subseteq Nat /\ repeated \subseteq Nat /\ forgone \subseteq Nat

\* accept() "returns false for a duplicate": whatever the network repeats,
\* delays or answers twice, no sequenced packet is handed over a second time.
AtMostOnce == \A n \in repeated : Wrap(n) = 0

\* The receiver's idea of how far the peer has got is right across every wrap:
\* the highest number it holds is that of the newest packet it took.
HighIsNewest ==
    top # None => /\ rx_high = Wrap(top)
                  /\ \A n \in handed : n <= top \/ Wrap(n) = 0

\* No packet since the first is lost without the receiver knowing: it was
\* taken, it is listed missing, or it was given up - never two of these.
NothingUnaccounted ==
    top # None =>
        LET first == CHOOSE n \in handed : Wrap(n) # 0 /\ \A m \in handed : Wrap(m) # 0 => n <= m
            due == {n \in first .. top : Wrap(n) # 0}
            Sequenced(ids) == {n \in ids : Wrap(n) # 0}
        IN  /\ due = Sequenced(handed \cup Open \cup forgone)
            /\ Sequenced(Open \cap handed) = {}
            /\ Sequenced(forgone \cap (handed \cup Open)) = {}

\* A gap, whichever packet it waits for, is closed or given up in the end; it is
\* not asked for for ever.
GapsClose == \A s \in {Wrap(n) : n \in Sends} : (s \in DOMAIN missing) ~> (s \notin DOMAIN missing)
=============================================================================
