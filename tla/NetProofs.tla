----------------------------- MODULE NetProofs -----------------------------
(***************************************************************************)
(* What a sender takes for done has arrived whole: for any stations, any   *)
(* file and any faults on the air.  A status that reports nothing missing  *)
(* is only ever sent by a receiver that has every block and has just       *)
(* written the file, or failed to, so whatever becomes of that status on   *)
(* the way, being taken for another round's answer included, it does not   *)
(* mislead.  And for a file addressed to one station the resends do not    *)
(* multiply: every answer and every resume replaces what it stems from.    *)
(***************************************************************************)
EXTENDS AtNet, NumberProofs, FiniteSetTheorems

\* While the BULK_META has not gone out, nobody knows of the file.
MetaInv == main.pc = "meta" => known = {}

\* What the receivers hold, and what they have waiting to transmit: a status
\* with nothing missing stems from a whole file, written or failed to be.
ReceiverInv ==
    /\ to \subseteq Receiver
    /\ known \subseteq to /\ complete \subseteq known
    /\ saved \cup unsaved \subseteq complete /\ saved \cap unsaved = {}
    /\ \A r \in saved \cup unsaved : received[r] = Block
    /\ received \in [Receiver -> SUBSET Block]
    /\ statuses = [r \in Receiver |-> statuses[r]]
    /\ \A r \in Receiver :
          /\ IsABag(statuses[r]) /\ DOMAIN statuses[r] \subseteq SUBSET Block
          /\ {} \in DOMAIN statuses[r] => saved \cup unsaved # {}

\* Where the sender stands; and the answer it takes for the end stems from a
\* whole file too.
Place == [pc : {"idle", "meta", "send", "wait", "again", "ended"},
          todo : SUBSET Block, round : 0 .. ROUNDS]
SenderInv ==
    /\ main \in Place
    /\ main.pc \in {"wait", "again"} => main.round < ROUNDS
    /\ waiter \in {NoWaiter, Waiting, TimedOut, AnsweredLate}
                  \cup {Answered(m) : m \in SUBSET Block}
    /\ IsABag(resumes) /\ DOMAIN resumes \subseteq SUBSET Block
    /\ waiter.state = "answered" /\ waiter.missing = {} => saved \cup unsaved # {}
    /\ done \in BOOLEAN /\ (done => saved \cup unsaved # {})

TransferInv == MetaInv /\ ReceiverInv /\ SenderInv

RestTypeOK ==
    /\ onRadio \in BOOLEAN /\ joining \subseteq running
    /\ faults \in [{"miss", "drop", "quit", "join"} -> Nat]

NetInv == ElectionTypeOK /\ TransferInv /\ RestTypeOK

----------------------------------------------------------------------------
(* Bags.                                                                   *)

\* A bag of one, a bag joined with another, one element more or one less.
LEMMA Single == \A x : IsABag(SetToBag({x})) /\ DOMAIN SetToBag({x}) = {x}
BY DEF SetToBag, IsABag

LEMMA Empty == IsABag(EmptyBag) /\ DOMAIN EmptyBag = {}
BY DEF SetToBag, IsABag, EmptyBag

LEMMA Joined ==
    ASSUME NEW A, NEW B, IsABag(A), IsABag(B)
    PROVE  IsABag(A (+) B) /\ DOMAIN (A (+) B) = DOMAIN A \cup DOMAIN B
<1>1. DOMAIN (A (+) B) = DOMAIN A \cup DOMAIN B
  BY DEF (+)
<1>2. ASSUME NEW e \in DOMAIN A \cup DOMAIN B
      PROVE  (A (+) B)[e] \in {n \in Nat : n > 0}
  BY DEF (+), IsABag
<1>3. IsABag(A (+) B)
  BY <1>1, <1>2 DEF (+), IsABag
<1> QED BY <1>1, <1>3

LEMMA Added ==
    ASSUME NEW B, NEW x, IsABag(B)
    PROVE  /\ IsABag(B (+) SetToBag({x})) /\ DOMAIN (B (+) SetToBag({x})) = DOMAIN B \cup {x}
           /\ \A e \in DOMAIN B \cup {x} : (B (+) SetToBag({x}))[e] =
                 (IF e \in DOMAIN B THEN B[e] ELSE 0) + (IF e = x THEN 1 ELSE 0)
<1>1. IsABag(SetToBag({x})) /\ DOMAIN SetToBag({x}) = {x} /\ SetToBag({x})[x] = 1
  BY DEF SetToBag, IsABag
<1>2. IsABag(B (+) SetToBag({x})) /\ DOMAIN (B (+) SetToBag({x})) = DOMAIN B \cup {x}
  BY <1>1, Joined
<1>3. ASSUME NEW e \in DOMAIN B \cup {x}
      PROVE  (B (+) SetToBag({x}))[e] =
                 (IF e \in DOMAIN B THEN B[e] ELSE 0) + (IF e = x THEN 1 ELSE 0)
  BY <1>1 DEF (+)
<1> QED BY <1>2, <1>3

LEMMA Removed ==
    ASSUME NEW B, NEW x, IsABag(B)
    PROVE  /\ IsABag(B (-) SetToBag({x})) /\ DOMAIN (B (-) SetToBag({x})) \subseteq DOMAIN B
           /\ \A e \in DOMAIN B :
                 LET left == B[e] - (IF e = x THEN 1 ELSE 0)
                 IN  /\ e \in DOMAIN (B (-) SetToBag({x})) <=> left > 0
                     /\ left > 0 => (B (-) SetToBag({x}))[e] = left
<1> DEFINE Rest == [e \in DOMAIN B |-> IF e \in DOMAIN SetToBag({x}) THEN B[e] - SetToBag({x})[e]
                                       ELSE B[e]]
<1>1. DOMAIN SetToBag({x}) = {x} /\ SetToBag({x})[x] = 1
  BY DEF SetToBag
<1>2. \A e \in DOMAIN B : Rest[e] = B[e] - (IF e = x THEN 1 ELSE 0)
  BY <1>1 DEF IsABag
<1>3. \A e \in DOMAIN B : B[e] \in Nat /\ Rest[e] \in Int
  BY <1>2 DEF IsABag
<1>4. B (-) SetToBag({x}) = [e \in {d \in DOMAIN B : Rest[d] > 0} |-> Rest[e]]
  BY DEF (-)
<1> DEFINE Less == B (-) SetToBag({x})
<1>5. Less = [e \in {d \in DOMAIN B : Rest[d] > 0} |-> Rest[e]]
  BY <1>4
<1> HIDE DEF Rest, Less
<1>6. DOMAIN Less = {d \in DOMAIN B : Rest[d] > 0}
  BY <1>5
<1>7. \A e \in DOMAIN Less : Less[e] = Rest[e] /\ Rest[e] > 0 /\ Rest[e] \in Nat
  BY <1>3, <1>5, <1>6
<1>8. Less = [e \in DOMAIN Less |-> Less[e]]
  BY <1>5
<1>9. IsABag(Less)
  BY <1>7, <1>8 DEF IsABag
<1>10. \A e \in DOMAIN B : LET left == B[e] - (IF e = x THEN 1 ELSE 0)
                           IN  /\ e \in DOMAIN Less <=> left > 0
                               /\ left > 0 => Less[e] = left
  BY <1>2, <1>6, <1>7
<1> QED BY <1>6, <1>9, <1>10 DEF Less

----------------------------------------------------------------------------
(* The election.                                                           *)

\* What the constants are.
LEMMA Times ==
    /\ TIMEOUT \in Nat /\ REMOVE \in Nat /\ LOST \in Nat /\ Gone \in Nat
    /\ Station \subseteq Nat /\ Sender \in Station /\ Receiver \subseteq Station
BY ElectionAssumption, NetAssumption DEF Gone

\* A backup is a station, or nobody.
LEMMA Picked == ASSUME NEW s \in Station PROVE PickBackup(s) \in Call
<1>1. Active(s) \in SUBSET Nat /\ Active(s) \subseteq Station
  BY Times DEF Active
<1>2. CASE Active(s) = {}
  BY <1>2 DEF PickBackup, Call
<1>3. CASE Active(s) # {}
  BY <1>1, <1>3, Least DEF PickBackup, Call
<1> QED BY <1>2, <1>3

\* The smaller of two.
LEMMA Clipped == \A i, n \in Nat : Min({i, n}) \in 0 .. n
<1> SUFFICES ASSUME NEW i \in Nat, NEW n \in Nat PROVE Min({i, n}) \in 0 .. n
  OBVIOUS
<1>1. {i, n} \in SUBSET Nat /\ {i, n} # {}
  OBVIOUS
<1>2. Min({i, n}) \in {i, n} /\ Min({i, n}) <= n
  BY <1>1, Least
<1> QED BY <1>2

\* A beacon that is queued is one.
LEMMA Queued ==
    ASSUME ElectionTypeOK, NEW s \in Station, QueueBeacon(s)
    PROVE  backup' \in [Station -> Call] /\ beacons' \in [Station -> SUBSET Beacon]
<1>1. [src |-> s, backup |-> PickBackup(s), listed |-> {s} \cup Listed(s)] \in Beacon
  BY Picked DEF Beacon, Listed
<1> QED BY <1>1, Picked DEF ElectionTypeOK, QueueBeacon

\* A roster that hears someone stays a roster.
LEMMA TouchedType ==
    ASSUME ElectionTypeOK, NEW r \in Station, NEW src \in Station
    PROVE  Touched(r, src) \in [Station -> 0 .. Gone]
BY Times DEF ElectionTypeOK, Touched

LEMMA HeardOther ==
    ASSUME ElectionTypeOK, NEW src \in Station, NEW heard, HearOther(src, heard)
    PROVE  ElectionTypeOK'
<1>1. roster' \in [Station -> [Station -> 0 .. Gone]]
  BY TouchedType DEF HearOther, TouchRoster, ElectionTypeOK
<1> QED BY <1>1 DEF HearOther, ElectionTypeOK

LEMMA HeardBeacon ==
    ASSUME ElectionTypeOK, NEW s \in Station, NEW f \in Beacon, NEW heard, HearBeacon(f, heard),
           BeaconOut(s, f), UNCHANGED <<running, connected, due, resolved>>
    PROVE  ElectionTypeOK'
<1>1. f.src \in Station /\ f.src \in Call /\ f.backup \in Call
  BY DEF Beacon, Call
<1>2. roster' \in [Station -> [Station -> 0 .. Gone]]
  <2> DEFINE Heard(r, c) == IF r \in {q \in heard : ~Ignores(f, q)} /\ c \in f.listed \ {r} THEN 0
                            ELSE IF r \in heard THEN Touched(r, f.src)[c] ELSE roster[r][c]
  <2>1. \A r, c \in Station : Touched(r, f.src)[c] \in 0 .. Gone
    BY <1>1, TouchedType
  <2>2. \A r, c \in Station : roster[r][c] \in 0 .. Gone /\ 0 \in 0 .. Gone
    BY Times DEF ElectionTypeOK
  <2>3. \A r, c \in Station : Heard(r, c) \in 0 .. Gone
    BY <2>1, <2>2
  <2>4. roster' = [r \in Station |-> [c \in Station |-> Heard(r, c)]]
    BY DEF HearBeacon
  <2> QED BY <2>3, <2>4
<1>3. age' \in [Station -> 0 .. TIMEOUT]
  BY Times DEF HearBeacon, ElectionTypeOK
<1>4. role' \in [Station -> Role]
  BY DEF HearBeacon, ElectionTypeOK, RoleAfter, Role
<1>5. master' \in [Station -> Call] /\ backup' \in [Station -> Call]
  BY <1>1 DEF HearBeacon, ElectionTypeOK
<1>6. beacons' \in [Station -> SUBSET Beacon]
  BY DEF BeaconOut, ElectionTypeOK
<1> QED BY <1>2, <1>3, <1>4, <1>5, <1>6 DEF ElectionTypeOK

\* The tasks of a station, its start and its end.
LEMMA TimersRun ==
    ASSUME ElectionTypeOK, NEW s \in Station, BeaconLoop(s) \/ WatchdogDecides(s) \/ TakeOver(s)
    PROVE  ElectionTypeOK' /\ running' = running
<1>1. CASE BeaconLoop(s)
  <2>1. backup' \in [Station -> Call] /\ beacons' \in [Station -> SUBSET Beacon]
    BY <1>1, Queued DEF BeaconLoop, ElectionTypeOK
  <2> QED BY <1>1, <2>1 DEF BeaconLoop, ElectionTypeOK
<1>2. CASE WatchdogDecides(s)
  BY <1>2 DEF WatchdogDecides, ElectionTypeOK
<1>3. CASE TakeOver(s)
  <2>1. backup' \in [Station -> Call] /\ beacons' \in [Station -> SUBSET Beacon]
    BY <1>3, Queued DEF TakeOver
  <2>2. role' \in [Station -> Role] /\ age' \in [Station -> 0 .. TIMEOUT]
    BY <1>3, Times DEF TakeOver, ElectionTypeOK, Role
  <2> QED BY <1>3, <2>1, <2>2 DEF TakeOver, ElectionTypeOK
<1> QED BY <1>1, <1>2, <1>3

LEMMA Ticked == ElectionTypeOK /\ Tick => ElectionTypeOK' /\ running' = running
<1> SUFFICES ASSUME ElectionTypeOK, Tick PROVE ElectionTypeOK' /\ running' = running
  OBVIOUS
<1>1. \A s \in Station : Min({age[s] + 1, TIMEOUT}) \in 0 .. TIMEOUT
  BY Clipped, Times DEF ElectionTypeOK
<1>2. \A s, c \in Station : Min({roster[s][c] + 1, Gone}) \in 0 .. Gone
  BY Clipped, Times DEF ElectionTypeOK
<1> QED BY <1>1, <1>2 DEF Tick, ElectionTypeOK

LEMMA ComesAndGoes ==
    ASSUME ElectionTypeOK, NEW s \in Station,
           StartStation(s) \/ Reconnect(s) \/ DropLink(s) \/ Quit(s)
    PROVE  ElectionTypeOK'
<1>1. CASE StartStation(s)
  BY <1>1, Times DEF StartStation, ElectionTypeOK
<1>2. CASE Reconnect(s)
  BY <1>2, Times DEF Reconnect, ElectionTypeOK, Role
<1>3. CASE DropLink(s)
  BY <1>3 DEF DropLink, ElectionTypeOK
<1>4. CASE Quit(s)
  <2>1. Strangers \in [Station -> 0 .. Gone] /\ Nobody \in Call /\ "Listener" \in Role
    BY Times DEF Strangers, Call, Role
  <2>2. role' \in [Station -> Role] /\ age' \in [Station -> 0 .. TIMEOUT]
    BY <1>4, <2>1, Times DEF Quit, ElectionTypeOK
  <2>3. master' \in [Station -> Call] /\ backup' \in [Station -> Call]
    BY <1>4, <2>1 DEF Quit, ElectionTypeOK
  <2>4. roster' \in [Station -> [Station -> 0 .. Gone]]
    BY <1>4, <2>1 DEF Quit, ElectionTypeOK
  <2>5. beacons' \in [Station -> SUBSET Beacon]
    BY <1>4 DEF Quit, ElectionTypeOK
  <2> QED BY <1>4, <2>2, <2>3, <2>4, <2>5 DEF Quit, ElectionTypeOK
<1> QED BY <1>1, <1>2, <1>3, <1>4

----------------------------------------------------------------------------
(* The transfer.                                                           *)

\* What is asked for is never nothing, so an answer with nothing missing is the
\* answer to a BULK_END.
LEMMA Answers ==
    ASSUME ReceiverInv, NEW back, NEW joined, NEW ending, Answering(back, joined, ending)
    PROVE  /\ statuses' = [r \in Receiver |-> statuses'[r]]
           /\ \A r \in Receiver :
                 /\ IsABag(statuses'[r]) /\ DOMAIN statuses'[r] \subseteq SUBSET Block
                 /\ {} \in DOMAIN statuses'[r]
                      => {} \in DOMAIN statuses[r] \/ (r \in ending /\ EndAnswer(r) = {})
<1> DEFINE Asked(rs, r) == IF r \in Asking(rs) THEN SetToBag({Missing(r)}) ELSE EmptyBag
           Told(r) == IF r \in ending THEN SetToBag({EndAnswer(r)}) ELSE EmptyBag
<1>1. statuses' = [r \in Receiver |->
            statuses[r] (+) Asked(back, r) (+) Asked(joined, r) (+) Told(r)]
  BY DEF Answering
<1>2. ASSUME NEW r \in Receiver
      PROVE  /\ Missing(r) \in SUBSET Block
             /\ \A rs : IsABag(Asked(rs, r)) /\ DOMAIN Asked(rs, r) \subseteq (SUBSET Block) \ {{}}
             /\ IsABag(Told(r)) /\ DOMAIN Told(r) \subseteq SUBSET Block
             /\ {} \in DOMAIN Told(r) => r \in ending /\ EndAnswer(r) = {}
  <2>1. Missing(r) \in SUBSET Block /\ EndAnswer(r) = Missing(r)
    BY DEF Missing, EndAnswer
  <2>2. ASSUME NEW rs
        PROVE  IsABag(Asked(rs, r)) /\ DOMAIN Asked(rs, r) \subseteq (SUBSET Block) \ {{}}
    <3>1. CASE r \in Asking(rs)
      <4>1. Missing(r) # {}
        BY <3>1 DEF Asking
      <4>2. Asked(rs, r) = SetToBag({Missing(r)})
        BY <3>1
      <4> QED BY <2>1, <4>1, <4>2, Single
    <3>2. CASE r \notin Asking(rs)
      BY <3>2, Empty
    <3> QED BY <3>1, <3>2
  <2>3. /\ IsABag(Told(r)) /\ DOMAIN Told(r) \subseteq SUBSET Block
        /\ {} \in DOMAIN Told(r) => r \in ending /\ EndAnswer(r) = {}
    <3>1. CASE r \in ending
      <4>1. Told(r) = SetToBag({EndAnswer(r)})
        BY <3>1
      <4>2. IsABag(SetToBag({EndAnswer(r)})) /\ DOMAIN SetToBag({EndAnswer(r)}) = {EndAnswer(r)}
        BY Single
      <4> HIDE DEF Told
      <4> QED BY <2>1, <3>1, <4>1, <4>2
    <3>2. CASE r \notin ending
      BY <3>2, Empty
    <3> QED BY <3>1, <3>2
  <2> QED BY <2>1, <2>2, <2>3
<1> HIDE DEF Asked, Told
<1>3. ASSUME NEW r \in Receiver
      PROVE  /\ IsABag(statuses'[r])
             /\ DOMAIN statuses'[r] = DOMAIN statuses[r] \cup DOMAIN Asked(back, r)
                                        \cup DOMAIN Asked(joined, r) \cup DOMAIN Told(r)
  <2> DEFINE A == statuses[r] (+) Asked(back, r)
             B == A (+) Asked(joined, r)
  <2>1. IsABag(A) /\ DOMAIN A = DOMAIN statuses[r] \cup DOMAIN Asked(back, r)
    BY <1>2, Joined DEF ReceiverInv
  <2> HIDE DEF A
  <2>2. IsABag(B) /\ DOMAIN B = DOMAIN A \cup DOMAIN Asked(joined, r)
    BY <2>1, <1>2, Joined
  <2> HIDE DEF B
  <2>3. IsABag(B (+) Told(r)) /\ DOMAIN (B (+) Told(r)) = DOMAIN B \cup DOMAIN Told(r)
    BY <2>2, <1>2, Joined
  <2>4. statuses'[r] = B (+) Told(r)
    BY <1>1 DEF A, B
  <2> QED BY <2>1, <2>2, <2>3, <2>4
<1>4. statuses' = [r \in Receiver |-> statuses'[r]]
  BY <1>1
<1> QED BY <1>2, <1>3, <1>4 DEF ReceiverInv

\* A receiver's handler of each frame.
LEMMA MetaHeard ==
    ASSUME ReceiverInv, known = {}, NEW heard, NEW back, OnMeta(heard \cap to, back), to' = to
    PROVE  ReceiverInv' /\ UNCHANGED <<saved, unsaved>>
<1>1. /\ saved = {} /\ unsaved = {} /\ complete = {} /\ UNCHANGED <<saved, unsaved>>
      /\ complete' = {} /\ known' \subseteq to
  BY DEF ReceiverInv, OnMeta
<1>2. received' \in [Receiver -> SUBSET Block]
  BY DEF ReceiverInv, OnMeta
<1>3. Answering(back, {}, {})
  BY DEF OnMeta
<1> QED BY <1>1, <1>2, <1>3, Answers DEF ReceiverInv

LEMMA BlockHeard ==
    ASSUME ReceiverInv, NEW b \in Block, NEW heard, NEW back, OnBlock(b, heard \cap to, back),
           to' = to
    PROVE  ReceiverInv' /\ UNCHANGED <<saved, unsaved, known>>
<1>1. received' \in [Receiver -> SUBSET Block]
  BY DEF ReceiverInv, OnBlock
<1>2. Answering(back, {}, {}) /\ UNCHANGED <<known, complete, saved, unsaved>>
  BY DEF OnBlock
<1>3. \A r \in saved \cup unsaved : received'[r] = Block
  BY DEF ReceiverInv, OnBlock
<1> QED BY <1>1, <1>2, <1>3, Answers DEF ReceiverInv

LEMMA EndHeard ==
    ASSUME ReceiverInv, NEW heard, NEW back, OnEnd(heard \cap to, back), to' = to
    PROVE  /\ ReceiverInv' /\ known' = known
           /\ saved \cup unsaved \subseteq saved' \cup unsaved'
<1> DEFINE ending == {r \in heard \cap to : Partial(r)}
           whole == {r \in ending : EndAnswer(r) = {}}
<1>1. /\ complete' = complete \cup whole
      /\ Answering(back, {}, ending) /\ UNCHANGED <<known, received>>
  BY DEF OnEnd
<1>2. ending \subseteq known \ complete /\ ending \subseteq Receiver
  BY DEF Partial, ReceiverInv
<1>3. \A r \in whole : received[r] = Block
  BY <1>2 DEF EndAnswer, Missing, ReceiverInv
<1>4. PICK written \in SUBSET whole :
          saved' = saved \cup written /\ unsaved' = unsaved \cup (whole \ written)
  <2>1. {r \in whole : received[r] = Block} = whole
    BY <1>3
  <2> QED BY <2>1 DEF OnEnd
<1>5. whole \subseteq ending
  OBVIOUS
<1> HIDE DEF ending, whole
<1>6. saved' \cup unsaved' = saved \cup unsaved \cup whole /\ saved' \cap unsaved' = {}
  BY <1>2, <1>4, <1>5 DEF ReceiverInv
<1>7. \A r \in Receiver : {} \in DOMAIN statuses'[r] => saved' \cup unsaved' # {}
  BY <1>1, <1>6, Answers DEF ReceiverInv, whole
<1>8. /\ \A r \in saved' \cup unsaved' : received'[r] = Block
      /\ saved' \cup unsaved' \subseteq complete' /\ complete' \subseteq known'
  BY <1>1, <1>2, <1>3, <1>5, <1>6 DEF ReceiverInv
<1> QED BY <1>1, <1>6, <1>7, <1>8, Answers DEF ReceiverInv

LEMMA OnlyAnswering ==
    ASSUME TransferInv, NEW back, NEW joined, JustAnswering(back, joined)
    PROVE  TransferInv'
<1>1. Answering(back, joined, {}) /\ UNCHANGED <<to, main, waiter, resumes, done, known, received,
                                                complete, saved, unsaved>>
  BY DEF JustAnswering, heldVars
<1>2. ReceiverInv'
  BY <1>1, Answers DEF TransferInv, ReceiverInv
<1> QED BY <1>1, <1>2 DEF TransferInv, SenderInv, MetaInv

\* send_bulk, a step of it at a time.
LEMMA SendsMeta ==
    ASSUME TransferInv, NEW heard, NEW back, SendMeta(heard, back)
    PROVE  TransferInv'
<1>1. known = {} /\ OnMeta(heard \cap to, back) /\ UNCHANGED <<to, waiter, resumes, done>>
  BY DEF SendMeta, TransferInv, MetaInv
<1>2. main' = At("send", Block, 0) /\ main' \in Place
  BY TransferAssumption DEF SendMeta, At, Place
<1>3. ReceiverInv' /\ UNCHANGED <<saved, unsaved>>
  BY <1>1, MetaHeard DEF TransferInv
<1> QED BY <1>1, <1>2, <1>3 DEF TransferInv, MetaInv, SenderInv, At

LEMMA FirstBlock == \A todo \in SUBSET Block : todo # {} => Min(todo) \in todo
BY Least, TransferAssumption

LEMMA SendsBlock ==
    ASSUME TransferInv, NEW heard, NEW back, SendBlock(heard, back)
    PROVE  TransferInv'
<1>1. main \in Place /\ main.pc = "send" /\ main.todo \in SUBSET Block /\ main.todo # {}
  BY DEF SendBlock, TransferInv, SenderInv, Place
<1>2. Min(main.todo) \in Block
  BY <1>1, FirstBlock
<1>3. OnBlock(Min(main.todo), heard \cap to, back) /\ UNCHANGED <<to, waiter, resumes, done>>
  BY DEF SendBlock
<1>4. ReceiverInv' /\ UNCHANGED <<saved, unsaved>>
  BY <1>2, <1>3, BlockHeard DEF TransferInv
<1>5. main' \in Place /\ main'.pc = "send"
  BY <1>1 DEF SendBlock, Place
<1> QED BY <1>3, <1>4, <1>5 DEF TransferInv, MetaInv, SenderInv

\* A round that is over, a status that is waited for.
LEMMA Awaits ==
    ASSUME main \in Place, main.pc = "send", AwaitStatus
    PROVE  /\ main' \in Place /\ main'.pc # "meta"
           /\ main'.pc \in {"wait", "again"} => main'.round < ROUNDS
           /\ waiter' \in {waiter, Waiting}
BY TransferAssumption DEF AwaitStatus, Place, Ended, At

LEMMA SendsEnd ==
    ASSUME TransferInv, NEW heard, NEW back, SendEnd(heard, back)
    PROVE  TransferInv'
<1>1. main \in Place /\ main.pc = "send" /\ AwaitStatus
  BY DEF SendEnd, TransferInv, SenderInv
<1>2. OnEnd(heard \cap to, back) /\ UNCHANGED <<to, resumes, done>>
  BY DEF SendEnd
<1>3. ReceiverInv' /\ saved \cup unsaved \subseteq saved' \cup unsaved'
  BY <1>2, EndHeard DEF TransferInv
<1>4. Waiting.state # "answered"
  BY DEF Waiting
<1> QED BY <1>1, <1>2, <1>3, <1>4, Awaits DEF TransferInv, MetaInv, SenderInv

LEMMA Fails ==
    ASSUME TransferInv, MainFails
    PROVE  TransferInv'
<1>1. main \in Place /\ main.pc \in {"meta", "send"}
  BY DEF MainFails, TransferInv, SenderInv
<1>2. /\ main' \in Place /\ main'.pc # "meta"
      /\ main'.pc \in {"wait", "again"} => main'.round < ROUNDS
      /\ waiter' \in {waiter, Waiting}
  <2>1. CASE main.pc = "send" /\ main.todo = {} /\ main.round > 0
    BY <1>1, <2>1, Awaits DEF MainFails
  <2>2. CASE ~(main.pc = "send" /\ main.todo = {} /\ main.round > 0)
    BY <2>2, TransferAssumption DEF MainFails, Place, Ended, At
  <2> QED BY <2>1, <2>2
<1>3. UNCHANGED <<to, resumes, done, known, received, complete, saved, unsaved, statuses>>
  BY DEF MainFails, heldVars
<1>4. Waiting.state # "answered"
  BY DEF Waiting
<1> QED BY <1>2, <1>3, <1>4 DEF TransferInv, MetaInv, SenderInv, ReceiverInv

\* The wait: it times out, it begins again, or its answer is read.
LEMMA Waits ==
    ASSUME TransferInv, NEW up \in BOOLEAN,
           WaitTimesOut \/ Unanswered(up) \/ WaitAgain \/ TakeAnswer(up)
    PROVE  TransferInv'
<1>1. UNCHANGED <<to, resumes, known, received, complete, saved, unsaved, statuses>>
  BY DEF WaitTimesOut, Unanswered, WaitAgain, TakeAnswer, heldVars
<1>2. ReceiverInv'
  BY <1>1 DEF TransferInv, ReceiverInv
<1>3. main \in Place /\ main.pc \in {"wait", "again"} /\ main.round < ROUNDS
  BY DEF TransferInv, SenderInv, WaitTimesOut, Unanswered, WaitAgain, TakeAnswer
<1>4. /\ waiter' \in {NoWaiter, Waiting, TimedOut}
      /\ NoWaiter.state # "answered" /\ Waiting.state # "answered" /\ TimedOut.state # "answered"
  BY DEF WaitTimesOut, Unanswered, WaitAgain, TakeAnswer, NoWaiter, Waiting, TimedOut
<1>5. /\ main' \in Place /\ main'.pc # "meta"
      /\ main'.pc \in {"wait", "again"} => main'.round < ROUNDS
  <2>1. CASE WaitTimesOut
    BY <2>1, <1>3 DEF WaitTimesOut
  <2>2. CASE Unanswered(up)
    BY <2>2, <1>3, TransferAssumption DEF Unanswered, NextRound, At, Ended, Place
  <2>3. CASE WaitAgain
    BY <2>3, <1>3 DEF WaitAgain, Place
  <2>4. CASE TakeAnswer(up)
    <3>1. waiter.missing \in SUBSET Block
      BY DEF TransferInv, SenderInv, Answered, NoWaiter, Waiting, TimedOut, AnsweredLate
    <3> QED BY <2>4, <3>1, <1>3, TransferAssumption DEF TakeAnswer, At, Ended, Place
  <2> QED BY <2>1, <2>2, <2>3, <2>4
<1>6. done' \in BOOLEAN /\ (done' => saved' \cup unsaved' # {})
  <2>1. CASE TakeAnswer(up)
    <3>1. done \in BOOLEAN /\ (done => saved \cup unsaved # {})
      BY DEF TransferInv, SenderInv
    <3>2. waiter.state = "answered" /\ waiter.missing = {} => saved \cup unsaved # {}
      BY DEF TransferInv, SenderInv
    <3>3. waiter.state = "answered" /\ done' = (done \/ (up /\ waiter.missing = {}))
      BY <2>1 DEF TakeAnswer
    <3> QED BY <1>1, <3>1, <3>2, <3>3
  <2>2. CASE done' = done
    BY <1>1, <2>2 DEF TransferInv, SenderInv
  <2> QED BY <2>1, <2>2 DEF WaitTimesOut, Unanswered, WaitAgain
<1> QED BY <1>1, <1>2, <1>4, <1>5, <1>6 DEF TransferInv, MetaInv, SenderInv

\* A status on its way back: it leaves the receiver, and is heard or is not.
LEMMA StatusMoves ==
    ASSUME TransferInv, NEW r \in Receiver, NEW m \in SUBSET Block, StatusGone(r, m),
           StatusHeard(m) \/ StatusLost
    PROVE  TransferInv'
<1>1. UNCHANGED <<to, main, done, known, received, complete, saved, unsaved>>
  BY DEF StatusGone, StatusHeard, StatusLost, heldVars
<1>2. m \in DOMAIN statuses[r] /\ statuses' = [statuses EXCEPT ![r] = @ (-) SetToBag({m})]
  BY DEF StatusGone, BagIn, BagToSet
<1>3. ReceiverInv'
  <2>1. /\ statuses'[r] = statuses[r] (-) SetToBag({m})
        /\ \A q \in Receiver \ {r} : statuses'[q] = statuses[q]
        /\ statuses' = [q \in Receiver |-> statuses'[q]]
    BY <1>2 DEF TransferInv, ReceiverInv
  <2>2. IsABag(statuses'[r]) /\ DOMAIN statuses'[r] \subseteq DOMAIN statuses[r]
    <3>1. IsABag(statuses[r])
      BY DEF TransferInv, ReceiverInv
    <3>2. /\ IsABag(statuses[r] (-) SetToBag({m}))
          /\ DOMAIN (statuses[r] (-) SetToBag({m})) \subseteq DOMAIN statuses[r]
      BY <3>1, Removed
    <3> QED BY <2>1, <3>2
  <2> QED BY <1>1, <2>1, <2>2 DEF TransferInv, ReceiverInv
<1>4. m = {} => saved \cup unsaved # {}
  BY <1>2 DEF TransferInv, ReceiverInv
<1>5. /\ waiter' \in {waiter, Answered(m), AnsweredLate}
      /\ AnsweredLate.state # "answered"
      /\ Answered(m).missing = m
  BY DEF StatusHeard, StatusLost, Answered, AnsweredLate
<1>6. IsABag(resumes') /\ DOMAIN resumes' \subseteq SUBSET Block
  <2>1. /\ resumes' \in {resumes, resumes (+) SetToBag({m})}
        /\ IsABag(resumes) /\ DOMAIN resumes \subseteq SUBSET Block
    BY DEF StatusHeard, StatusLost, TransferInv, SenderInv
  <2>2. /\ IsABag(resumes (+) SetToBag({m}))
        /\ DOMAIN (resumes (+) SetToBag({m})) = DOMAIN resumes \cup {m}
    BY <2>1, Added
  <2> QED BY <2>1, <2>2
<1> QED BY <1>1, <1>3, <1>4, <1>5, <1>6 DEF TransferInv, MetaInv, SenderInv

\* The resumes that a late status starts.
LEMMA ResumesBlock ==
    ASSUME TransferInv, NEW todo \in SUBSET Block, NEW heard, NEW back,
           ResumeBlock(todo, heard, back)
    PROVE  TransferInv'
<1>1. Min(todo) \in Block
  BY FirstBlock DEF ResumeBlock
<1>2. OnBlock(Min(todo), heard \cap to, back) /\ UNCHANGED <<to, main, waiter, done>>
  BY DEF ResumeBlock
<1>3. ReceiverInv' /\ UNCHANGED <<saved, unsaved, known>>
  BY <1>1, <1>2, BlockHeard DEF TransferInv
<1>4. IsABag(resumes') /\ DOMAIN resumes' \subseteq SUBSET Block
  <2> DEFINE rest == resumes (-) SetToBag({todo})
             left == todo \ {Min(todo)}
  <2>1. IsABag(rest) /\ DOMAIN rest \subseteq SUBSET Block
    BY Removed DEF TransferInv, SenderInv
  <2>2. resumes' = rest (+) SetToBag({left}) /\ left \in SUBSET Block
    BY DEF ResumeBlock
  <2> HIDE DEF rest, left
  <2>3. /\ IsABag(rest (+) SetToBag({left}))
        /\ DOMAIN (rest (+) SetToBag({left})) = DOMAIN rest \cup {left}
    BY <2>1, Added
  <2> QED BY <2>1, <2>2, <2>3
<1> QED BY <1>2, <1>3, <1>4 DEF TransferInv, MetaInv, SenderInv

LEMMA ResumesEnd ==
    ASSUME TransferInv, NEW heard, NEW back, ResumeEnd(heard, back)
    PROVE  TransferInv'
<1>1. OnEnd(heard \cap to, back) /\ UNCHANGED <<to, main, waiter, done>>
  BY DEF ResumeEnd
<1>2. ReceiverInv' /\ known' = known /\ saved \cup unsaved \subseteq saved' \cup unsaved'
  BY <1>1, EndHeard DEF TransferInv
<1>3. IsABag(resumes') /\ DOMAIN resumes' \subseteq SUBSET Block
  BY Removed DEF ResumeEnd, TransferInv, SenderInv
<1> QED BY <1>1, <1>2, <1>3 DEF TransferInv, MetaInv, SenderInv

LEMMA ResumeStops ==
    ASSUME TransferInv, NEW todo \in SUBSET Block, ResumeFails(todo)
    PROVE  TransferInv'
<1>1. IsABag(resumes') /\ DOMAIN resumes' \subseteq SUBSET Block
  BY Removed DEF ResumeFails, TransferInv, SenderInv
<1> QED BY <1>1 DEF ResumeFails, TransferInv, MetaInv, SenderInv, ReceiverInv, heldVars

----------------------------------------------------------------------------
(* The net.                                                                *)

\* A fault takes from its budget only what is there.
LEMMA WithinBudget ==
    ASSUME RestTypeOK,
           \/ \E s \in Station : NotSent(s) \/ \E heard \in SUBSET Station : OnAir(s, heard)
           \/ \E kind \in {"miss", "drop", "quit", "join"} : Budgeted(kind)
           \/ UNCHANGED faults
    PROVE  faults' \in [{"miss", "drop", "quit", "join"} -> Nat]
BY DEF RestTypeOK, NotSent, OnAir, Budgeted

LEMMA ElectionAside == ElectionTypeOK /\ UNCHANGED netVars => ElectionTypeOK'
BY DEF ElectionTypeOK, netVars

LEMMA TransferAside == TransferInv /\ UNCHANGED transferVars => TransferInv'
BY DEF TransferInv, ReceiverInv, SenderInv, MetaInv, transferVars, heldVars

LEMMA BeaconsGo ==
    ASSUME NetInv, NEW s \in Station, SendsBeacon(s)
    PROVE  NetInv'
<1>1. PICK f \in beacons[s] :
          BeaconNotSent(s, f) \/ \E heard \in SUBSET Station : BeaconSent(s, f, heard)
  BY DEF SendsBeacon
<1>2. f \in Beacon
  BY DEF NetInv, ElectionTypeOK
<1>3. CASE BeaconNotSent(s, f)
  <2>1. NotSent(s) /\ BeaconOut(s, f)
        /\ UNCHANGED <<running, connected, role, master, backup, age, roster, due, resolved,
                       transferVars, onRadio, joining>>
    BY <1>3 DEF BeaconNotSent
  <2>2. ElectionTypeOK'
    BY <2>1 DEF BeaconOut, NetInv, ElectionTypeOK
  <2>3. RestTypeOK'
    BY <2>1, WithinBudget DEF NetInv, RestTypeOK
  <2> QED BY <2>1, <2>2, <2>3, TransferAside DEF NetInv
<1>4. CASE \E heard \in SUBSET Station : BeaconSent(s, f, heard)
  <2>1. PICK heard \in SUBSET Station : BeaconSent(s, f, heard)
    BY <1>4
  <2>2. /\ OnAir(s, heard) /\ BeaconOut(s, f) /\ HearBeacon(f, heard)
        /\ JustAnswering(Back(s, heard), {})
        /\ UNCHANGED <<running, connected, due, resolved, onRadio, joining>>
    BY <2>1 DEF BeaconSent
  <2>3. ElectionTypeOK'
    BY <1>2, <2>2, HeardBeacon DEF NetInv
  <2>4. TransferInv'
    BY <2>2, OnlyAnswering DEF NetInv
  <2>5. RestTypeOK'
    BY <2>2, WithinBudget DEF NetInv, RestTypeOK
  <2> QED BY <2>3, <2>4, <2>5 DEF NetInv
<1> QED BY <1>1, <1>3, <1>4

LEMMA JoinsGo ==
    ASSUME NetInv, NEW s \in Station, Joins(s)
    PROVE  NetInv'
<1>1. joining' \subseteq joining /\ UNCHANGED <<running, onRadio>>
  BY DEF Joins, JoinNotSent, JoinSent, HearOther, netVars
<1>2. ElectionTypeOK' /\ TransferInv'
  <2>1. CASE JoinNotSent(s)
    BY <2>1, ElectionAside, OnlyAnswering DEF JoinNotSent, NetInv
  <2>2. ASSUME NEW heard \in SUBSET Station, JoinSent(s, heard)
        PROVE  ElectionTypeOK' /\ TransferInv'
    BY <2>2, HeardOther, OnlyAnswering DEF JoinSent, NetInv
  <2> QED BY <2>1, <2>2 DEF Joins
<1>3. RestTypeOK'
  BY <1>1, WithinBudget DEF NetInv, RestTypeOK, Joins, JoinNotSent, JoinSent
<1> QED BY <1>2, <1>3 DEF NetInv

LEMMA StatusesGo ==
    ASSUME NetInv, NEW r \in Receiver, SendsStatus(r)
    PROVE  NetInv'
<1>1. PICK m \in SUBSET Block :
          StatusNotSent(r, m) \/ \E heard \in SUBSET Station : StatusSent(r, m, heard)
  BY DEF SendsStatus
<1>2. r \in Station
  BY Times
<1>3. CASE StatusNotSent(r, m)
  BY <1>2, <1>3, ElectionAside, StatusMoves, WithinBudget
     DEF StatusNotSent, NetInv, RestTypeOK, netVars
<1>4. ASSUME NEW heard \in SUBSET Station, StatusSent(r, m, heard)
      PROVE  NetInv'
  <2>1. /\ OnAir(r, heard) /\ HearOther(r, heard) /\ StatusGone(r, m)
        /\ StatusHeard(m) \/ StatusLost
        /\ UNCHANGED <<onRadio, joining>>
    BY <1>4 DEF StatusSent
  <2>2. ElectionTypeOK' /\ running' = running
    BY <1>2, <2>1, HeardOther DEF NetInv, HearOther
  <2>3. TransferInv'
    BY <2>1, StatusMoves DEF NetInv
  <2>4. RestTypeOK'
    BY <1>2, <2>1, <2>2, WithinBudget DEF NetInv, RestTypeOK
  <2> QED BY <2>2, <2>3, <2>4 DEF NetInv
<1> QED BY <1>1, <1>3, <1>4

LEMMA FileGoes ==
    ASSUME NetInv, SendsFile \/ Resumes \/ SenderWaits
    PROVE  NetInv'
<1>1. ASSUME NEW heard \in SUBSET Station, SenderSends(heard) \/ ResumeSends(heard)
      PROVE  NetInv'
  <2>1. OnAir(Sender, heard) /\ HearOther(Sender, heard) /\ UNCHANGED <<onRadio, joining>>
    BY <1>1 DEF SenderSends, ResumeSends
  <2>2. ElectionTypeOK' /\ RestTypeOK'
    BY <2>1, HeardOther, WithinBudget, Times DEF NetInv, HearOther, RestTypeOK
  <2>3. TransferInv'
    BY <1>1, SendsMeta, SendsBlock, SendsEnd, ResumesBlock, ResumesEnd
       DEF SenderSends, ResumeSends, NetInv
  <2> QED BY <2>2, <2>3 DEF NetInv
<1>2. CASE SenderCannot
  <2>1. NotSent(Sender) /\ UNCHANGED <<netVars, onRadio, joining>>
    BY <1>2 DEF SenderCannot
  <2>2. ElectionTypeOK' /\ RestTypeOK'
    BY <2>1, ElectionAside, WithinBudget, Times DEF NetInv, netVars, RestTypeOK
  <2>3. TransferInv'
    BY <1>2, Fails, ResumeStops DEF SenderCannot, NetInv
  <2> QED BY <2>2, <2>3 DEF NetInv
<1>3. CASE SenderWaits
  <2>1. UNCHANGED <<netVars, onRadio, joining, faults>>
    BY <1>3 DEF SenderWaits
  <2>2. ElectionTypeOK' /\ RestTypeOK'
    BY <2>1, ElectionAside DEF NetInv, netVars, RestTypeOK
  <2>3. TransferInv'
    <3>1. PICK up \in BOOLEAN :
              WaitTimesOut \/ Unanswered(up) \/ WaitAgain \/ TakeAnswer(up)
      <4> DEFINE up == Sender \in connected
      <4>1. WaitTimesOut \/ Unanswered(up) \/ WaitAgain \/ TakeAnswer(up)
        BY <1>3 DEF SenderWaits
      <4>2. up \in BOOLEAN
        OBVIOUS
      <4> QED BY <4>1, <4>2
    <3> QED BY <3>1, Waits DEF NetInv
  <2> QED BY <2>2, <2>3 DEF NetInv
<1> QED BY <1>1, <1>2, <1>3 DEF SendsFile, Resumes

\* What passes the transfer by: timers, links that drop, stations that come
\* and go.
LEMMA TheRest ==
    ASSUME NetInv,
           TimePasses \/ \E s \in Station : Timers(s) \/ Arrives(s) \/ Drops(s) \/ Quits(s)
    PROVE  NetInv'
<1>1. UNCHANGED transferVars /\ TransferInv'
  BY TransferAside DEF NetInv, TimePasses, Timers, Arrives, Drops, Quits
<1>2. CASE TimePasses
  BY <1>1, <1>2, Ticked DEF TimePasses, NetInv, RestTypeOK
<1>3. ASSUME NEW s \in Station, Timers(s) PROVE NetInv'
  BY <1>1, <1>3, TimersRun DEF Timers, NetInv, RestTypeOK
<1>4. ASSUME NEW s \in Station, Arrives(s) \/ Drops(s) \/ Quits(s) PROVE NetInv'
  <2>1. ElectionTypeOK'
    BY <1>4, ComesAndGoes DEF NetInv, Arrives, Drops, Quits
  <2>2. faults' \in [{"miss", "drop", "quit", "join"} -> Nat]
    BY <1>4, WithinBudget DEF NetInv, Arrives, Drops, Quits
  <2>3. joining' \subseteq running' /\ onRadio' = onRadio
    BY <1>4 DEF NetInv, RestTypeOK, ElectionTypeOK, Arrives, Drops, Quits, StartStation,
                Reconnect, DropLink, Quit
  <2> QED BY <1>1, <2>1, <2>2, <2>3 DEF NetInv, RestTypeOK
<1> QED BY <1>2, <1>3, <1>4

LEMMA Starts == NetInit => NetInv
<1> SUFFICES ASSUME NetInit PROVE NetInv
  OBVIOUS
<1>1. PICK started \in SUBSET Station, addressed \in SUBSET Receiver :
          /\ ElectionInit(started) /\ joining = started /\ TransferInit(addressed)
          /\ onRadio \in BOOLEAN /\ faults \in [{"miss", "drop", "quit", "join"} -> Nat]
  BY DEF NetInit
<1>2. ElectionTypeOK
  <2>1. Strangers \in [Station -> 0 .. Gone] /\ Nobody \in Call
    BY Times DEF Strangers, Call
  <2> QED BY <1>1, <2>1, Times DEF ElectionInit, ElectionTypeOK, Role
<1>3. RestTypeOK
  BY <1>1 DEF ElectionInit, RestTypeOK
<1>4. ReceiverInv
  BY <1>1, Empty DEF TransferInit, ReceiverInv
<1>5. SenderInv
  <2>1. NoWaiter.state # "answered"
    BY DEF NoWaiter
  <2>2. main \in Place /\ main.pc \in {"idle", "meta"}
    BY <1>1, TransferAssumption DEF TransferInit, Place, At, Idle
  <2>3. waiter = NoWaiter /\ resumes = EmptyBag /\ done = FALSE
    BY <1>1 DEF TransferInit
  <2> QED BY <2>1, <2>2, <2>3, Empty DEF SenderInv
<1>6. MetaInv
  BY <1>1 DEF TransferInit, MetaInv
<1> QED BY <1>2, <1>3, <1>4, <1>5, <1>6 DEF NetInv, TransferInv

LEMMA NetStep == NetInv /\ [NetNext]_vars => NetInv'
<1>1. NetInv /\ UNCHANGED vars => NetInv'
  BY ElectionAside, TransferAside DEF vars, NetInv, RestTypeOK, netVars
<1> QED BY <1>1, BeaconsGo, JoinsGo, StatusesGo, FileGoes, TheRest DEF NetNext

\* The inductive invariant of the net, from stations just started on.
THEOREM NetAccounted == NetSpec => []NetInv
BY Starts, NetStep, PTL DEF NetSpec

\* send_bulk marks a transfer done only when some receiver has every block of
\* the file, and has written it or failed to (on_bulk_end writes before it
\* answers, and answers whatever came of the write).
THEOREM DoneMeansSaved == NetSpec => []DoneIsSaved
<1>1. NetInv => DoneIsSaved
  BY DEF NetInv, TransferInv, ReceiverInv, SenderInv, DoneIsSaved
<1> QED BY NetAccounted, <1>1, PTL

----------------------------------------------------------------------------
(* The resends.  What is under way towards a BULK_END, or back from one,   *)
(* is counted copy by copy; only a receiver that asks adds to it.          *)

Count(B) == Cardinality(Copies(B))
Finite(B) == IsABag(B) /\ IsFiniteSet(Copies(B))

\* A status that is waited for is waited for by send_bulk: it sends nothing
\* else meanwhile.
WaitInv == waiter # NoWaiter => main.pc = "wait"

\* Only those the file is addressed to have anything to say.
Unasked == \A r \in Receiver \ to : DOMAIN statuses[r] = {}

CountInv ==
    /\ WaitInv /\ Unasked
    /\ Finite(resumes) /\ \A r \in Receiver : Finite(statuses[r])
    /\ asks \in Nat
    /\ ResendsDoNotMultiply

\* A copy is an element and which one of its copies it is.
LEMMA CopyOf ==
    ASSUME NEW B, NEW e, NEW i
    PROVE  <<e, i>> \in Copies(B) <=> e \in DOMAIN B /\ i \in 1 .. B[e]
BY DEF Copies

LEMMA OnlyCopies ==
    ASSUME NEW B, NEW c \in Copies(B)
    PROVE  \E e \in DOMAIN B : \E i \in 1 .. B[e] : c = <<e, i>>
BY DEF Copies

LEMMA NoCopies == Finite(EmptyBag) /\ Count(EmptyBag) = 0
<1>1. Copies(EmptyBag) = {}
  BY Empty DEF Copies
<1> QED BY <1>1, Empty, FS_EmptySet DEF Finite, Count

LEMMA Counted == ASSUME NEW B, Finite(B) PROVE Count(B) \in Nat
BY FS_CardinalityType DEF Finite, Count

LEMMA OneMore ==
    ASSUME NEW B, NEW x, Finite(B)
    PROVE  Finite(B (+) SetToBag({x})) /\ Count(B (+) SetToBag({x})) = Count(B) + 1
<1> DEFINE More == B (+) SetToBag({x})
           n == IF x \in DOMAIN B THEN B[x] ELSE 0
           new == <<x, n + 1>>
<1>1. /\ IsABag(More) /\ DOMAIN More = DOMAIN B \cup {x}
      /\ \A e \in DOMAIN B \cup {x} :
            More[e] = (IF e \in DOMAIN B THEN B[e] ELSE 0) + (IF e = x THEN 1 ELSE 0)
  BY Added DEF Finite
<1> HIDE DEF More
<1>2. n \in Nat /\ (x \in DOMAIN B => B[x] = n) /\ \A e \in DOMAIN B : B[e] \in Nat \ {0}
  BY DEF Finite, IsABag
<1> HIDE DEF n
<1>3. ASSUME NEW e, NEW i
      PROVE  <<e, i>> \in Copies(More) <=> <<e, i>> \in Copies(B) \/ <<e, i>> = new
  <2>1. <<e, i>> \in Copies(More) <=> e \in DOMAIN More /\ i \in 1 .. More[e]
    BY CopyOf
  <2>2. <<e, i>> \in Copies(B) <=> e \in DOMAIN B /\ i \in 1 .. B[e]
    BY CopyOf
  <2>3. CASE e # x
    <3>1. e \in DOMAIN B => More[e] = B[e]
      BY <1>1, <1>2, <2>3
    <3> QED BY <1>1, <2>1, <2>2, <2>3, <3>1
  <2>4. CASE e = x
    <3>1. More[x] = n + 1 /\ x \in DOMAIN More
      <4>1. x \in DOMAIN More /\ More[x] = (IF x \in DOMAIN B THEN B[x] ELSE 0) + 1
        BY <1>1
      <4> QED BY <4>1 DEF n
    <3>2. i \in 1 .. n + 1 <=> i \in 1 .. n \/ i = n + 1
      BY <1>2
    <3>3. x \notin DOMAIN B => n = 0
      BY DEF n
    <3> QED BY <1>2, <2>1, <2>2, <2>4, <3>1, <3>2, <3>3
  <2> QED BY <2>3, <2>4
<1>4. Copies(More) = Copies(B) \cup {new}
  <2>1. ASSUME NEW c PROVE c \in Copies(More) => c \in Copies(B) \cup {new}
    BY <1>3, OnlyCopies
  <2>2. ASSUME NEW c PROVE c \in Copies(B) \cup {new} => c \in Copies(More)
    <3>1. c \in Copies(B) => \E e, i : c = <<e, i>>
      BY OnlyCopies
    <3> QED BY <1>3, <3>1
  <2> QED BY <2>1, <2>2
<1>5. new \notin Copies(B)
  <2>1. new \in Copies(B) <=> x \in DOMAIN B /\ n + 1 \in 1 .. B[x]
    BY CopyOf
  <2> QED BY <1>2, <2>1
<1> HIDE DEF new
<1>6. IsFiniteSet(Copies(More)) /\ Cardinality(Copies(More)) = Cardinality(Copies(B)) + 1
  BY <1>4, <1>5, FS_AddElement DEF Finite
<1> QED BY <1>1, <1>6 DEF Finite, Count, More

LEMMA OneLess ==
    ASSUME NEW B, NEW x \in DOMAIN B, Finite(B)
    PROVE  Finite(B (-) SetToBag({x})) /\ Count(B (-) SetToBag({x})) = Count(B) - 1
<1> DEFINE Less == B (-) SetToBag({x})
           last == <<x, B[x]>>
<1>1. /\ IsABag(Less) /\ DOMAIN Less \subseteq DOMAIN B
      /\ \A e \in DOMAIN B : LET left == B[e] - (IF e = x THEN 1 ELSE 0)
                             IN  /\ e \in DOMAIN Less <=> left > 0
                                 /\ left > 0 => Less[e] = left
  BY Removed DEF Finite
<1> HIDE DEF Less
<1>2. \A e \in DOMAIN B : B[e] \in Nat \ {0}
  BY DEF Finite, IsABag
<1>3. ASSUME NEW e, NEW i
      PROVE  <<e, i>> \in Copies(Less) <=> <<e, i>> \in Copies(B) /\ <<e, i>> # last
  <2>1. <<e, i>> \in Copies(Less) <=> e \in DOMAIN Less /\ i \in 1 .. Less[e]
    BY CopyOf
  <2>2. <<e, i>> \in Copies(B) <=> e \in DOMAIN B /\ i \in 1 .. B[e]
    BY CopyOf
  <2>3. CASE e # x
    <3>1. e \in DOMAIN B => e \in DOMAIN Less /\ Less[e] = B[e]
      BY <1>1, <1>2, <2>3
    <3> QED BY <1>1, <2>1, <2>2, <2>3, <3>1
  <2>4. CASE e = x
    <3>1. PICK n \in Nat \ {0} : B[x] = n
      BY <1>2
    <3>2. x \in DOMAIN Less <=> n - 1 > 0
      BY <1>1, <3>1
    <3>3. n - 1 > 0 => Less[x] = n - 1
      BY <1>1, <3>1
    <3>4. i \in 1 .. n /\ i # n <=> n - 1 > 0 /\ i \in 1 .. n - 1
      BY <3>1
    <3> QED BY <2>1, <2>2, <2>4, <3>1, <3>2, <3>3, <3>4
  <2> QED BY <2>3, <2>4
<1>4. Copies(Less) = Copies(B) \ {last}
  <2>1. ASSUME NEW c PROVE c \in Copies(Less) => c \in Copies(B) \ {last}
    BY <1>3, OnlyCopies
  <2>2. ASSUME NEW c PROVE c \in Copies(B) \ {last} => c \in Copies(Less)
    <3>1. c \in Copies(B) => \E e, i : c = <<e, i>>
      BY OnlyCopies
    <3> QED BY <1>3, <3>1
  <2> QED BY <2>1, <2>2
<1>5. last \in Copies(B)
  <2>1. B[x] \in 1 .. B[x]
    BY <1>2
  <2> QED BY <2>1, CopyOf
<1> HIDE DEF last
<1>6. IsFiniteSet(Copies(Less)) /\ Cardinality(Copies(Less)) = Cardinality(Copies(B)) - 1
  BY <1>4, <1>5, FS_RemoveElement DEF Finite
<1> QED BY <1>1, <1>6 DEF Finite, Count, Less

\* One copy more if something is said, none if not.
LEMMA MaybeMore ==
    ASSUME NEW B, NEW said \in BOOLEAN, NEW x, Finite(B)
    PROVE  LET more == B (+) (IF said THEN SetToBag({x}) ELSE EmptyBag)
           IN  Finite(more) /\ Count(more) = Count(B) + (IF said THEN 1 ELSE 0)
<1>1. CASE said
  BY <1>1, OneMore
<1>2. CASE ~said
  <2>1. B (+) EmptyBag = B
    BY Empty DEF (+), Finite, IsABag
  <2> QED BY <1>2, <2>1, Counted
<1> QED BY <1>1, <1>2

\* How many ask, of those the file is addressed to.
LEMMA Askers ==
    ASSUME ReceiverInv, NEW rs \in SUBSET to
    PROVE  /\ Cardinality(Asking(rs)) \in Nat
           /\ \A r : to = {r} => Cardinality(Asking(rs)) = (IF r \in Asking(rs) THEN 1 ELSE 0)
<1>1. Asking(rs) \subseteq to /\ to \subseteq Station
  BY Times DEF Asking, ReceiverInv
<1>2. IsFiniteSet(Asking(rs))
  BY <1>1, ElectionAssumption, FS_Subset
<1>3. ASSUME NEW r, to = {r}
      PROVE  Cardinality(Asking(rs)) = (IF r \in Asking(rs) THEN 1 ELSE 0)
  <2>1. Asking(rs) = {r} \/ (Asking(rs) = {} /\ r \notin Asking(rs))
    BY <1>1, <1>3
  <2> QED BY <2>1, FS_EmptySet, FS_Singleton
<1> QED BY <1>2, <1>3, FS_CardinalityType

\* What a receiver gets to transmit it asked for, but for one answer to a
\* BULK_END.
LEMMA AnswersCounted ==
    ASSUME ReceiverInv, CountInv, UNCHANGED to, NEW back \in SUBSET to, NEW joined \in SUBSET to,
           NEW ending \in SUBSET to, Answering(back, joined, ending)
    PROVE  /\ asks' \in Nat /\ Unasked' /\ \A r \in Receiver : Finite(statuses'[r])
           /\ \A r \in Receiver : to = {r} =>
                 Count(statuses'[r]) - Count(statuses[r]) =
                     (asks' - asks) + (IF r \in ending THEN 1 ELSE 0)
<1> DEFINE Said(rs, r) == IF r \in Asking(rs) THEN SetToBag({Missing(r)}) ELSE EmptyBag
           Told(r) == IF r \in ending THEN SetToBag({EndAnswer(r)}) ELSE EmptyBag
<1>1. PICK n \in Nat, k \in Nat :
          n = Cardinality(Asking(back)) /\ k = Cardinality(Asking(joined))
  BY Askers
<1>2. asks \in Nat /\ asks' = asks + n + k
  BY <1>1 DEF Answering, CountInv
<1>3. ASSUME NEW r \in Receiver
      PROVE  /\ Finite(statuses'[r])
             /\ Count(statuses'[r]) = Count(statuses[r]) + (IF r \in Asking(back) THEN 1 ELSE 0)
                    + (IF r \in Asking(joined) THEN 1 ELSE 0) + (IF r \in ending THEN 1 ELSE 0)
  <2> DEFINE A == statuses[r] (+) Said(back, r)
             B == A (+) Said(joined, r)
             C == B (+) Told(r)
  <2>0. Finite(statuses[r])
    BY DEF CountInv
  <2>1. Finite(A) /\ Count(A) = Count(statuses[r]) + (IF r \in Asking(back) THEN 1 ELSE 0)
    BY <2>0, MaybeMore
  <2> HIDE DEF A
  <2>2. Finite(B) /\ Count(B) = Count(A) + (IF r \in Asking(joined) THEN 1 ELSE 0)
    BY <2>1, MaybeMore
  <2> HIDE DEF B
  <2>3. Finite(C) /\ Count(C) = Count(B) + (IF r \in ending THEN 1 ELSE 0)
    BY <2>2, MaybeMore
  <2>4. statuses'[r] = C
    BY DEF Answering, A, B
  <2> HIDE DEF C
  <2> QED BY <2>1, <2>2, <2>3, <2>4
<1>4. ASSUME NEW r \in Receiver, to = {r}
      PROVE  Count(statuses'[r]) - Count(statuses[r]) =
                 (asks' - asks) + (IF r \in ending THEN 1 ELSE 0)
  <2>1. n = (IF r \in Asking(back) THEN 1 ELSE 0) /\ k = (IF r \in Asking(joined) THEN 1 ELSE 0)
    BY <1>1, <1>4, Askers
  <2>2. PICK before \in Nat : Count(statuses[r]) = before
    BY Counted DEF CountInv
  <2>3. PICK after \in Nat : Count(statuses'[r]) = after
    BY <1>3, Counted
  <2> QED BY <1>2, <1>3, <2>1, <2>2, <2>3
<1>5. Unasked'
  <2> SUFFICES ASSUME NEW r \in Receiver \ to PROVE DOMAIN statuses'[r] = {}
    BY DEF Unasked
  <2>1. Said(back, r) = EmptyBag /\ Said(joined, r) = EmptyBag /\ Told(r) = EmptyBag
    BY DEF Asking
  <2>2. statuses'[r] = statuses[r] (+) EmptyBag (+) EmptyBag (+) EmptyBag
    BY <2>1 DEF Answering
  <2>3. IsABag(statuses[r]) /\ DOMAIN statuses[r] = {}
    BY DEF CountInv, Unasked, Finite
  <2>4. statuses[r] (+) EmptyBag = statuses[r]
    BY <2>3, Empty DEF (+), IsABag
  <2> QED BY <2>2, <2>3, <2>4
<1> QED BY <1>2, <1>3, <1>4, <1>5

\* What the sender itself has under way.
Own == IF Sending THEN 1 ELSE 0

\* The sender has no more under way than before, but for a BULK_END that is
\* answered instead.
LEMMA Balanced ==
    ASSUME ReceiverInv, CountInv, UNCHANGED to, WaitInv', Finite(resumes'),
           NEW back \in SUBSET to, NEW joined \in SUBSET to, NEW ending \in SUBSET to,
           Answering(back, joined, ending),
           Own' + Count(resumes') + (IF ending = {} THEN 0 ELSE 1) <= Own + Count(resumes)
    PROVE  CountInv'
<1>1. asks' \in Nat /\ Unasked' /\ \A r \in Receiver : Finite(statuses'[r])
  BY AnswersCounted
<1>2. ASSUME NEW r \in Receiver, to = {r}
      PROVE  Own' + Count(resumes') + Count(statuses'[r]) <= 1 + asks'
  <2>1. Count(statuses'[r]) - Count(statuses[r]) =
            (asks' - asks) + (IF r \in ending THEN 1 ELSE 0)
    BY <1>2, AnswersCounted
  <2>2. Own + Count(resumes) + Count(statuses[r]) <= 1 + asks
    BY <1>2 DEF CountInv, ResendsDoNotMultiply, Underway, Own, Count
  <2>3. PICK a \in Nat, b \in Nat, c \in Nat :
            Count(resumes) = a /\ Count(statuses[r]) = b /\ asks = c
    BY Counted DEF CountInv
  <2>4. PICK d \in Nat, e \in Nat, f \in Nat :
            Count(resumes') = d /\ Count(statuses'[r]) = e /\ asks' = f
    BY <1>1, Counted
  <2>5. PICK g \in Nat : Own = g
    BY DEF Own
  <2>6. PICK h \in Nat : Own' = h
    BY DEF Own
  <2>7. (IF r \in ending THEN 1 ELSE 0) <= (IF ending = {} THEN 0 ELSE 1)
    OBVIOUS
  <2>8. PICK j \in {0, 1}, k \in {0, 1} :
            (IF r \in ending THEN 1 ELSE 0) = j /\ (IF ending = {} THEN 0 ELSE 1) = k
    OBVIOUS
  <2> QED BY <2>1, <2>2, <2>3, <2>4, <2>5, <2>6, <2>7, <2>8
<1>3. ResendsDoNotMultiply'
  BY <1>2 DEF ResendsDoNotMultiply, Underway, Own, Count
<1> QED BY <1>1, <1>3 DEF CountInv

\* The same where no receiver says anything.
LEMMA BalancedAlone ==
    ASSUME CountInv, UNCHANGED <<to, statuses, asks>>, WaitInv', Finite(resumes'),
           Own' + Count(resumes') <= Own + Count(resumes)
    PROVE  CountInv'
<1>1. ASSUME NEW r \in Receiver, to = {r}
      PROVE  Own' + Count(resumes') + Count(statuses[r]) <= 1 + asks
  <2>1. Own + Count(resumes) + Count(statuses[r]) <= 1 + asks
    BY <1>1 DEF CountInv, ResendsDoNotMultiply, Underway, Own, Count
  <2>2. PICK a \in Nat, b \in Nat, c \in Nat :
            Count(resumes) = a /\ Count(statuses[r]) = b /\ asks = c
    BY Counted DEF CountInv
  <2>3. PICK d \in Nat : Count(resumes') = d
    BY Counted
  <2>4. PICK g \in Nat : Own = g
    BY DEF Own
  <2>5. PICK h \in Nat : Own' = h
    BY DEF Own
  <2> QED BY <2>1, <2>2, <2>3, <2>4, <2>5
<1>2. ResendsDoNotMultiply'
  BY <1>1 DEF ResendsDoNotMultiply, Underway, Own, Count
<1> QED BY <1>2 DEF CountInv, Unasked

LEMMA SendsCounted ==
    ASSUME TransferInv, CountInv, NEW heard, NEW back \in SUBSET to,
           SendMeta(heard, back) \/ SendBlock(heard, back)
    PROVE  CountInv'
<1>1. /\ Answering(back, {}, {}) /\ UNCHANGED <<to, waiter, resumes>>
      /\ main.pc \in {"meta", "send"} /\ main'.pc = "send"
  <2>1. CASE SendMeta(heard, back)
    BY <2>1 DEF SendMeta, OnMeta, At
  <2>2. CASE SendBlock(heard, back)
    BY <2>2 DEF SendBlock, OnBlock, TransferInv, SenderInv, Place
  <2> QED BY <2>1, <2>2
<1>2. WaitInv' /\ Own' = 1 /\ Own = 1
  BY <1>1 DEF CountInv, WaitInv, Own, Sending
<1>3. Finite(resumes) /\ Count(resumes) \in Nat
  BY Counted DEF CountInv
<1> QED BY <1>1, <1>2, <1>3, Balanced DEF TransferInv

LEMMA EndCounted ==
    ASSUME TransferInv, CountInv, NEW heard, NEW back \in SUBSET to, SendEnd(heard, back)
    PROVE  CountInv'
<1>1. PICK ending \in SUBSET to : Answering(back, {}, ending)
  BY DEF SendEnd, OnEnd
<1>2. /\ main \in Place /\ main.pc = "send" /\ waiter = NoWaiter
      /\ AwaitStatus /\ UNCHANGED <<to, resumes>>
  BY DEF SendEnd, CountInv, WaitInv, TransferInv, SenderInv
<1>3. WaitInv' /\ Own' = 0 /\ Own = 1
  BY <1>2 DEF WaitInv, Own, Sending, AwaitStatus, Ended, At, NoWaiter, Waiting, Place
<1>4. Finite(resumes) /\ Count(resumes) \in Nat
  BY Counted DEF CountInv
<1> QED BY <1>1, <1>2, <1>3, <1>4, Balanced DEF TransferInv

LEMMA FailCounted == ASSUME TransferInv, CountInv, MainFails PROVE CountInv'
<1>1. /\ main \in Place /\ main.pc \in {"meta", "send"} /\ waiter = NoWaiter
      /\ UNCHANGED <<to, resumes, statuses, asks>>
  BY DEF MainFails, CountInv, WaitInv, TransferInv, SenderInv
<1>2. WaitInv' /\ Own' = 0 /\ Own = 1
  BY <1>1 DEF MainFails, WaitInv, Own, Sending, AwaitStatus, Ended, At, NoWaiter, Waiting, Place
<1>3. Finite(resumes) /\ Count(resumes) \in Nat
  BY Counted DEF CountInv
<1> QED BY <1>1, <1>2, <1>3, BalancedAlone

\* send_bulk goes on sending only where a status told it to.
LEMMA WaitCounted ==
    ASSUME TransferInv, CountInv, NEW up \in BOOLEAN,
           WaitTimesOut \/ Unanswered(up) \/ WaitAgain \/ TakeAnswer(up)
    PROVE  CountInv'
<1>1. UNCHANGED <<to, resumes, statuses, asks>> /\ main \in Place
  BY DEF WaitTimesOut, Unanswered, WaitAgain, TakeAnswer, TransferInv, SenderInv
<1>2. WaitInv' /\ Own' \in {0, 1} /\ Own \in {0, 1} /\ (Own' = 1 => Own = 1)
  <2>1. CASE WaitTimesOut
    BY <1>1, <2>1 DEF WaitTimesOut, WaitInv, Own, Sending, Waiting, TimedOut, Place
  <2>2. CASE Unanswered(up)
    BY <1>1, <2>2 DEF Unanswered, WaitInv, Own, Sending, NextRound, Ended, At, NoWaiter, Place
  <2>3. CASE WaitAgain
    BY <1>1, <2>3 DEF WaitAgain, WaitInv, Own, Sending, Waiting, Place
  <2>4. CASE TakeAnswer(up)
    BY <1>1, <2>4 DEF TakeAnswer, WaitInv, Own, Sending, Ended, At, NoWaiter, Place
  <2> QED BY <2>1, <2>2, <2>3, <2>4
<1>3. Finite(resumes) /\ Count(resumes) \in Nat
  BY Counted DEF CountInv
<1> QED BY <1>1, <1>2, <1>3, BalancedAlone

LEMMA ResumeCounted ==
    ASSUME TransferInv, CountInv, NEW todo \in SUBSET Block, NEW heard, NEW back \in SUBSET to,
           \/ ResumeBlock(todo, heard, back) \/ ResumeEnd(heard, back) \/ ResumeFails(todo)
    PROVE  CountInv'
<1>1. UNCHANGED <<to, main, waiter>> /\ WaitInv' /\ Own' = Own /\ Own \in {0, 1}
  BY DEF ResumeBlock, ResumeEnd, ResumeFails, CountInv, WaitInv, Own, Sending
<1>2. Finite(resumes) /\ Count(resumes) \in Nat
  BY Counted DEF CountInv
<1>3. CASE ResumeBlock(todo, heard, back)
  <2> DEFINE rest == resumes (-) SetToBag({todo})
             left == todo \ {Min(todo)}
  <2>1. todo \in DOMAIN resumes /\ resumes' = rest (+) SetToBag({left}) /\ Answering(back, {}, {})
    BY <1>3 DEF ResumeBlock, OnBlock, BagIn, BagToSet
  <2>2. Finite(rest) /\ Count(rest) = Count(resumes) - 1
    BY <1>2, <2>1, OneLess
  <2> HIDE DEF rest, left
  <2>3. /\ Finite(rest (+) SetToBag({left}))
        /\ Count(rest (+) SetToBag({left})) = Count(rest) + 1
    BY <2>2, OneMore
  <2>4. Finite(resumes') /\ Count(resumes') = Count(resumes)
    BY <1>2, <2>1, <2>2, <2>3
  <2>5. Own' + Count(resumes') + (IF {} = {} THEN 0 ELSE 1) <= Own + Count(resumes)
    BY <1>1, <1>2, <2>4
  <2> QED BY <1>1, <2>1, <2>4, <2>5, Balanced DEF TransferInv
<1>4. CASE ResumeEnd(heard, back)
  <2>1. {} \in DOMAIN resumes /\ resumes' = resumes (-) SetToBag({{}})
    BY <1>4 DEF ResumeEnd, BagIn, BagToSet
  <2>2. PICK ending \in SUBSET to : Answering(back, {}, ending)
    BY <1>4 DEF ResumeEnd, OnEnd
  <2>3. Finite(resumes') /\ Count(resumes') = Count(resumes) - 1
    BY <1>2, <2>1, OneLess
  <2> QED BY <1>1, <1>2, <2>2, <2>3, Balanced DEF TransferInv
<1>5. CASE ResumeFails(todo)
  <2>1. /\ todo \in DOMAIN resumes /\ resumes' = resumes (-) SetToBag({todo})
        /\ UNCHANGED <<statuses, asks>>
    BY <1>5 DEF ResumeFails, BagIn, BagToSet
  <2>2. Finite(resumes') /\ Count(resumes') = Count(resumes) - 1
    BY <1>2, <2>1, OneLess
  <2> QED BY <1>1, <1>2, <2>1, <2>2, BalancedAlone
<1> QED BY <1>3, <1>4, <1>5

\* A status is the answer, or starts a resume, or nothing: never two of them.
LEMMA StatusCounted ==
    ASSUME TransferInv, CountInv, NEW q \in Receiver, NEW m \in SUBSET Block, StatusGone(q, m),
           StatusHeard(m) \/ StatusLost
    PROVE  CountInv'
<1>1. UNCHANGED <<to, main, asks>> /\ asks \in Nat
  BY DEF StatusGone, StatusHeard, StatusLost, CountInv
<1>2. /\ m \in DOMAIN statuses[q] /\ statuses'[q] = statuses[q] (-) SetToBag({m})
      /\ \A r \in Receiver \ {q} : statuses'[r] = statuses[r]
  BY DEF StatusGone, BagIn, BagToSet, TransferInv, ReceiverInv
<1>3. Finite(statuses'[q]) /\ Count(statuses'[q]) = Count(statuses[q]) - 1
  BY <1>2, OneLess DEF CountInv
<1>4. Unasked' /\ \A r \in Receiver : Finite(statuses'[r])
  <2>1. q \in to
    BY <1>2 DEF CountInv, Unasked
  <2> QED BY <1>1, <1>2, <1>3, <2>1 DEF CountInv, Unasked
<1>5. WaitInv' /\ Own' \in {0, 1} /\ Own \in {0, 1}
  BY <1>1 DEF StatusHeard, StatusLost, WaitInv, CountInv, Own, Sending, Waiting, TimedOut, NoWaiter
<1>6. Finite(resumes') /\ Own' + Count(resumes') <= Own + Count(resumes) + 1
  <2>1. Finite(resumes) /\ Count(resumes) \in Nat
    BY Counted DEF CountInv
  <2>2. CASE resumes' = resumes
    BY <1>5, <2>1, <2>2
  <2>3. CASE resumes' # resumes
    <3>1. resumes' = resumes (+) SetToBag({m}) /\ waiter' = waiter
      BY <2>3 DEF StatusHeard, StatusLost
    <3>2. Finite(resumes') /\ Count(resumes') = Count(resumes) + 1
      BY <2>1, <3>1, OneMore
    <3>3. Own' = Own
      BY <1>1, <3>1 DEF Own, Sending
    <3> QED BY <1>5, <2>1, <3>2, <3>3
  <2> QED BY <2>2, <2>3
<1>7. ASSUME NEW r \in Receiver, to = {r}
      PROVE  Own' + Count(resumes') + Count(statuses'[r]) <= 1 + asks
  <2>1. Own + Count(resumes) + Count(statuses[r]) <= 1 + asks
    BY <1>7 DEF CountInv, ResendsDoNotMultiply, Underway, Own, Count
  <2>2. CASE q # r
    BY <1>2, <1>7, <2>2 DEF CountInv, Unasked
  <2>3. CASE q = r
    <3>1. PICK a \in Nat, b \in Nat : Count(resumes) = a /\ Count(statuses[r]) = b
      BY Counted DEF CountInv
    <3>2. PICK d \in Nat : Count(resumes') = d
      BY <1>6, Counted
    <3>3. PICK g \in Nat : Own = g
      BY DEF Own
    <3>4. PICK h \in Nat : Own' = h
      BY DEF Own
    <3> QED BY <1>1, <1>3, <1>6, <2>1, <2>3, <3>1, <3>2, <3>3, <3>4
  <2> QED BY <2>2, <2>3
<1>8. ResendsDoNotMultiply'
  BY <1>1, <1>7 DEF ResendsDoNotMultiply, Underway, Own, Count
<1> QED BY <1>1, <1>4, <1>5, <1>6, <1>8 DEF CountInv

\* What a step of the net is to the transfer.
TransferMove ==
    \/ \E back, joined \in SUBSET to : JustAnswering(back, joined)
    \/ \E heard \in SUBSET Station, back \in SUBSET to :
          \/ SendMeta(heard, back) \/ SendBlock(heard, back) \/ SendEnd(heard, back)
          \/ ResumeEnd(heard, back) \/ \E todo \in SUBSET Block : ResumeBlock(todo, heard, back)
    \/ MainFails \/ \E todo \in SUBSET Block : ResumeFails(todo)
    \/ \E r \in Receiver, m \in SUBSET Block : StatusGone(r, m) /\ (StatusHeard(m) \/ StatusLost)
    \/ \E up \in BOOLEAN : WaitTimesOut \/ Unanswered(up) \/ WaitAgain \/ TakeAnswer(up)
    \/ UNCHANGED transferVars

LEMMA TransferMoves == ASSUME NetNext PROVE TransferMove
<1>1. \A s, heard : Back(s, heard) \in SUBSET to
  BY DEF Back
<1>2. ASSUME NEW s \in Station, SendsBeacon(s) \/ Joins(s) PROVE TransferMove
  <2>1. UNCHANGED transferVars \/ \E back, joined \in SUBSET to : JustAnswering(back, joined)
    <3>1. CASE SendsBeacon(s)
      BY <1>1, <3>1 DEF SendsBeacon, BeaconNotSent, BeaconSent
    <3>2. ASSUME NEW heard \in SUBSET Station, JoinSent(s, heard)
          PROVE  \E back, joined \in SUBSET to : JustAnswering(back, joined)
      <4>1. PICK joined \in SUBSET to : JustAnswering(Back(s, heard), joined)
        BY <3>2 DEF JoinSent
      <4> QED BY <1>1, <4>1
    <3>3. CASE JoinNotSent(s)
      <4>1. PICK joined \in SUBSET to : JustAnswering({}, joined)
        BY <3>3 DEF JoinNotSent
      <4> QED BY <4>1
    <3> QED BY <1>2, <3>1, <3>2, <3>3 DEF Joins
  <2> QED BY <2>1 DEF TransferMove
<1>3. ASSUME NEW heard \in SUBSET Station, SenderSends(heard) \/ ResumeSends(heard)
      PROVE  TransferMove
  <2>1. PICK back \in SUBSET to :
           \/ SendMeta(heard, back) \/ SendBlock(heard, back) \/ SendEnd(heard, back)
           \/ ResumeEnd(heard, back) \/ \E todo \in SUBSET Block : ResumeBlock(todo, heard, back)
    BY <1>1, <1>3 DEF SenderSends, ResumeSends
  <2> QED BY <2>1 DEF TransferMove
<1>4. CASE SenderCannot
  BY <1>4 DEF SenderCannot, TransferMove
<1>5. ASSUME NEW r \in Receiver, SendsStatus(r) PROVE TransferMove
  <2>1. PICK m \in SUBSET Block : StatusGone(r, m) /\ (StatusHeard(m) \/ StatusLost)
    BY <1>5 DEF SendsStatus, StatusNotSent, StatusSent
  <2> QED BY <2>1 DEF TransferMove
<1>6. CASE SenderWaits
  <2>1. PICK up \in BOOLEAN : WaitTimesOut \/ Unanswered(up) \/ WaitAgain \/ TakeAnswer(up)
    <3> DEFINE up == Sender \in connected
    <3>1. WaitTimesOut \/ Unanswered(up) \/ WaitAgain \/ TakeAnswer(up)
      BY <1>6 DEF SenderWaits
    <3>2. up \in BOOLEAN
      OBVIOUS
    <3> QED BY <3>1, <3>2
  <2> QED BY <2>1 DEF TransferMove
<1>7. ASSUME TimePasses \/ \E s \in Station : Timers(s) \/ Arrives(s) \/ Drops(s) \/ Quits(s)
      PROVE  TransferMove
  BY <1>7 DEF TimePasses, Timers, Arrives, Drops, Quits, TransferMove
<1> QED BY <1>2, <1>3, <1>4, <1>5, <1>6, <1>7 DEF NetNext, SendsFile, Resumes

LEMMA CountAside == CountInv /\ UNCHANGED transferVars => CountInv'
BY DEF CountInv, WaitInv, Unasked, ResendsDoNotMultiply, Underway, Sending, transferVars

LEMMA CountStep == ASSUME NetInv, CountInv, [NetNext]_vars PROVE CountInv'
<1>1. TransferInv
  BY DEF NetInv
<1>2. CASE UNCHANGED vars
  BY <1>2, CountAside DEF vars
<1>3. CASE TransferMove
  <2>1. ASSUME NEW back \in SUBSET to, NEW joined \in SUBSET to, JustAnswering(back, joined)
        PROVE  CountInv'
    <3>1. Answering(back, joined, {}) /\ UNCHANGED <<to, main, waiter, resumes>>
      BY <2>1 DEF JustAnswering
    <3>2. WaitInv' /\ Own' = Own /\ Own \in Nat
      BY <3>1 DEF CountInv, WaitInv, Own, Sending
    <3>3. Finite(resumes) /\ Count(resumes) \in Nat
      BY Counted DEF CountInv
    <3> QED BY <1>1, <3>1, <3>2, <3>3, Balanced DEF TransferInv
  <2> QED BY <1>1, <1>3, <2>1, SendsCounted, EndCounted, FailCounted, WaitCounted, ResumeCounted,
             StatusCounted, CountAside DEF TransferMove
<1> QED BY <1>2, <1>3, TransferMoves

LEMMA CountStarts == ASSUME NetInit PROVE CountInv
<1>1. PICK addressed \in SUBSET Receiver : TransferInit(addressed)
  BY DEF NetInit
<1>2. WaitInv /\ Unasked /\ asks = 0 /\ resumes = EmptyBag
      /\ \A r \in Receiver : statuses[r] = EmptyBag
  BY <1>1, Empty DEF TransferInit, WaitInv, Unasked
<1>3. Own \in {0, 1}
  BY DEF Own
<1>4. ASSUME NEW r \in Receiver PROVE Own + Count(resumes) + Count(statuses[r]) <= 1 + asks
  BY <1>2, <1>3, NoCopies
<1>5. ResendsDoNotMultiply
  BY <1>4 DEF ResendsDoNotMultiply, Underway, Own, Count
<1> QED BY <1>2, <1>5, NoCopies DEF CountInv

\* Every status and every resume is accounted for by the one BULK_END that
\* send_bulk sent, or by a request of the receiver's own.
THEOREM ResendsCounted == NetSpec => []CountInv
<1>1. NetInit => NetInv /\ CountInv
  BY Starts, CountStarts
<1>2. NetInv /\ CountInv /\ [NetNext]_vars => NetInv' /\ CountInv'
  BY NetStep, CountStep
<1> QED BY <1>1, <1>2, PTL DEF NetSpec

\* A file for one station is not sent over and over by resumes and rounds that
\* answer each other's answers.
THEOREM ResendsBounded == NetSpec => []ResendsDoNotMultiply
<1>1. CountInv => ResendsDoNotMultiply
  BY DEF CountInv
<1> QED BY ResendsCounted, <1>1, PTL

\* Every reachable state of the net is well formed; no round is counted beyond
\* the last.
THEOREM NetTypeCorrect == NetSpec => []NetTypeOK
<1>1. ASSUME NetInv, CountInv PROVE NetTypeOK
  <2>1. ElectionTypeOK /\ RestTypeOK /\ ReceiverInv /\ SenderInv /\ asks \in Nat
    BY <1>1 DEF NetInv, TransferInv, CountInv
  <2>2. done \in BOOLEAN
    BY <1>1 DEF NetInv, TransferInv, SenderInv
  <2>3. TransferTypeOK
    BY <2>1, <2>2 DEF ReceiverInv, SenderInv, Place, TransferTypeOK
  <2> QED BY <2>1, <2>3 DEF RestTypeOK, NetTypeOK
<1> QED BY NetAccounted, ResendsCounted, <1>1, PTL
=============================================================================
