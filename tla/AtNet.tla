------------------------------- MODULE AtNet -------------------------------
(***************************************************************************)
(* An AtCHAT net: stations that elect a master (AtElection) and pass a     *)
(* file (AtTransfer) over one channel, a frame at a time.  A frame reaches *)
(* some of the stations that could hear it; every frame renews its         *)
(* sender in the rosters, which is how a receiver learns that a sender has *)
(* come back.                                                              *)
(***************************************************************************)
EXTENDS AtElection, AtTransfer

ASSUME NetAssumption == Sender \in Station /\ Receiver \subseteq Station \ {Sender}

VARIABLES
    onRadio,        \* the channel is a radio, not the virtual one
    joining,        \* stations with a JOIN_REQUEST to transmit
    faults          \* bound: frames missed or given up, links dropped, stations
                    \* that quit, stations that start or rejoin

vars == <<netVars, transferVars, onRadio, joining, faults>>

\* The virtual channel gives a frame back to its sender too, and cuts off who
\* drops the link.  On the radio a dropped link only stops the transmitter.
Hearers(s) ==
    IF onRadio THEN running \ {s} ELSE connected

\* A frame of s goes out, and these hear it.
OnAir(s, heard) ==
    /\ s \in connected
    /\ heard \subseteq Hearers(s)
    /\ heard # Hearers(s) => faults.miss > 0
    /\ faults' = IF heard = Hearers(s) THEN faults ELSE [faults EXCEPT !.miss = @ - 1]

\* send_frame fails: the link is down, or the channel was busy for too long.
NotSent(s) ==
    /\ s \in running
    /\ s \in connected => faults.miss > 0
    /\ faults' = IF s \in connected THEN [faults EXCEPT !.miss = @ - 1] ELSE faults

\* touch_roster at a receiver that had lost the sender.
Back(s, heard) ==
    IF s = Sender THEN {r \in heard \cap to : IsLost(r, s)} ELSE {}

----------------------------------------------------------------------------
BeaconSent(s, f, heard) ==
    /\ f \in beacons[s] /\ OnAir(s, heard)
    /\ BeaconOut(s, f) /\ HearBeacon(f, heard)
    /\ JustAnswering(Back(s, heard), {})
    /\ UNCHANGED <<running, connected, due, resolved, onRadio, joining>>

BeaconNotSent(s, f) ==
    /\ f \in beacons[s] /\ NotSent(s) /\ BeaconOut(s, f)
    /\ UNCHANGED <<running, connected, role, master, backup, age, roster, due, resolved,
                   transferVars, onRadio, joining>>

\* Master or not, a station asks whoever joins for what it misses from there;
\* and the one that joined asks for what it misses itself, sent or not.
JoinSent(s, heard) ==
    /\ s \in joining /\ joining' = joining \ {s} /\ OnAir(s, heard)
    /\ HearOther(s, heard)
    /\ JustAnswering(Back(s, heard), IF s = Sender THEN heard \cap to ELSE {s} \cap to)
    /\ UNCHANGED onRadio

JoinNotSent(s) ==
    /\ s \in joining /\ joining' = joining \ {s} /\ NotSent(s)
    /\ JustAnswering({}, {s} \cap to)
    /\ UNCHANGED <<netVars, onRadio>>

SenderSends(heard) ==
    /\ OnAir(Sender, heard) /\ HearOther(Sender, heard)
    /\ LET back == Back(Sender, heard)
       IN  \/ SendMeta(heard, back) \/ SendBlock(heard, back) \/ SendEnd(heard, back)
    /\ UNCHANGED <<onRadio, joining>>

ResumeSends(heard) ==
    /\ OnAir(Sender, heard) /\ HearOther(Sender, heard)
    /\ LET back == Back(Sender, heard)
       IN  \/ \E todo \in SUBSET Block : ResumeBlock(todo, heard, back)
           \/ ResumeEnd(heard, back)
    /\ UNCHANGED <<onRadio, joining>>

SenderCannot ==
    /\ NotSent(Sender)
    /\ MainFails \/ \E todo \in SUBSET Block : ResumeFails(todo)
    /\ UNCHANGED <<netVars, onRadio, joining>>

StatusSent(r, m, heard) ==
    /\ OnAir(r, heard) /\ HearOther(r, heard)
    /\ StatusGone(r, m)
    /\ IF Sender \in heard THEN StatusHeard(m) ELSE StatusLost
    /\ UNCHANGED <<onRadio, joining>>

StatusNotSent(r, m) ==
    /\ NotSent(r) /\ StatusGone(r, m) /\ StatusLost
    /\ UNCHANGED <<netVars, onRadio, joining>>

SenderWaits ==
    /\ LET up == Sender \in connected
       IN  WaitTimesOut \/ Unanswered(up) \/ WaitAgain \/ TakeAnswer(up)
    /\ UNCHANGED <<netVars, onRadio, joining, faults>>

----------------------------------------------------------------------------
Budgeted(kind) == faults[kind] > 0 /\ faults' = [faults EXCEPT ![kind] = @ - 1]

Arrives(s) ==
    /\ Budgeted("join")
    /\ StartStation(s) \/ Reconnect(s)
    /\ joining' = joining \cup {s}
    /\ UNCHANGED <<transferVars, onRadio>>

Drops(s) ==
    /\ Budgeted("drop") /\ DropLink(s)
    /\ UNCHANGED <<transferVars, onRadio, joining>>

\* A program that ends with a transfer under way is not followed here.
Quits(s) ==
    /\ s \notin to /\ (main = Idle \/ s # Sender)
    /\ Budgeted("quit") /\ Quit(s)
    /\ joining' = joining \ {s}
    /\ UNCHANGED <<transferVars, onRadio>>

Timers(s) ==
    /\ BeaconLoop(s) \/ WatchdogDecides(s) \/ TakeOver(s)
    /\ UNCHANGED <<transferVars, onRadio, joining, faults>>

\* Bound: a file is sent within one interval.  What beacons do to a transfer
\* they do through the rosters, whose ages are chosen at the start.
TimePasses ==
    /\ main = Idle /\ joining = {} /\ Tick
    /\ UNCHANGED <<transferVars, onRadio, joining, faults>>

SendsBeacon(s) ==
    \E f \in beacons[s] :
        BeaconNotSent(s, f) \/ \E heard \in SUBSET Station : BeaconSent(s, f, heard)
Joins(s) == JoinNotSent(s) \/ \E heard \in SUBSET Station : JoinSent(s, heard)
SendsStatus(r) ==
    \E m \in SUBSET Block :
        StatusNotSent(r, m) \/ \E heard \in SUBSET Station : StatusSent(r, m, heard)
SendsFile == SenderCannot \/ \E heard \in SUBSET Station : SenderSends(heard)
Resumes == \E heard \in SUBSET Station : ResumeSends(heard)

NetNext ==
    \/ \E s \in Station :
          \/ SendsBeacon(s) \/ Joins(s) \/ Timers(s)
          \/ Arrives(s) \/ Drops(s) \/ Quits(s)
    \/ \E r \in Receiver : SendsStatus(r)
    \/ SendsFile \/ Resumes \/ SenderWaits
    \/ TimePasses

\* Stations that have just been started, one of them perhaps with a file to send.
NetInit ==
    \E started \in SUBSET Station, addressed \in SUBSET Receiver :
        /\ addressed # {} => Sender \in started
        /\ ElectionInit(started) /\ joining = started
        /\ TransferInit(addressed)
        /\ onRadio \in BOOLEAN
        /\ faults \in [{"miss", "drop", "quit", "join"} -> Nat]

NetSpec == NetInit /\ [][NetNext]_vars

(***************************************************************************)
(* Every frame that waits for the channel gets it in the end; timers run   *)
(* out; tasks that are ready run.  Nobody need ever start, rejoin, drop    *)
(* out, or miss a frame.                                                   *)
(***************************************************************************)
NetFairness ==
    /\ \A s \in Station :
          WF_vars(SendsBeacon(s)) /\ WF_vars(Joins(s)) /\ WF_vars(Timers(s))
    /\ \A r \in Receiver : WF_vars(SendsStatus(r))
    /\ WF_vars(SendsFile) /\ WF_vars(Resumes) /\ WF_vars(SenderWaits)
    /\ WF_vars(TimePasses)

----------------------------------------------------------------------------
NetTypeOK ==
    /\ ElectionTypeOK /\ TransferTypeOK
    /\ onRadio \in BOOLEAN /\ joining \subseteq running
    /\ faults \in [{"miss", "drop", "quit", "join"} -> Nat]

\* However a net is split by missed beacons, late ones, stations that rejoin and
\* watchdogs that decided just before a beacon came, it ends with one master.
OneMasterInTheEnd == <>[](Cardinality(Masters) <= 1)

\* A station that the last beacon it heard named backup takes over when no
\* master is left, unless it goes too, or a beacon that a former master still
\* has waiting for the channel names another.
BackupTakesOver ==
    \A s \in Station :
        (/\ s \in connected /\ role[s] = "Backup" /\ Masters = {}
         /\ \A c \in Station : beacons[c] = {})
            ~> (Masters # {} \/ s \notin connected)

\* Wherever a station never heard a beacon, and none is master, the net gets
\* one (if no file is being sent: the bound of TimePasses).
NewNetGetsMaster ==
    \A s \in Station :
        (main = Idle /\ s \in connected /\ master[s] = Nobody /\ Masters = {})
            ~> (Masters # {} \/ s \notin connected)

\* The sender takes a transfer for done only when some receiver has every block
\* of the file, and has it on disk, unless the write of it failed: that receiver
\* logs the failure, answers that nothing is missing, and asks for nothing again
\* (save_transfer).
DoneIsSaved ==
    /\ done => saved \cup unsaved # {}
    /\ \A r \in saved \cup unsaved : r \in complete /\ received[r] = Block
    /\ saved \cap unsaved = {}

\* What is under way towards a BULK_END, or back from one: the sender's own
\* rounds, the resumes and the statuses, copy by copy.
Copies(B) == UNION {{e} \X (1 .. B[e]) : e \in DOMAIN B}
Sending == main.pc \in {"meta", "send"} \/ waiter.state = "answered"
Underway(r) ==
    (IF Sending THEN 1 ELSE 0) + Cardinality(Copies(resumes)) + Cardinality(Copies(statuses[r]))

\* The resends of a file addressed to one station do not multiply: all of it
\* stems from the first BULK_END or from a request the receiver made of its own
\* accord.
ResendsDoNotMultiply == \A r \in Receiver : to = {r} => Underway(r) <= 1 + asks

\* send_bulk ends, whatever is lost.
SenderStops == <>(main.pc \in {"idle", "ended"})

\* A receiver that lacks blocks and asks for them, because it rejoined, the
\* sender did, or the sender was heard again, ends with the whole file, written
\* or failed to be, if nothing is lost from then on and send_bulk no longer waits.
Resumable(r) ==
    /\ main = Ended /\ waiter = NoWaiter /\ {Sender, r} \subseteq connected
    /\ Partial(r) /\ \E m \in SUBSET Block : m # {} /\ BagIn(m, statuses[r])
    /\ faults.miss = 0 /\ faults.drop = 0
ResumeCompletes == \A r \in Receiver : Resumable(r) ~> (r \in saved \cup unsaved)
=============================================================================
