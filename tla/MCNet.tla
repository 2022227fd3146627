------------------------------- MODULE MCNet -------------------------------
(***************************************************************************)
(* A net in one of four situations: its election, with no file sent; a     *)
(* file for one station, on links that drop; a file whose sender has gone  *)
(* and may come back; a file for all.                                      *)
(***************************************************************************)
EXTENDS AtNet

Budget(miss, drop, quit, join) ==
    [miss |-> miss, drop |-> drop, quit |-> quit, join |-> join]

\* Stations that start together, not having heard of each other.
Starting == ElectionInit(Station) /\ joining = Station

\* A net with a master and a backup.
Established ==
    /\ running = Station /\ connected = Station /\ joining = {}
    /\ role = <<"Master", "Backup", "Listener">>
    /\ master = [s \in Station |-> IF s = 1 /\ onRadio THEN Nobody ELSE 1]
    /\ backup = [s \in Station |-> 2]
    /\ age = [s \in Station |-> 0]
    /\ roster = [r \in Station |-> [c \in Station |-> IF c = r THEN Gone ELSE 0]]
    /\ due = {} /\ resolved = {} /\ beacons = [s \in Station |-> {}]

\* No election: these stations run, these have a link, and the receivers heard
\* the sender so long ago.
Quiet(there, up, ago) ==
    /\ running = there /\ connected = up /\ joining = {}
    /\ role = [s \in Station |-> "Listener"]
    /\ master = [s \in Station |-> Nobody] /\ backup = [s \in Station |-> Nobody]
    /\ age = [s \in Station |-> 0] /\ due = {} /\ resolved = {}
    /\ beacons = [s \in Station |-> {}]
    /\ roster = [r \in Station |-> [c \in Station |-> IF r # Sender /\ c = Sender THEN ago ELSE Gone]]

One == Min(Receiver)

ToOne ==
    /\ Quiet({One, Sender}, {One, Sender}, 0) /\ TransferInit({One})
    /\ faults \in {Budget(2, 0, 0, 0), Budget(1, 1, 0, 1)}

\* The sender's link dropped after the first block.
Suspended ==
    /\ Quiet({One, Sender}, {One}, LOST + 1)
    /\ to = {One} /\ main = Ended /\ waiter = NoWaiter /\ resumes = EmptyBag
    /\ done = FALSE /\ known = {One} /\ complete = {} /\ asks = 0
    /\ saved = {} /\ unsaved = {}
    /\ received = [r \in Receiver |-> IF r = One THEN {Min(Block)} ELSE {}]
    /\ statuses = [r \in Receiver |-> EmptyBag]
    /\ faults = Budget(1, 0, 0, 1)

ToAll ==
    /\ Quiet(Station, Station, 0) /\ TransferInit(Receiver)
    /\ faults = Budget(1, 0, 0, 0)

Electing ==
    /\ TransferInit({})
    /\ \/ Starting /\ faults = Budget(0, 0, 0, 0)
       \/ /\ Established
          /\ faults \in {Budget(2, 0, 0, 0), Budget(0, 1, 0, 1),
                         Budget(1, 1, 0, 0), Budget(0, 0, 1, 1)}

MCInit == onRadio \in BOOLEAN /\ (Electing \/ ToOne \/ Suspended \/ ToAll)

MCSpec == MCInit /\ [][NetNext]_vars /\ NetFairness
=============================================================================
