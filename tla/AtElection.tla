---------------------------- MODULE AtElection ----------------------------
(***************************************************************************)
(* Who leads an AtCHAT net: the part of sdroxide_atchat's Station that     *)
(* sends beacons, hears them, ages its roster and takes over when they     *)
(* stop.  Time is counted in beacon intervals.  A callsign is its place in *)
(* the alphabet.                                                           *)
(***************************************************************************)
EXTENDS Integers, FiniteSets, FiniteSetsExt

CONSTANTS
    Station,
    Nobody,         \* no master or no backup is known
    TIMEOUT,        \* beacon_timeout
    LOST,           \* lost_timeout
    REMOVE          \* remove_timeout

ASSUME ElectionAssumption ==
    /\ Station \subseteq Nat \ {0} /\ IsFiniteSet(Station) /\ Nobody \notin Nat
    /\ {TIMEOUT, LOST, REMOVE} \subseteq Nat \ {0}
    /\ TIMEOUT <= LOST /\ LOST < REMOVE

VARIABLES
    running,        \* stations that have been started
    connected,      \* those with a link
    role, master, backup,
    age,            \* intervals since last_beacon_time
    roster,         \* intervals since each station was last seen
    due,            \* stations whose beacon_loop comes round in this interval
    resolved,       \* stations whose watchdog has decided, and not yet taken over
    beacons         \* the beacons each station is waiting to transmit

netVars == <<running, connected, role, master, backup, age, roster, due, resolved, beacons>>

Gone == REMOVE + 1      \* not in the roster
Role == {"Listener", "Backup", "Master"}
Call == Station \cup {Nobody}
Beacon == [src : Station, backup : Call, listed : SUBSET Station]

\* age_roster runs every second (while the link is up, and nothing asks what an
\* entry is while it is down): what an entry is follows from its age.
Listed(s) == {c \in Station \ {s} : roster[s][c] <= REMOVE}
Active(s) == {c \in Station \ {s} : roster[s][c] <= LOST}
IsLost(s, c) == roster[s][c] \in LOST + 1 .. REMOVE

Strangers == [c \in Station |-> Gone]

ElectionInit(started) ==
    /\ running = started /\ connected = started
    /\ role = [s \in Station |-> "Listener"]
    /\ master = [s \in Station |-> Nobody] /\ backup = [s \in Station |-> Nobody]
    /\ age = [s \in Station |-> 0] /\ roster = [s \in Station |-> Strangers]
    /\ due = {} /\ resolved = {} /\ beacons = [s \in Station |-> {}]

----------------------------------------------------------------------------
PickBackup(s) == IF Active(s) = {} THEN Nobody ELSE Min(Active(s))

\* send_beacon, up to the wait for the channel.
QueueBeacon(s) ==
    /\ backup' = [backup EXCEPT ![s] = PickBackup(s)]
    /\ beacons' = [beacons EXCEPT ![s] = @ \cup
           {[src |-> s, backup |-> PickBackup(s), listed |-> {s} \cup Listed(s)]}]

BeaconLoop(s) ==
    /\ s \in due /\ due' = due \ {s}
    /\ IF role[s] = "Master" /\ s \in connected THEN QueueBeacon(s)
                                                ELSE UNCHANGED <<backup, beacons>>
    /\ UNCHANGED <<running, connected, role, master, age, roster, resolved>>

\* Slip: only who knows of no master takes over.
StrangersMayLead(s) == role[s] # "Master" /\ age[s] >= TIMEOUT /\ master[s] = Nobody

\* Slip: only the backup takes over.
BackupMayLead(s) == role[s] = "Backup" /\ age[s] >= TIMEOUT

MayLead(s) ==
    /\ role[s] # "Master" /\ age[s] >= TIMEOUT
    /\ role[s] = "Backup" \/ master[s] = Nobody

\* master_watchdog decides under one lock and acts under another.
WatchdogDecides(s) ==
    /\ s \in connected \ resolved /\ MayLead(s)
    /\ resolved' = resolved \cup {s}
    /\ UNCHANGED <<running, connected, role, master, backup, age, roster, due, beacons>>

TakeOver(s) ==
    /\ s \in resolved /\ resolved' = resolved \ {s}
    /\ role' = [role EXCEPT ![s] = "Master"]
    /\ age' = [age EXCEPT ![s] = 0]
    /\ QueueBeacon(s)
    /\ UNCHANGED <<running, connected, master, roster, due>>

\* An interval passes: every beacon_loop comes round and every frame gets its
\* turn on the channel, and a watchdog runs more often than that.
Tick ==
    /\ due = {} /\ resolved = {} /\ \A s \in Station : beacons[s] = {}
    /\ \A s \in connected : ~MayLead(s)
    /\ due' = running
    /\ age' = [s \in Station |-> Min({age[s] + 1, TIMEOUT})]
    /\ roster' = [s \in Station |-> [c \in Station |-> Min({roster[s][c] + 1, Gone})]]
    /\ UNCHANGED <<running, connected, role, master, backup, resolved, beacons>>

----------------------------------------------------------------------------
(* What the others make of a frame. *)

Touched(r, src) == IF r = src THEN roster[r] ELSE [roster[r] EXCEPT ![src] = 0]

\* touch_roster, at every station that hears a frame of src.
TouchRoster(src, heard) ==
    roster' = [r \in Station |-> IF r \in heard THEN Touched(r, src) ELSE roster[r]]

\* Slip: a master that leaves conflicts alone.
NeverYields(f, r) == role[r] = "Master" /\ f.src # r

\* A master does not listen to a later callsign.
Ignores(f, r) == role[r] = "Master" /\ f.src > r

RoleAfter(f, r) ==
    IF role[r] = "Master" /\ f.src = r THEN "Master"
    ELSE IF f.backup = r THEN "Backup" ELSE "Listener"

\* on_beacon, at every station that hears it: among them, on some channels,
\* the one that sent it.
HearBeacon(f, heard) ==
    LET follow == {r \in heard : ~Ignores(f, r)}
    IN  /\ age' = [r \in Station |-> IF r \in follow THEN 0 ELSE age[r]]
        /\ master' = [r \in Station |-> IF r \in follow THEN f.src ELSE master[r]]
        /\ backup' = [r \in Station |-> IF r \in follow THEN f.backup ELSE backup[r]]
        /\ role' = [r \in Station |-> IF r \in follow THEN RoleAfter(f, r) ELSE role[r]]
        /\ roster' = [r \in Station |->
               [c \in Station |->
                   IF r \in follow /\ c \in f.listed \ {r} THEN 0
                   ELSE IF r \in heard THEN Touched(r, f.src)[c] ELSE roster[r][c]]]

BeaconOut(s, f) == beacons' = [beacons EXCEPT ![s] = @ \ {f}]

\* A frame that is not a beacon.
HearOther(src, heard) ==
    /\ TouchRoster(src, heard)
    /\ UNCHANGED <<running, connected, role, master, backup, age, due, resolved, beacons>>

----------------------------------------------------------------------------
\* Station::start.
StartStation(s) ==
    /\ s \notin running
    /\ running' = running \cup {s} /\ connected' = connected \cup {s}
    /\ age' = [age EXCEPT ![s] = 0]
    /\ UNCHANGED <<role, master, backup, roster, due, resolved, beacons>>

DropLink(s) ==
    /\ s \in connected /\ connected' = connected \ {s}
    /\ UNCHANGED <<running, role, master, backup, age, roster, due, resolved, beacons>>

\* A rejoining station never declares itself master.
Reconnect(s) ==
    /\ s \in running \ connected /\ connected' = connected \cup {s}
    /\ role' = [role EXCEPT ![s] = "Listener"]
    /\ age' = [age EXCEPT ![s] = 0]
    /\ UNCHANGED <<running, master, backup, roster, due, resolved, beacons>>

\* The program ends, and all it knew with it.
Quit(s) ==
    /\ s \in running /\ running' = running \ {s} /\ connected' = connected \ {s}
    /\ role' = [role EXCEPT ![s] = "Listener"]
    /\ master' = [master EXCEPT ![s] = Nobody] /\ backup' = [backup EXCEPT ![s] = Nobody]
    /\ age' = [age EXCEPT ![s] = 0] /\ roster' = [roster EXCEPT ![s] = Strangers]
    /\ due' = due \ {s} /\ resolved' = resolved \ {s}
    /\ beacons' = [beacons EXCEPT ![s] = {}]

ElectionTypeOK ==
    /\ connected \subseteq running /\ running \subseteq Station
    /\ role \in [Station -> Role]
    /\ master \in [Station -> Call] /\ backup \in [Station -> Call]
    /\ age \in [Station -> 0 .. TIMEOUT]
    /\ roster \in [Station -> [Station -> 0 .. Gone]]
    /\ due \subseteq running /\ resolved \subseteq running
    /\ beacons \in [Station -> SUBSET Beacon]

Masters == {s \in connected : role[s] = "Master"}
=============================================================================
