-------------------------- MODULE RelayTransport --------------------------
(***************************************************************************)
(* The board and the transport in front of it, as the serial and HID       *)
(* transports of sdroxide_relay drive one: a command per contact, sent     *)
(* only for the contacts that differ from what was last written.           *)
(***************************************************************************)
CONSTANTS
    Channel,        \* the contacts this transport manages
    Unknown         \* last = None

VARIABLES
    last,           \* what was last written and acknowledged, or Unknown
    contacts        \* the coils as they stand

boardVars == <<last, contacts>>

BoardTypeOK == last \in {Unknown} \cup SUBSET Channel /\ contacts \subseteq Channel

Xor(a, b) == (a \ b) \cup (b \ a)

\* Unknown state means write everything.
Changed(had, want) == IF had = Unknown THEN Channel ELSE Xor(had, want)

Written(done, want) == contacts' = (contacts \ done) \cup (want \cap done)

\* apply, when nothing differs: no command is sent and no time passes.
NothingToSend(want) == Changed(last, want) = {}

\* apply, when every command went out.
Apply(want) == Written(Changed(last, want), want) /\ last' = want

\* Slip: a failure that leaves the last good mask on record.
ApplyFailsKeepsLast(want) ==
    /\ \E done \in SUBSET Changed(last, want) : Written(done, want)
    /\ last' = last

\* apply, when one failed: any part of it happened, and nothing is known now.
ApplyFails(want) ==
    /\ \E done \in SUBSET Changed(last, want) : Written(done, want)
    /\ last' = Unknown

\* Slip: a restatement that goes through the diff, which sends nothing.
RestateNothing == UNCHANGED boardVars

\* read_back of a board that cannot answer: restate what it was told, if that
\* is known.
Restate ==
    IF last = Unknown THEN UNCHANGED boardVars
                      ELSE Written(Channel, last) /\ UNCHANGED last

RestateFails ==
    /\ last # Unknown
    /\ \E done \in SUBSET Channel : Written(done, last)
    /\ last' = Unknown
=============================================================================
