------------------------------ MODULE TxGate ------------------------------
(***************************************************************************)
(* The station's transmit interlock: one atomic word shared by every       *)
(* engine of the process, holding the radio that may transmit.             *)
(*                                                                         *)
(* Each operation is one compare-and-swap, so each is one step.  A caller  *)
(* passes the radio it speaks for; nothing checks that it is the caller's  *)
(* own, which is why release names the radio too.                          *)
(***************************************************************************)
EXTENDS Radios

VARIABLE owner

GateTypeOK == owner \in Radio \cup {NoRadio}

GateInit == owner = NoRadio

\* try_acquire answers whether the gate was free or already the caller's.
Grants(r) == owner \in {NoRadio, r}

Acquire(r) == Grants(r) /\ owner' = r

\* Slip: release without asking whose claim it is.
ReleaseUnchecked(r) == owner' = NoRadio

\* Releasing somebody else's claim is refused silently.
Release(r) == owner' = IF owner = r THEN NoRadio ELSE owner
=============================================================================
