----------------------------- MODULE MCStation -----------------------------
(***************************************************************************)
(* Two or three engines and one contact, which is at once an antenna relay *)
(* and a filter of the band decoder.  What may happen is chosen per run.   *)
(***************************************************************************)
EXTENDS Station, TLC

CONSTANTS r1, r2, r3, c1, b1, b2

\* Radios other than the primary differ in nothing, and no more do bands,
\* where no sense line and no reconfiguring engine singles one out.
Sym == Permutations({r2, r3}) \cup Permutations({b1, b2})
=============================================================================
