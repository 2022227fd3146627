------------------------------ MODULE MCRelay ------------------------------
(***************************************************************************)
(* One bank: an antenna relay wired fail-safe (transmit is de-energised),  *)
(* an amplifier's key line and one contact of a band decoder.              *)
(***************************************************************************)
EXTENDS RelayWorker, TLC

CONSTANTS ant, amp, fil, b1, b2

Timing(a, k, f) == ant :> a @@ amp :> k @@ fil :> f

\* The receive word leaves the filter in on b2 only, the transmit word on b1.
Bank(inverted, lead, hold) ==
    [managed |-> {ant, amp, fil}, decoder |-> {fil}, inverted |-> inverted,
     lead |-> lead, hold |-> hold,
     rxWord |-> b1 :> {} @@ b2 :> {fil}, txWord |-> b1 :> {fil} @@ b2 :> {}]

\* Every lead is longer than what the worker may be busy with when it is
\* keyed, and the amplifier's contact is due well after the antenna's write.
MCSpaced == {Bank({ant}, Timing(5, 2, 5), Timing(2, 0, 2))}

\* The shape of the default timings on a 9600-baud board: the amplifier's
\* contact falls due while the antenna's is still being written.
MCDefault == {Bank({ant}, Timing(4, 3, 4), Timing(2, 0, 2))}

\* The overs of the first bank are ones whose theorems apply; of what those ask,
\* the second lacks the spacing of its contacts alone.
ASSUME SpacedAssumption ==
    /\ Config = MCSpaced => Timely
    /\ Config = MCDefault => ~Spaced /\ LeadsSuffice /\ FiltersFirst

\* The same order of events in fewer ticks, where what is asked does not turn
\* on how long anything takes.
MCShort == {Bank({ant}, Timing(2, 1, 2), Timing(1, 0, 1))}
=============================================================================
