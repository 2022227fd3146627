------------------------------- MODULE MCIcom -------------------------------
(***************************************************************************)
(* The stream from its first packet, and from shortly before its sequence  *)
(* numbers wrap: everything up to there sent, taken and no longer on the   *)
(* way but for the last packets.                                           *)
(***************************************************************************)
EXTENDS IcomStream

CONSTANTS Opening, Start, Last

MCSends == 0 .. Opening \cup Start .. Last

MCSpec ==
    /\ StreamInit \/ MidStream(Start)
    /\ [][StreamNext]_vars
    /\ WF_vars(RequestMissing)
=============================================================================
