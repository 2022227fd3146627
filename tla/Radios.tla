------------------------------ MODULE Radios ------------------------------
(***************************************************************************)
(* The radios of a station.  Every engine of the process runs one, and the *)
(* objects the engines share know a radio by its engine's instance number. *)
(***************************************************************************)
CONSTANTS
    Radio,
    NoRadio     \* Option::None of a radio id; the word 0 in the gate

ASSUME RadioAssumption == NoRadio \notin Radio
=============================================================================
