------------------------------ MODULE MCSignal ------------------------------
(***************************************************************************)
(* Signal for TLC: two validators whose powers make the threshold exact    *)
(* (5 of 6) and round (4 of 5), and versions for two upgrades in a row.    *)
(***************************************************************************)
EXTENDS Signal
=============================================================================
