--------------------------- MODULE MCMultiplexer ----------------------------
(***************************************************************************)
(* Multiplexer for TLC: three embedded versions, the first of them on ABCI *)
(* v1, the native application as version 6, and up to three blocks.        *)
(***************************************************************************)
EXTENDS Multiplexer

\* All ways to go up from a first version.
AnySchedule == {s \in [0..3 -> 3..6] : \A h \in 1..3 : s[h] >= s[h - 1]}
=============================================================================
