------------------------------- MODULE MCBridge -----------------------------
(***************************************************************************)
(* One warp token, a hook that charges in its denom and one that does not. *)
(***************************************************************************)
EXTENDS Bridge

MCHookDenom == [igp |-> "tia", alt |-> "usd"]
MCOwnerFunds == [tia |-> 2, usd |-> 1]
MCRelayerFunds == [tia |-> 1, usd |-> 1]
=============================================================================
