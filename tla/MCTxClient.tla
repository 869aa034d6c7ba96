----------------------------- MODULE MCTxClient -----------------------------
(***************************************************************************)
(* TxClient for TLC, over a well-behaved node and over one with all faults.*)
(***************************************************************************)
EXTENDS TxClient

NoneOrAll == {{}, {"lost", "refuse", "cancel", "prune", "evict"}}

OnlyEvictions == {{"evict"}}
=============================================================================
