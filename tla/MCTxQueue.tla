----------------------------- MODULE MCTxQueue ------------------------------
(***************************************************************************)
(* TxQueue for TLC: two accounts of the user and two helper workers, whose *)
(* names come before and after those of the user in keyring order.         *)
(***************************************************************************)
EXTENDS TxQueue

WorkersAround == [w \in {1, 2} |-> 5 * w - 1]

\* Every way to name an account of the user, or none.
AllOptions ==
    {[named |-> "no", account |-> 0]}
        \cup [named : {"account", "address"}, account : Owned]
=============================================================================
