------------------------------ MODULE MCProposal ----------------------------
EXTENDS Proposal, TLC

P1 == [id |-> 1, signer |-> "a", amount |-> 2, height |-> 1, expires |-> 4]
P2 == [id |-> 2, signer |-> "a", amount |-> 1, height |-> 1, expires |-> 2]

Tx(id, kind, signer, seq, size, ok, p) ==
    [id |-> id, kind |-> kind, signer |-> signer, seq |-> seq, fee |-> 1, size |-> size,
     wellFormed |-> ok, promise |-> p, amount |-> 1]

\* A transfer, a blob that pays from the same account next, one with a wrong commitment,
\* two settlements of one promise, and the timeout of another promise of the same escrow.
MCTxs ==
    {Tx(1, "send", "a", 0, 1, TRUE, P1),
     Tx(2, "blob", "a", 1, 2, TRUE, P1),
     Tx(3, "blob", "a", 0, 1, FALSE, P1),
     Tx(4, "fibre", "a", 0, 1, TRUE, P1),
     Tx(5, "fibre", "b", 0, 3, TRUE, P1),
     Tx(6, "timeout", "b", 0, 2, TRUE, P2)}

MCRequested == [a |-> 1, b |-> 0]
MCSymmetry == Permutations(Nodes)
=============================================================================
