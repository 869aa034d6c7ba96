------------------------ MODULE MCFibrePromiseCache ------------------------
(***************************************************************************)
(* One validator and one escrow owner; the unit of time is the clock skew. *)
(***************************************************************************)
EXTENDS FibrePromiseCache

Promise(id, c, a) ==
    [id |-> id, signer |-> 1, creation |-> c, height |-> 1, amount |-> a]

\* Promises far enough apart for eviction to strike between them.
MCPromises == {Promise(1, 12, 1), Promise(2, 15, 2), Promise(3, 19, 1)}

\* Three promises of one moment against an escrow that covers two.
AdmissionPromises == {Promise(1, 12, 1), Promise(2, 12, 1), Promise(3, 12, 1)}

MCParams == {[WithdrawalDelay |-> d, PaymentPromiseTimeout |-> 1,
              PaymentPromiseHeightWindow |-> 7] : d \in {2, 4}}
============================================================================
