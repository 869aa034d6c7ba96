--------------------------- MODULE MCFibreEscrow ---------------------------
(***************************************************************************)
(* A small chain: clock skew 1, timeouts 1..2, withdrawal delays 3..5.     *)
(***************************************************************************)
EXTENDS FibreEscrow

Promise(id, s, c, h, a) ==
    [id |-> id, signer |-> s, creation |-> c, height |-> h, amount |-> a]

Param(delay, timeout, window) ==
    [WithdrawalDelay |-> delay, PaymentPromiseTimeout |-> timeout,
     PaymentPromiseHeightWindow |-> window]

\* Two promises of the first owner: one dated when a block may settle it, one ahead.
MCPromises == {Promise(1, 1, 12, 1, 1), Promise(2, 1, 13, 2, 2)}

\* The last two are rejected: a delay below the minimum and a window of zero.
MCParams == {Param(3, 2, 1), Param(5, 1, 2), Param(2, 1, 2), Param(3, 1, 0)}

\* A height window that does not fit an int64.
WideWindowParams == {Param(3, 2, 9)}
============================================================================
