------------------------------ MODULE Proposal ------------------------------
(***************************************************************************)
(* Block proposals: what CheckTx lets into the mempool and the two caches  *)
(* it fills, the block PrepareProposal builds (FilteredSquareBuilder), the *)
(* verdict of ProcessProposal, and FinalizeBlock on the accepted block.    *)
(* The ante chain is the part that reads and writes state: the fee, the    *)
(* sequence and the validator signatures of a pay-for-fibre transaction.   *)
(* Only pay-for-fibre messages are executed before FinalizeBlock.          *)
(***************************************************************************)
EXTENDS Integers, Sequences, FiniteSets, FiniteSetsExt

CONSTANTS
    Nodes,
    Txs,            \* records [id, kind, signer, seq, fee, size, wellFormed, promise, amount]
                    \* a promise is a record [id, signer, amount, height, expires]
    Signers,                    \* accounts that sign transactions and promises
    Funds, Escrow,              \* bank balance and escrow each of them starts with
    Requested, WithdrawAt,      \* withdrawal pending per account, and when it is due
    MaxTxBytes, MaxSquare,      \* block limits
    MaxSDKMessages, MaxPFBMessages, MaxPayForFibreMessages,
    HeightWindow,               \* PaymentPromiseHeightWindow
    HistoricalEntries,          \* heights the staking module remembers validator sets for
    MaxHeight, MaxPool, MaxProposal     \* bounds: blocks, mempool entries, other proposals

ASSUME ProposalAssumption ==
    /\ HeightWindow \in Nat /\ HistoricalEntries \in Nat
    /\ Nodes # {}
    /\ \A t \in Txs :
          /\ t.kind \in {"send", "timeout", "blob", "fibre"} /\ t.signer \in Signers
          /\ {t.seq, t.fee, t.size, t.amount} \subseteq Nat /\ t.wellFormed \in BOOLEAN
          /\ t.promise.signer \in Signers
          /\ {t.promise.amount, t.promise.height, t.promise.expires} \subseteq Nat
    /\ {Funds, Escrow, WithdrawAt, MaxSquare} \subseteq Nat
    /\ {MaxSDKMessages, MaxPFBMessages, MaxPayForFibreMessages} \subseteq Nat
    /\ Requested \in [Signers -> 0..Escrow]
    /\ MaxHeight \in Nat \ {0}

VARIABLES
    height,         \* of the last committed block
    state,          \* committed state [bank, seq, escrow, withdrawing, processed]
    mempool,        \* per node
    txCache,        \* per node: blob txs whose blobs CheckTx validated
    pffSigCache,    \* per node: fibre txs whose validator signatures were checked
    proposal,       \* the round's proposal [txs, square, own], or NoProposal
    verdict,        \* per node
    unpaid          \* history: data in a committed square whose tx failed

proposalVars == <<height, state, mempool, txCache, pffSigCache, proposal, verdict, unpaid>>

NoProposal == [own |-> FALSE, txs |-> <<>>, square |-> <<"none">>]

-----------------------------------------------------------------------------
(* The ante chain, on a state and with a node's signature cache            *)

\* validateValidatorSignatures needs the validator set of the promise's height.  Staking's
\* BeginBlock of block h records the set of h and deletes that of h - HistoricalEntries.
SignaturesVerify(t, h) ==
    1 <= t.promise.height /\ t.promise.height <= h /\ h - t.promise.height < HistoricalEntries

SigsOK(t, h, cache) == t.kind = "fibre" => t \in cache \/ SignaturesVerify(t, h)

DeductFee(st, t) == [st EXCEPT !.bank[t.signer] = @ - t.fee]

\* The state after the chain and whether it passed, with the history of block h; a failure
\* keeps the writes made so far.
AnteHandler(st, t, h, cache) ==
    IF st.bank[t.signer] < t.fee THEN [ok |-> FALSE, st |-> st]
    ELSE LET paid == DeductFee(st, t) IN
         IF st.seq[t.signer] = t.seq /\ SigsOK(t, h, cache)
           THEN [ok |-> TRUE, st |-> [paid EXCEPT !.seq[t.signer] = @ + 1]]
           ELSE [ok |-> FALSE, st |-> paid]

-----------------------------------------------------------------------------
(* Messages                                                                *)

\* deductPaymentFromEscrow: what the available balance cannot cover comes out of the
\* pending withdrawal, which never exceeds the balance left.
Debit(st, p) ==
    LET left == st.escrow[p.signer] - p.amount
        held == st.withdrawing[p.signer]
    IN  [st EXCEPT !.escrow[p.signer] = left,
                   !.withdrawing[p.signer] = IF held > left THEN left ELSE held,
                   !.processed = @ \cup {p}]

Settleable(st, p) == p \notin st.processed /\ st.escrow[p.signer] >= p.amount

PayForFibre_noWindow(st, p, h) ==
    IF Settleable(st, p) /\ h < p.expires
      THEN [ok |-> TRUE, st |-> Debit(st, p)] ELSE [ok |-> FALSE, st |-> st]

\* MsgPayForFibre, before the promise expires and within its height window.
PayForFibre(st, p, h) ==
    IF Settleable(st, p) /\ h < p.expires /\ h - p.height <= HeightWindow /\ p.height <= h + 1
      THEN [ok |-> TRUE, st |-> Debit(st, p)] ELSE [ok |-> FALSE, st |-> st]

PaymentPromiseTimeout(st, p, h) ==
    IF Settleable(st, p) /\ h >= p.expires
      THEN [ok |-> TRUE, st |-> Debit(st, p)] ELSE [ok |-> FALSE, st |-> st]

Send(st, t) ==
    IF st.bank[t.signer] >= t.amount
      THEN [ok |-> TRUE, st |-> [st EXCEPT !.bank[t.signer] = @ - t.amount]]
      ELSE [ok |-> FALSE, st |-> st]

ExecuteTxMsgs(st, t, h) ==
    CASE t.kind = "fibre"   -> PayForFibre(st, t.promise, h)
      [] t.kind = "timeout" -> PaymentPromiseTimeout(st, t.promise, h)
      [] t.kind = "send"    -> Send(st, t)
      [] t.kind = "blob"    -> [ok |-> TRUE, st |-> st]

-----------------------------------------------------------------------------
(* PrepareProposal                                                         *)

Normal == {"send", "timeout"}
IsNormal(t) == t.kind \in Normal
IsBlob(t) == t.kind = "blob"
IsFibre(t) == t.kind = "fibre"

SizeOf(txs) == SumFunctionOnSet([i \in DOMAIN txs |-> txs[i].size], DOMAIN txs)
Count(kinds, txs) == Cardinality({i \in DOMAIN txs : txs[i].kind \in kinds})

\* The positions of the transactions that are kept; one that would exceed maxTxBytes is
\* skipped.
FilterByMaxBytes(txs) ==
    LET total[i \in 0..Len(txs)] ==
            IF i = 0 THEN 0
            ELSE IF total[i - 1] + txs[i].size <= MaxTxBytes THEN total[i - 1] + txs[i].size
            ELSE total[i - 1]
    IN  {i \in DOMAIN txs : total[i - 1] + txs[i].size <= MaxTxBytes}

\* The positions of each kind among them.  A pay-for-fibre tx of the wrong shape or with an
\* invalid promise is dropped here.
SeparateTxs(txs) ==
    LET filtered == FilterByMaxBytes(txs) IN
    [normal |-> {i \in filtered : IsNormal(txs[i])},
     blob   |-> {i \in filtered : IsBlob(txs[i])},
     fibre  |-> {i \in filtered : IsFibre(txs[i]) /\ txs[i].wellFormed}]

\* AppendTx, AppendBlobTx and AppendFibreTx refuse what the square has no room for.
Fits(square, t) == SizeOf(square) + t.size <= MaxSquare

\* One step of Fill for a normal or a blob tx: the builder first, then the ante handler on
\* the shared state, which no BeginBlock has touched; a tx that fails is taken out of the
\* square, its writes stay.
FillTx(b, t, h, max, kinds) ==
    IF Count(kinds, b.kept) + 1 > max \/ ~Fits(b.square, t) THEN b
    ELSE LET r == AnteHandler(b.st, t, h - 1, b.cache) IN
         IF r.ok THEN [st |-> r.st, square |-> Append(b.square, t), kept |-> Append(b.kept, t),
                       cache |-> b.cache]
                 ELSE [b EXCEPT !.st = r.st]

FillFibreTx_anteOnly(b, t, h) == FillTx(b, t, h, MaxPayForFibreMessages, {"fibre"})

\* A pay-for-fibre tx runs on a branch that is committed only when its promise settles.
FillFibreTx(b, t, h) ==
    IF Count({"fibre"}, b.kept) + 1 > MaxPayForFibreMessages \/ ~Fits(b.square, t) THEN b
    ELSE LET r == AnteHandler(b.st, t, h - 1, b.cache)
             e == ExecuteTxMsgs(r.st, t, h)
             checked == IF r.ok THEN b.cache \cup {t} ELSE b.cache
         IN IF r.ok /\ e.ok
              THEN [st |-> e.st, square |-> Append(b.square, t), kept |-> Append(b.kept, t),
                    cache |-> checked]
              ELSE [b EXCEPT !.cache = checked]

FillOne(b, t, h) ==
    CASE IsNormal(t) -> FillTx(b, t, h, MaxSDKMessages, Normal)
      [] IsBlob(t)   -> FillTx(b, t, h, MaxPFBMessages, {"blob"})
      [] IsFibre(t)  -> FillFibreTx(b, t, h)

\* One of Fill's loops, over the transactions at these positions.
FillLoop(b0, txs, positions, h) ==
    LET b[i \in 0..Len(txs)] ==
            IF i = 0 THEN b0
            ELSE IF i \in positions THEN FillOne(b[i - 1], txs[i], h)
            ELSE b[i - 1]
    IN  b[Len(txs)]

Fill(txs, h, cache) ==
    LET sep == SeparateTxs(txs)
        b0 == [st |-> state, square |-> <<>>, kept |-> <<>>, cache |-> cache]
        b1 == FillLoop(b0, txs, sep.normal, h)
        b2 == FillLoop(b1, txs, sep.blob, h)
    IN  FillLoop(b2, txs, sep.fibre, h)

-----------------------------------------------------------------------------
(* ProcessProposal                                                         *)

\* A cached blob tx skips the commitment check, the rest of its validation is repeated.
ValidateBlobTxWithCache(t, cache) == t \in cache \/ t.wellFormed

CountsOK(txs) ==
    /\ Count(Normal, txs) <= MaxSDKMessages
    /\ Count({"blob"}, txs) <= MaxPFBMessages
    /\ Count({"fibre"}, txs) <= MaxPayForFibreMessages

ProcessTx_anteOnly(v, t, h, blobs) ==
    LET r == AnteHandler(v.st, t, h - 1, v.cache) IN
    [v EXCEPT !.ok = @ /\ r.ok /\ t.wellFormed /\ CountsOK(Append(v.txs, t)),
              !.st = r.st, !.txs = Append(@, t)]

\* One iteration of the handler's loop.
ProcessTx(v, t, h, blobs) ==
    IF \/ ~v.ok
       \/ ~CountsOK(Append(v.txs, t))
       \/ IsBlob(t) /\ ~ValidateBlobTxWithCache(t, blobs)
       \/ IsFibre(t) /\ ~t.wellFormed
      THEN [v EXCEPT !.ok = FALSE]
    ELSE LET r == AnteHandler(v.st, t, h - 1, v.cache)
             e == IF IsFibre(t) THEN ExecuteTxMsgs(r.st, t, h) ELSE r
         IN [ok |-> r.ok /\ e.ok, st |-> e.st, txs |-> Append(v.txs, t),
             cache |-> IF r.ok /\ IsFibre(t) THEN v.cache \cup {t} ELSE v.cache]

\* squarev4.Construct: normal, blob and fibre txs in this order, in a square that fits.
Rank(t) == IF IsNormal(t) THEN 1 ELSE IF IsBlob(t) THEN 2 ELSE 3
Constructible(txs) ==
    /\ \A i, j \in DOMAIN txs : i < j => Rank(txs[i]) <= Rank(txs[j])
    /\ SizeOf(txs) <= MaxSquare

ProcessTxs(st, txs, h, blobs, cache) ==
    LET v[i \in 0..Len(txs)] ==
            IF i = 0 THEN [ok |-> TRUE, st |-> st, txs |-> <<>>, cache |-> cache]
            ELSE ProcessTx(v[i - 1], txs[i], h, blobs)
    IN  v[Len(txs)]

-----------------------------------------------------------------------------
(* Actions                                                                 *)

\* A new tx reaches a node.  Blobs are validated and cached before the ante handler runs;
\* whether that admits the tx depends on a check state that is left open here.
CheckTx(n, t) ==
    /\ t \notin mempool[n] /\ t.wellFormed
    /\ FoldFunction(LAMBDA pool, k : Cardinality(pool) + k, 0, mempool) < MaxPool
    /\ height < MaxHeight
    /\ SigsOK(t, height, pffSigCache[n])
    /\ txCache' = [txCache EXCEPT ![n] = IF IsBlob(t) THEN @ \cup {t} ELSE @]
    /\ pffSigCache' = [pffSigCache EXCEPT ![n] = IF IsFibre(t) THEN @ \cup {t} ELSE @]
    /\ \/ mempool' = [mempool EXCEPT ![n] = @ \cup {t}]
       \/ IsBlob(t) /\ t \notin txCache[n] /\ UNCHANGED mempool
    /\ UNCHANGED <<height, state, proposal, verdict, unpaid>>

PrepareProposal(n) ==
    /\ proposal = NoProposal /\ height < MaxHeight
    /\ \E order \in Bijection(1..Cardinality(mempool[n]), mempool[n]) :
          LET b == Fill(order, height + 1, pffSigCache[n]) IN
          /\ proposal' = [own |-> TRUE, txs |-> b.kept, square |-> b.square]
          /\ pffSigCache' = [pffSigCache EXCEPT ![n] = b.cache]
    /\ UNCHANGED <<height, state, mempool, txCache, verdict, unpaid>>

\* A proposal another implementation built: any transactions, over a square of its own.
OtherProposal ==
    /\ proposal = NoProposal /\ height < MaxHeight
    /\ \E txs \in UNION {[1..k -> Txs] : k \in 1..MaxProposal} :
          proposal' = [own |-> FALSE, txs |-> txs, square |-> txs]
    /\ UNCHANGED <<height, state, mempool, txCache, pffSigCache, verdict, unpaid>>

ProcessProposal(n) ==
    /\ proposal # NoProposal /\ verdict[n] = "none"
    /\ LET v == ProcessTxs(state, proposal.txs, height + 1, txCache[n], pffSigCache[n])
           ok == /\ v.ok
                 /\ Constructible(proposal.txs)
                 /\ proposal.square = proposal.txs      \* size and data root
       IN /\ verdict' = [verdict EXCEPT ![n] = IF ok THEN "accept" ELSE "reject"]
          /\ pffSigCache' = [pffSigCache EXCEPT ![n] = v.cache]
    /\ UNCHANGED <<height, state, mempool, txCache, proposal, unpaid>>

NewRound ==
    /\ \E n \in Nodes : verdict[n] = "reject"
    /\ \A n \in Nodes : verdict[n] # "none"
    /\ proposal' = NoProposal
    /\ verdict' = [n \in Nodes |-> "none"]
    /\ UNCHANGED <<height, state, mempool, txCache, pffSigCache, unpaid>>

\* The fibre BeginBlocker pays the withdrawals that have become available.
BeginBlock(st, h) ==
    IF h < WithdrawAt THEN st
    ELSE [st EXCEPT !.escrow = [a \in Signers |-> st.escrow[a] - st.withdrawing[a]],
                    !.withdrawing = [a \in Signers |-> 0]]

\* baseapp runs a tx on branches: a failing ante leaves nothing, failing messages only
\* what the ante wrote.
DeliverTx(d, t, h, cache) ==
    LET r == AnteHandler(d.st, t, h, cache)
        e == ExecuteTxMsgs(r.st, t, h)
    IN IF ~r.ok THEN [d EXCEPT !.failed = @ \cup {t}]
       ELSE IF ~e.ok THEN [st |-> r.st, failed |-> d.failed \cup {t}]
       ELSE [d EXCEPT !.st = e.st]

\* The block on a node with this signature cache; it is empty on a node that syncs.
Deliver(txs, h, cache) ==
    LET d[i \in 0..Len(txs)] ==
            IF i = 0 THEN [st |-> BeginBlock(state, h), failed |-> {}]
            ELSE DeliverTx(d[i - 1], txs[i], h, cache)
    IN  d[Len(txs)]

\* Whether a message that only FinalizeBlock runs took funds of t's payers in this block.
Drained(t, txs, h) ==
    \/ \E i \in DOMAIN txs : txs[i].kind = "send" /\ txs[i].signer = t.signer
    \/ /\ IsFibre(t)
       /\ \/ \E i \in DOMAIN txs : /\ txs[i].kind = "timeout"
                                   /\ txs[i].promise.signer = t.promise.signer
          \/ h >= WithdrawAt /\ state.withdrawing[t.promise.signer] > 0

\* FinalizeBlock and Commit on all nodes, whose vote left the signatures of the block in
\* their caches; the block's txs leave caches and mempools, and rechecking may drop others.
FinalizeBlock ==
    /\ \A n \in Nodes : verdict[n] = "accept"
    /\ \E n \in Nodes :
       LET h == height + 1
           d == Deliver(proposal.txs, h, pffSigCache[n])
           block == {proposal.txs[i] : i \in DOMAIN proposal.txs}
       IN /\ height' = h
          /\ state' = d.st
          /\ unpaid' = {[tx |-> t, drained |-> Drained(t, proposal.txs, h)] :
                            t \in {x \in d.failed : ~IsNormal(x)}}
          /\ txCache' = [m \in Nodes |-> txCache[m] \ block]
          /\ pffSigCache' = [m \in Nodes |-> pffSigCache[m] \ block]
          /\ \E dropped \in {{}, UNION {mempool[m] : m \in Nodes}} :
                mempool' = [m \in Nodes |-> mempool[m] \ (block \cup dropped)]
    /\ proposal' = NoProposal
    /\ verdict' = [m \in Nodes |-> "none"]

\* A chain after its first block.
ProposalInit ==
    /\ height = 1
    /\ state = [bank |-> [a \in Signers |-> Funds], seq |-> [a \in Signers |-> 0],
                escrow |-> [a \in Signers |-> Escrow], processed |-> {},
                withdrawing |-> Requested]
    /\ mempool = [n \in Nodes |-> {}]
    /\ txCache = [n \in Nodes |-> {}] /\ pffSigCache = [n \in Nodes |-> {}]
    /\ proposal = NoProposal /\ verdict = [n \in Nodes |-> "none"]
    /\ unpaid = {}

ProposalNext ==
    \/ \E n \in Nodes : \/ \E t \in Txs : CheckTx(n, t)
                        \/ PrepareProposal(n)
                        \/ ProcessProposal(n)
    \/ OtherProposal
    \/ NewRound
    \/ FinalizeBlock

ProposalSpec == ProposalInit /\ [][ProposalNext]_proposalVars
-----------------------------------------------------------------------------
(* Properties                                                              *)

ProposalTypeOK ==
    /\ height \in 1..MaxHeight
    /\ \A a \in Signers : state.bank[a] \in 0..Funds /\ state.escrow[a] \in state.withdrawing[a]..Escrow
    /\ verdict \in [Nodes -> {"none", "accept", "reject"}]
    /\ \A n \in Nodes : pffSigCache[n] \cup txCache[n] \cup mempool[n] \subseteq Txs

\* No fibre tx of the block has a promise older than the history of block h.
Remembered(txs, h) ==
    \A i \in DOMAIN txs : IsFibre(txs[i]) => h - txs[i].promise.height < HistoricalEntries

\* "a proposer never builds a block its own ProcessProposal would reject" (separateTxs), nor
\* one that another node rejects, whatever passed each node's mempool before: transactions
\* dropped by Fill leave writes behind that those after it were checked against.  A window
\* longer than the history could let a cached signature outlive the validator set it needs.
OwnProposalAccepted ==
    /\ ProposalTypeOK
    /\ proposal.own /\ (HeightWindow <= HistoricalEntries \/ Remembered(proposal.txs, height)) =>
          \A n \in Nodes : verdict[n] # "reject"

\* Nodes give any proposal the same verdict, and the accepted block leaves them, and a node
\* that syncs it later, in the same state: their caches let them skip the blob commitment
\* and the validator signatures, which only an older state may have vouched for.  The verdict
\* needs a history as long as the height window; FinalizeBlock, whose BeginBlock forgets one
\* height more, needs a longer one.
VerdictsAgree ==
    /\ HeightWindow <= HistoricalEntries \/ Remembered(proposal.txs, height) =>
          \A m, n \in Nodes : "none" \in {verdict[m], verdict[n]} \/ verdict[m] = verdict[n]
    /\ /\ \A n \in Nodes : verdict[n] = "accept"
       /\ HeightWindow < HistoricalEntries \/ Remembered(proposal.txs, height + 1)
       => \A n \in Nodes : Deliver(proposal.txs, height + 1, pffSigCache[n])
                             = Deliver(proposal.txs, height + 1, {})

\* A node that syncs an accepted block, without the signatures its voters have cached, ends
\* in the state they reached, whatever the parameters ("pffSigCache skips repeat PFF
\* signature checks across ante passes", app.go).
SyncedStateAgrees ==
    (\A n \in Nodes : verdict[n] = "accept") =>
        \A n \in Nodes : Deliver(proposal.txs, height + 1, pffSigCache[n])
                           = Deliver(proposal.txs, height + 1, {})

\* Data in the square of a committed block is paid for, unless a message that is executed
\* in FinalizeBlock only took the payer's funds in that same block.
PaidUnlessDrained == \A u \in unpaid : u.drained

\* "A promise that cannot settle [...] would commit its blob to the square without payment
\* in FinalizeBlock, so drop the tx" (processFibreTxsForSquare).
AcceptedFibreSettles == \A u \in unpaid : ~IsFibre(u.tx)
=============================================================================
