------------------------------ MODULE TxClient ------------------------------
(***************************************************************************)
(* pkg/user's TxClient: goroutines that share one client and one account   *)
(* broadcast transactions and wait for their confirmation.  The client     *)
(* keeps its own count of the account's sequence, corrects it when the     *)
(* node reports a mismatch, and rewinds it when a transaction is rejected. *)
(*                                                                         *)
(* BroadcastTx and BroadcastPayForBlob hold client.mtx from end to end;    *)
(* ConfirmTx takes it only around its accesses to txTracker, so it sets    *)
(* account.sequence without it.  Every access to the shared account and    *)
(* every call to the node is a step of its own.                            *)
(*                                                                         *)
(* The node is external: a mempool whose check state counts the account's  *)
(* sequence, and blocks that commit a prefix of it and recheck the rest.   *)
(***************************************************************************)
EXTENDS Integers, Sequences, Functions

CONSTANTS
    Callers,        \* goroutines using the client
    Rounds,         \* messages each of them submits
    ConnCounts,     \* how many endpoints a client may be configured with
    FaultSets,      \* what may go wrong: sets of "lost", "refuse", "cancel",
                    \*   "prune" and "evict"
    MaxEvictions    \* bound on the evictions explored

ASSUME ClientAssumption ==
    /\ Rounds \in Nat /\ MaxEvictions \in Nat
    /\ ConnCounts \subseteq Nat \ {0}
    /\ \A f \in FaultSets : f \subseteq {"lost", "refuse", "cancel", "prune", "evict"}
    /\ "free" \notin Callers

VARIABLES
    faults,         \* what may go wrong in this behaviour
    conns,          \* len(client.conns)
    sequence,       \* account.sequence, the client's view
    mtx,            \* the holder of client.mtx, or "free"
    txTracker,      \* tracked transactions, oldest first: [tx, sequence]
    pc,             \* where each caller is
    round,          \* how many messages each caller has submitted
    tx,             \* the transaction each caller is working on
    reg,            \* a value a caller read and has still to write
    evicting,       \* whether evictionPollTimeStart is set
    result,         \* what a message's submitter was told
    chainSeq,       \* node: the account's committed sequence
    checkSeq,       \* node: its sequence in the check state
    mempool,        \* node: accepted transactions in order
    committed,      \* node: committed transactions in order
    evicted,        \* node: transactions thrown out of the mempool
    rejected,       \* node: transactions that failed a recheck
    evictions       \* history: how many evictions there have been

sharedVars == <<faults, conns, sequence, txTracker>>
callerVars == <<round, tx, reg, evicting, result>>
nodeVars == <<chainSeq, checkSeq, mempool, committed, evicted, rejected, evictions>>
vars == <<faults, conns, sequence, mtx, txTracker, pc, callerVars, nodeVars>>

Messages == Callers \X (1..Rounds)

\* A transaction: its message, the sequence it names, and the sequence its
\* signature was made for.
Tx == [msg : Messages, seq : Nat, signedFor : Nat]

NoTx == [msg |-> <<>>, seq |-> 0, signedFor |-> 0]

Current(c) == <<c, round[c]>>

\* The mutex is taken and released within the step.
LockFree == mtx = "free"

Goto(c, l) == pc' = [pc EXCEPT ![c] = l]

Tell(m, r) == result' = [result EXCEPT ![m] = r]

\* A sequence without its i-th element.
Without(s, i) == SubSeq(s, 1, i - 1) \o SubSeq(s, i + 1, Len(s))

-----------------------------------------------------------------------------
(* The tracker                                                             *)

Tracked(t) == {i \in DOMAIN txTracker : txTracker[i].tx = t}

deleteFromTxTracker(t) ==
    IF Tracked(t) = {} THEN txTracker
    ELSE Without(txTracker, CHOOSE i \in Tracked(t) : TRUE)

\* Whatever is older than ten minutes goes: a prefix of the tracker.
pruneTxTracker ==
    \E n \in IF "prune" \in faults THEN 0..Len(txTracker) ELSE {0} :
        txTracker' = SubSeq(txTracker, n + 1, Len(txTracker))

-----------------------------------------------------------------------------
(* Broadcasting, under client.mtx                                          *)

\* BroadcastTx takes the lock; without a gas limit it estimates gas first.
BroadcastTx(c) ==
    /\ pc[c] = "idle" /\ round[c] < Rounds
    /\ LockFree /\ mtx' = c
    /\ pruneTxTracker
    /\ round' = [round EXCEPT ![c] = @ + 1]
    /\ \/ Goto(c, "estimate")
       \/ Goto(c, "sign")
    /\ UNCHANGED <<faults, conns, sequence, tx, reg, evicting, result, nodeVars>>

\* The caller's deferred Unlock, and the error it gets.
FailBroadcast(c) ==
    /\ mtx' = "free"
    /\ Goto(c, "idle")
    /\ Tell(Current(c), "broadcast failed")

\* Estimation simulates against the check state; a mismatch is corrected
\* and the estimation repeated.
handleSequenceMismatch(c) ==
    /\ sequence # checkSeq
    /\ sequence' = checkSeq
    /\ UNCHANGED <<mtx, pc, result>>

estimateGas(c) ==
    /\ pc[c] = "estimate"
    /\ \/ handleSequenceMismatch(c)
       \/ /\ sequence = checkSeq
          /\ Goto(c, "sign")
          /\ UNCHANGED <<sequence, mtx, result>>
       \/ /\ "refuse" \in faults
          /\ FailBroadcast(c)
          /\ UNCHANGED sequence
    /\ UNCHANGED <<faults, conns, txTracker, round, tx, reg, evicting, nodeVars>>

\* signTransaction reads account.sequence for the draft it signs ...
signTransaction(c) ==
    /\ pc[c] = "sign"
    /\ reg' = [reg EXCEPT ![c] = sequence]
    /\ Goto(c, "set signatures")
    /\ UNCHANGED <<sharedVars, mtx, round, tx, evicting, result, nodeVars>>

\* ... and again for the transaction that carries the signature.
SetSignatures(c) ==
    /\ pc[c] = "set signatures"
    /\ tx' = [tx EXCEPT ![c] = [msg |-> Current(c), seq |-> sequence, signedFor |-> reg[c]]]
    /\ Goto(c, "send")
    /\ UNCHANGED <<sharedVars, mtx, round, reg, evicting, result, nodeVars>>

\* CheckTx of the node: the sequence must be the next one, the signature good.
CheckTx(t) == t.seq = checkSeq /\ t.seq = t.signedFor

AddToMempool(t) ==
    /\ mempool' = Append(mempool, t)
    /\ checkSeq' = checkSeq + 1
    /\ evicted' = evicted \ {t}
    /\ UNCHANGED <<chainSeq, committed, rejected, evictions>>

resignTransactionWithNewSequence_sameSequence(c) ==
    /\ Goto(c, "sign")
    /\ UNCHANGED <<sequence, mtx, result>>

\* A single connection corrects a mismatch and signs again.
resignTransactionWithNewSequence(c) ==
    /\ sequence' = checkSeq
    /\ Goto(c, "sign")
    /\ UNCHANGED <<mtx, result>>

Sent(c) ==
    /\ Goto(c, "track")
    /\ UNCHANGED <<sequence, mtx, result>>

routeTx_retryLost(c) ==
    /\ pc[c] = "send"
    /\ \/ /\ CheckTx(tx[c])
          /\ AddToMempool(tx[c])
          /\ \/ Sent(c)
             \/ "lost" \in faults /\ Goto(c, "sign") /\ UNCHANGED <<sequence, mtx, result>>
       \/ /\ ~CheckTx(tx[c])
          /\ resignTransactionWithNewSequence(c)
          /\ UNCHANGED nodeVars
    /\ UNCHANGED <<faults, conns, txTracker, round, tx, reg, evicting>>

\* submitToSingleConnection and submitToMultipleConnections up to the answer:
\* only the former retries a sequence mismatch.  The answer may be lost.
routeTx(c) ==
    /\ pc[c] = "send"
    /\ \/ /\ CheckTx(tx[c])
          /\ AddToMempool(tx[c])
          /\ \/ Sent(c)
             \/ "lost" \in faults /\ FailBroadcast(c) /\ UNCHANGED sequence
       \/ /\ tx[c].seq # checkSeq
          /\ conns = 1
          /\ resignTransactionWithNewSequence(c)
          /\ UNCHANGED nodeVars
       \/ /\ \/ tx[c].seq # checkSeq /\ conns > 1
             \/ tx[c].seq = checkSeq /\ tx[c].signedFor # checkSeq
             \/ "refuse" \in faults
          /\ FailBroadcast(c)
          /\ UNCHANGED <<sequence, nodeVars>>
    /\ UNCHANGED <<faults, conns, txTracker, round, tx, reg, evicting>>

trackTransaction_incremented(c) ==
    /\ pc[c] = "track"
    /\ txTracker' = Append(txTracker, [tx |-> tx[c], sequence |-> sequence + 1])
    /\ Goto(c, "increment")
    /\ UNCHANGED <<faults, conns, sequence, mtx, callerVars, nodeVars>>

\* trackTransaction reads the sequence from the account, not from the bytes.
trackTransaction(c) ==
    /\ pc[c] = "track"
    /\ txTracker' = Append(txTracker, [tx |-> tx[c], sequence |-> sequence])
    /\ Goto(c, "increment")
    /\ UNCHANGED <<faults, conns, sequence, mtx, callerVars, nodeVars>>

\* acc.sequence++ is a read and a write.
IncrementSequence(c) ==
    /\ pc[c] = "increment"
    /\ reg' = [reg EXCEPT ![c] = sequence]
    /\ Goto(c, "store")
    /\ UNCHANGED <<sharedVars, mtx, round, tx, evicting, result, nodeVars>>

\* The end of a broadcast.  SubmitTx goes on to ConfirmTx, BroadcastTx returns.
Broadcasted(c) ==
    /\ pc[c] = "store"
    /\ sequence' = reg[c] + 1
    /\ mtx' = "free"
    /\ evicting' = [evicting EXCEPT ![c] = FALSE]
    /\ \/ Goto(c, "poll") /\ UNCHANGED result
       \/ Goto(c, "idle") /\ Tell(Current(c), "broadcast")
    /\ UNCHANGED <<faults, conns, txTracker, round, tx, reg, nodeVars>>

-----------------------------------------------------------------------------
(* ConfirmTx                                                               *)

TxStatus(t) ==
    CASE t \in Range(committed) -> "COMMITTED"
      [] t \in Range(mempool) -> "PENDING"
      [] t \in evicted -> "EVICTED"
      [] t \in rejected -> "REJECTED"
      [] OTHER -> "UNKNOWN"

\* The eviction timer is looked at before the status.
evictionPollTimeOut(c) ==
    /\ pc[c] = "poll" /\ evicting[c]
    /\ Goto(c, "idle") /\ Tell(Current(c), "eviction timeout")
    /\ UNCHANGED <<sharedVars, mtx, round, tx, reg, evicting, nodeVars>>

ConfirmTx_pending(c) ==
    /\ pc[c] = "poll"
    /\ TxStatus(tx[c]) \in {"COMMITTED", "PENDING"}
    /\ Goto(c, "forget") /\ Tell(Current(c), "confirmed")
    /\ UNCHANGED <<sharedVars, mtx, round, tx, reg, evicting, nodeVars>>

\* One turn of the loop up to the switch on the status.  A pending
\* transaction is polled again.
ConfirmTx(c) ==
    /\ pc[c] = "poll"
    /\ \/ "cancel" \in faults /\ Goto(c, "idle") /\ Tell(Current(c), "cancelled")
       \/ /\ TxStatus(tx[c]) = "COMMITTED"
          /\ Goto(c, "forget") /\ Tell(Current(c), "confirmed")
       \/ /\ TxStatus(tx[c]) = "UNKNOWN"
          /\ Goto(c, "forget") /\ Tell(Current(c), "not found")
       \/ /\ TxStatus(tx[c]) = "EVICTED"
          /\ Goto(c, "evicted") /\ UNCHANGED result
       \/ /\ TxStatus(tx[c]) = "REJECTED"
          /\ Goto(c, "rejected") /\ UNCHANGED result
    /\ UNCHANGED <<sharedVars, mtx, round, tx, reg, evicting, nodeVars>>

\* GetTxFromTxTracker for an evicted transaction.
Evicted(c) ==
    /\ pc[c] = "evicted"
    /\ LockFree
    /\ \/ Tracked(tx[c]) = {} /\ Goto(c, "idle") /\ Tell(Current(c), "not tracked")
       \/ /\ Tracked(tx[c]) # {}
          /\ Goto(c, IF evicting[c] THEN "poll" ELSE "resend")
          /\ UNCHANGED result
    /\ UNCHANGED <<sharedVars, mtx, round, tx, reg, evicting, nodeVars>>

\* The same bytes are sent again; a refusal starts the eviction timer.
Resubmit(c) ==
    /\ pc[c] = "resend"
    /\ \/ /\ CheckTx(tx[c])
          /\ AddToMempool(tx[c])
          /\ \/ Goto(c, "poll") /\ UNCHANGED result
             \/ "lost" \in faults /\ Goto(c, "idle") /\ Tell(Current(c), "resubmission failed")
          /\ UNCHANGED evicting
       \/ /\ ~CheckTx(tx[c]) \/ "refuse" \in faults
          /\ evicting' = [evicting EXCEPT ![c] = TRUE]
          /\ Goto(c, "poll")
          /\ UNCHANGED <<result, nodeVars>>
    /\ UNCHANGED <<sharedVars, mtx, round, tx, reg>>

\* GetTxFromTxTracker for a rejected transaction.
Rejected(c) ==
    /\ pc[c] = "rejected"
    /\ LockFree
    /\ \/ /\ Tracked(tx[c]) = {} /\ Goto(c, "idle") /\ Tell(Current(c), "not tracked")
          /\ UNCHANGED reg
       \/ \E i \in Tracked(tx[c]) :
             /\ reg' = [reg EXCEPT ![c] = txTracker[i].sequence]
             /\ Goto(c, "rewind")
             /\ UNCHANGED result
    /\ UNCHANGED <<sharedVars, mtx, round, tx, evicting, nodeVars>>

\* SetSequence to the rejected transaction's, whoever holds the lock.
Rewind(c) ==
    /\ pc[c] = "rewind"
    /\ sequence' = reg[c]
    /\ Goto(c, "forget") /\ Tell(Current(c), "rejected")
    /\ UNCHANGED <<faults, conns, mtx, txTracker, round, tx, reg, evicting, nodeVars>>

Forget(c) ==
    /\ pc[c] = "forget"
    /\ LockFree
    /\ txTracker' = deleteFromTxTracker(tx[c])
    /\ Goto(c, "idle")
    /\ UNCHANGED <<faults, conns, sequence, mtx, callerVars, nodeVars>>

-----------------------------------------------------------------------------
(* The node                                                                *)

\* Recheck after a block: what no longer follows on is rejected.
RecheckTx(acc, t) ==
    IF t.seq = acc.next
    THEN [acc EXCEPT !.next = @ + 1, !.kept = Append(@, t)]
    ELSE [acc EXCEPT !.dropped = @ \cup {t}]

Recheck(start, txs) ==
    LET acc[i \in 0..Len(txs)] ==
            IF i = 0 THEN [next |-> start, kept |-> <<>>, dropped |-> {}]
            ELSE RecheckTx(acc[i - 1], txs[i])
    IN  acc[Len(txs)]

\* A block commits transactions from the front of the mempool, each with the
\* account's next sequence.
Block ==
    /\ \E n \in 0..Len(mempool) :
          /\ \A i \in 1..n : mempool[i].seq = chainSeq + i - 1
          /\ LET rest == Recheck(chainSeq + n, SubSeq(mempool, n + 1, Len(mempool)))
             IN  /\ mempool' = rest.kept
                 /\ rejected' = rejected \cup rest.dropped
                 /\ checkSeq' = rest.next
          /\ chainSeq' = chainSeq + n
          /\ committed' = committed \o SubSeq(mempool, 1, n)
    /\ UNCHANGED <<sharedVars, mtx, pc, callerVars, evicted, evictions>>

\* A transaction outlives its time in the mempool, or gives way to others.
Evict ==
    /\ "evict" \in faults /\ evictions < MaxEvictions
    /\ \E i \in DOMAIN mempool :
          /\ mempool' = Without(mempool, i)
          /\ evicted' = evicted \cup {mempool[i]}
    /\ evictions' = evictions + 1
    /\ UNCHANGED <<sharedVars, mtx, pc, callerVars, chainSeq, checkSeq, committed, rejected>>

-----------------------------------------------------------------------------
Init ==
    /\ faults \in FaultSets /\ conns \in ConnCounts
    /\ sequence = 0 /\ chainSeq = 0 /\ checkSeq = 0
    /\ mtx = "free"
    /\ txTracker = <<>>
    /\ pc = [c \in Callers |-> "idle"]
    /\ round = [c \in Callers |-> 0]
    /\ tx = [c \in Callers |-> NoTx]
    /\ reg = [c \in Callers |-> 0]
    /\ evicting = [c \in Callers |-> FALSE]
    /\ result = [m \in Messages |-> "none"]
    /\ mempool = <<>> /\ committed = <<>>
    /\ evicted = {} /\ rejected = {}
    /\ evictions = 0

Broadcast(c) ==
    \/ BroadcastTx(c) \/ estimateGas(c) \/ signTransaction(c) \/ SetSignatures(c)
    \/ routeTx(c) \/ trackTransaction(c) \/ IncrementSequence(c) \/ Broadcasted(c)

Confirm(c) ==
    \/ ConfirmTx(c) \/ evictionPollTimeOut(c)
    \/ Evicted(c) \/ Resubmit(c) \/ Rejected(c) \/ Rewind(c) \/ Forget(c)

Next == (\E c \in Callers : Broadcast(c) \/ Confirm(c)) \/ Block \/ Evict

Spec == Init /\ [][Next]_vars

\* Goroutines are scheduled, time passes, so that a poll finds the eviction
\* timer elapsed, and the node keeps producing blocks that take what the
\* mempool holds.  Nobody has to submit.
FairSpec ==
    /\ Spec
    /\ \A c \in Callers : /\ WF_vars((pc[c] # "idle" /\ Broadcast(c)) \/ Confirm(c))
                         /\ SF_vars(evictionPollTimeOut(c))
    /\ WF_vars(Block /\ mempool' = <<>>)

-----------------------------------------------------------------------------
(* Properties                                                              *)

\* The types of the client's state; only signed transactions are sent.
TxTypeOK ==
    /\ sequence \in Nat /\ mtx \in Callers \cup {"free"}
    /\ txTracker \in Seq([tx : Tx, sequence : Nat])
    /\ round \in [Callers -> 0..Rounds]
    /\ tx \in [Callers -> Tx \cup {NoTx}]
    /\ reg \in [Callers -> Nat]
    /\ chainSeq \in Nat /\ checkSeq \in Nat
    /\ mempool \in Seq(Tx) /\ committed \in Seq(Tx)

\* However often a transaction is signed again, evicted and sent again, its
\* message is committed at most once.
CommittedOnce ==
    /\ TxTypeOK
    /\ \A i, j \in DOMAIN committed : committed[i].msg = committed[j].msg => i = j

\* A submitter is told the truth: a confirmed message is on chain, a rejected
\* one is not and never will be.
TruthfulResult ==
    \A m \in Messages :
        /\ result[m] = "confirmed" => \E t \in Range(committed) : t.msg = m
        /\ result[m] = "rejected" => \A t \in Range(committed \o mempool) : t.msg # m

\* The tracked sequence of a transaction is the one it was signed with, which
\* is what a rejection rewinds to.
TrackedIsSigned == \A i \in DOMAIN txTracker : txTracker[i].sequence = txTracker[i].tx.seq

\* With a well-behaved node the lock keeps the client's sequence in step with
\* the node's and the tracker right, so no broadcast of concurrent callers is
\* ever refused.
InStep ==
    faults = {} =>
        /\ LockFree => sequence = checkSeq
        /\ rejected = {}
        /\ \A m \in Messages : result[m] # "broadcast failed"
        /\ TrackedIsSigned

\* Every submission returns: neither the lock nor the retry of a mismatch nor
\* the polling of an evicted transaction holds a caller for ever.
SubmissionReturns == \A c \in Callers : pc[c] # "idle" ~> pc[c] = "idle"
=============================================================================
