# A formal model of celestia-app

TLA+ modules that model the state machines of celestia-app, the TLC
configurations that check them on small instances, and TLAPS proofs of what
matters most for every value of the constants. Every definition is translated
from the Go source; `PROJECT.json` maps each one to its lines.

## The system

celestia-app is a Cosmos SDK application (`app/`, `x/`) that CometBFT drives
through ABCI, a multiplexer that runs one of several application binaries by
app version, client libraries that submit transactions, and Fibre, a blob
service whose servers run beside the validators and whose payments settle
on chain.

| Part | Source | Module |
| --- | --- | --- |
| Fibre escrow, withdrawals, payment promises | `x/fibre/keeper`, `x/fibre/types` | `FibreEscrow` |
| Validator-local promise cache | `x/fibre/keeper/local_promise_cache.go` | `FibrePromiseCache` |
| Version signalling and upgrades | `x/signal`, `app/app.go`, `app/upgrades.go` | `Signal` |
| Transaction client | `pkg/user/tx_client.go`, `signer.go` | `TxClient` |
| Parallel transaction queue | `pkg/user/parallel_tx_submission.go` | `TxQueue` |
| Multiplexer | `multiplexer/` | `Multiplexer` |
| Proposing and processing blocks, ante handlers, x/blob checks | `app/`, `app/ante`, `x/fibre/ante` | `Proposal` |
| Fibre server: store, pruning, occupancy | `fibre/store.go`, `fibre/server*.go`, `fibre/occupancy.go` | `FibreServer`, promise: `ShardVault` |
| Fibre client: escrow ledger and Put | `fibre/escrow_ledger.go`, `fibre/client_put.go` | `EscrowLedger` |
| Fibre client: upload and download; validator sets | `fibre/client_upload.go`, `fibre/client_download.go`, `fibre/validator` | `FibreTransfer` |
| x/forwarding and x/zkism | `x/forwarding`, `x/zkism` | `Bridge` |
| x/valaddr, x/mint, x/minfee, square and proof arithmetic, wiring, tools, tests, generated code | | not modelled |

How they interact: a Fibre client signs a payment promise and asks validators
to store its shards; each validator queries its own node
(`ValidatePaymentPromise`), where the promise cache reserves the amount against
the escrow account; the client then settles with `MsgPayForFibre`, or anyone
settles later with `MsgPaymentPromiseTimeout`. Independently, validators signal
versions; when five sixths of the power agree, `TryUpgrade` stores an upgrade
that `EndBlocker` carries out, after which the multiplexer runs another binary.
Tokens leave through a forwarding address and come back as messages that a zk
light client authorises; both meet in the collateral of the warp token.

Each section below ends with what its run shows. The twelve runs of
`PROJECT.json` are eleven that must hold and one that TLC refutes. Further
statements of the repository's comments that TLC refutes are listed under
"Comments the code does not keep", with the configuration that shows each.

## FibreEscrow

State: the block clock (`stage`, `now`, `height`), `params`, the freshness
`floor`, `escrow` accounts (balance and available balance), `withdrawals` and
`processed` payments, each as the two store indexes the keeper writes, the bank
balances `wallet`, `module`, `feeCollector`, and a history count `settlements`
of how often each promise was charged.

Actions: `DepositToEscrow`, `RequestWithdrawal`, `PayForFibre`,
`PaymentPromiseTimeout`, `UpdateFibreParams` (one per message of
`msg_server.go`), `BeginBlock` (freshness floor, due withdrawals, pruning, in
the order of `abci.go`) and `ExportImport` (genesis round trip). A message that
returns an error is reverted by the SDK and is no step; its checks are the
guard. Signatures and the wire format are checked before the handlers and are
abstracted; a promise is a record of signer, creation time, height and amount.
`int64(uint64)` of the height window keeps its wrap-around (`ToInt64`, with
`MaxInt64` scaled down).

| Run | Shows |
| --- | --- |
| `fibre_escrow` | Two owners with a promise each. No promise is charged twice while records are pruned and governance moves `WithdrawalDelay` (`NoDoubleSettlement`); a promise that timed out can be claimed during its whole settlement window (`TimeoutWindowOpen`); balances stay backed by the module account, both indexes agree and due withdrawals are paid while payments eat into them (`FundsBacked`), and no withdrawal is paid before a promise signed earlier has expired (`PayoutAfterNormalExpiry`). |

Bounds: block times span more than the longest delay plus the clock skew, so a
record is written, pruned and its promise retried within one behaviour; delays
range over both ends of what validation allows (and values it rejects); amounts
of 1 and 2 make a payment larger than, equal to and smaller than a withdrawal.
The six block times after genesis make 357,046 states. The chain stops at the last
block time, so these runs do not check deadlock.

The two loops over withdrawals, paying what is due and cancelling what a payment
eats into, are folds over a set with the store's key order as the choice of the
next element, so that the same definitions can be run and reasoned about.

## FibrePromiseCache

Extends `FibreEscrow` with one validator's cache (`cache`: budgets per signer,
pending hashes, last eviction), a wall clock that drifts from block time by at
most `ClockDrift`, and restarts that lose the cache. The cache holds its mutex
for the whole of `Reserve`, so the query is one step. The query reads committed
state, so it closes the block whose messages were being delivered (stage
`commit`): no message of that block can follow, and the next block has a later
time. Without this a query would see half a block, and a reservation that it
dropped as stale could still be charged by a message at the same block time; the
proof of `DroppedNeverSettles` failed at that step. Delays of 2 and 4 (441,353
states) let governance shorten and lengthen the window of a reserved promise.

| Run | Shows |
| --- | --- |
| `fibre_cache` | Budgets equal what the last sweep read less what is reserved (`BudgetBalanced`), a dropped reservation can no longer settle (`DroppedNeverSettles`), and an admission that swept first is covered on chain (`SweptAdmissionCovered`). |

## Signal

State: the signal store, the pending upgrade, the x/upgrade plan and done
markers, the app version, staking's view of the validators (external), and the
height. Actions: `SignalVersion`, `TryUpgrade`, `EndBlock` (`app.EndBlocker`),
`PreBlocker`, and staking's `CreateValidator`, `RemoveValidator` and power
changes. With powers 0, 1, 4 and 5 five sixths of the total is an integer (5 of 6)
or falls between two (4 of 5), so rounding shows. Two validators keep the
liveness check short; the configuration with three validators and powers 0, 1
and 5 (172,505 states, two minutes) gave the same result.

| Run | Shows |
| --- | --- |
| `signal_upgrade` | Two upgrades in a row with validators coming and going: quorums are real five-sixths majorities and unique, both queries agree, nothing stale survives an upgrade, the plan is never refused, no message runs between a version change and its migration, and a pending upgrade is carried out. Fairness: weak fairness of block production only (`EndBlock`, `PreBlocker`); no message is assumed to be sent. |

## TxClient

Goroutines (`pc` per caller) share one client: `sequence`, `txTracker` and the
mutex `mtx`. `BroadcastTx` to `Broadcasted` are one broadcast, step by step at
each access to shared state; `ConfirmTx`, `Evicted`, `Resubmit`, `Rejected`,
`Rewind` and `Forget` are the loop of `ConfirmTx`, which takes the lock only for
the tracker. The node is external: `CheckTx`, a mempool, blocks, eviction. What
may fail is chosen at the start (`faults`).

| Run | Shows |
| --- | --- |
| `txclient` | Over a well-behaved node the lock keeps the sequence in step and the tracker right (`InStep`). With all faults and two evictions nothing is committed twice, no result is untrue, and every submission returns. Fairness: goroutines are scheduled, a poll finds the eviction timer elapsed (strong, since polls alternate), blocks empty the mempool. Nobody has to submit. |

Two callers and two evictions are enough for a transaction to lose the one
before it, be rejected, and rewind the sequence under the other's broadcast.

## TxQueue

`SetupTxClient`, `initializeWorkerAccounts`, `fundAndGrantWorkerAccounts` and
`start` prepare the accounts; `QueueBlob`, `TakeJob`, `processJob` and
`LeaveLoop` are the job channel. A set-up names its account with
`WithDefaultAccount`, with `WithDefaultAddress` or not at all; worker 0 then signs
with the account `primary`, the client pays with `default`, and the two differ when
only the address was given. Accounts are numbered in keyring order, so a
configuration decides whether worker names sort before the user's. Three set-ups
let one fail and one be repeated after a success with another default account. Jobs and set-ups run out, so
deadlock is not checked.

| Run | Shows |
| --- | --- |
| `txqueue` | After any history of failed and repeated set-ups a started queue has a loaded account per worker and each helper a grant, by the present default account or by that of an earlier set-up (`WorkersReady`), and an accepted job is answered unless the context ends. Fairness: each worker's goroutine. |

Read off the code while modelling, and left out of the properties: `start`
makes the channel with the default size whatever `WithParallelQueueSize` asked,
and jobs in the channel when the context ends get no answer.

## Multiplexer

The multiplexer's memory is the record `mux`, and its methods (`startEmbeddedApp`,
`stopEmbeddedApp`, ...) are operators on it. `getApp` is called by the consensus
connection and by queries; when it has to switch it holds `m.mu` (`lock`) over two
steps, `StopRunning` and `StartNext`, either of which may fail and hand its caller
the error. `OfferSnapshot` and `Commit` write `appVersion` without the lock, and then
wait for `getApp`. CometBFT is external and split where a crash matters: the
block is stored, finalized, its response saved, committed (the application's
commit, the new version and the switch are steps of their own) and the state saved.
`Start` and `Handshake` are a restart. A binary of the wrong
version fails on a block. A call to an embedded binary waits until one listens
(`WaitForReady`), and none does while the native application has the database. The
chain is a schedule of versions, all of which are explored.

| Run | Shows |
| --- | --- |
| `mux_upgrade` | Blocks run on the binary of their version, and snapshots on theirs, unless the handshake of this start replayed a block to a mock or an older snapshot was offered (`WrongBinaryOnlyAfterMock`); one application at a time (`OneApplication`); the node catches up, with two exceptions (`NodeCatchesUp`); a query that overlaps a switch between embedded binaries returns, also when the switch fails (`QueryReturns`). Fairness: the node is restarted, sooner or later without a halt height, blocks arrive, a snapshot on offer is restored, and the goroutine of a query runs. |

The two exceptions are properties of the code, and the run reaches both. With ABCI v1
the application commits inside FinalizeBlock; a crash before the response is saved
leaves a height that no handshake can replay. `getApp` switches only to a greater
version and never stops the native application: when a snapshot of the native
version cannot be restored and an older one is offered, it starts an embedded binary
beside the native application, and the offer is never answered. After a
switch to the native application nothing listens for a query that still holds a
handle on the embedded one; `QueryReturns` says no more. Three configurations that
are not runs show these cases. Three blocks hold two
switches and a switch after a restart, with one crash and one failing stop or start
anywhere; the chain ends there, so deadlock is not checked.

## Proposal

One committed `state` (bank balances, sequences, escrows, pending withdrawals,
processed promises) and, per node, a mempool, the cache of validated blob
transactions and the cache of checked fibre signatures. `CheckTx`,
`PrepareProposal`, `ProcessProposal` and `FinalizeBlock` are the ABCI handlers.
The proposer's filter keeps the order of the code: `FilterByMaxBytes`,
`SeparateTxs`, then one loop (`FillLoop`) per kind: `FillTx` for normal and blob
transactions, whose ante writes
stay even when the square has no room left, and `FillFibreTx`, which runs each
pay-for-fibre transaction on a branch. `OtherProposal` is a proposer that runs
other software and may propose any sequence of transactions. Square layout is
external: a transaction has a size and the square a capacity.

| Run | Shows |
| --- | --- |
| `proposal` | A node's proposal is accepted by every node, whatever their caches hold (`OwnProposalAccepted`). Nodes give every proposal the same verdict and end in the same state (`VerdictsAgree`). A pay-for-fibre transaction in a committed block pays, unless a message that only FinalizeBlock executes took its money first in that block (`PaidUnlessDrained`). |

A cached signature check is only as good as a fresh one while staking still knows the
validator set the promise was signed under, and `BeginBlock` of block h forgets the set
of h - HistoricalEntries. So the properties name what they need of the two parameters:
the handlers, on the committed state of h - 1, agree when `HeightWindow <=
HistoricalEntries`; FinalizeBlock, one height further, agrees with a node that syncs
without the caches when the window is shorter than that. At equality a promise at the
edge of the window is accepted from caches and fails in a later sync
(`MCProposalHistory`). The defaults are 1000 and 10000; nothing in
`params.go` bounds the window from above. `CheckTx` may come at any moment of a
round, also between the two handlers of one node. Two nodes are interchangeable, so the run uses their symmetry; it checks no liveness. Two
blocks let a promise expire and a withdrawal come due; limits of one message per
kind and a square of three units make every limit bind. The chain ends after
them, so deadlock is not checked.

## FibreServer and ShardVault

`FibreServer` is one validator's store: `db` (pebble's three key spaces),
`files` and `staging` on disk, the occupancy counter `used` and its `budget`.
Uploads (`handler`), downloads (`reader`) and the prune loop (`pruner`) advance
one file operation, index commit or counter access at a time. Pebble is written
without sync, so `survivors` holds the index states that a crash may fall back
to. `Crash`, `Restart` (which clears staging and recounts), failing commits and
failing removals are the faults, and `Tick` may bring new chain parameters into
force while an upload is between reading them and using them.

`ShardVault` is what a validator promises when it signs: a retrievable shard
stays so until a recorded prune minute has passed, or a crash.
`KeepsShards` says that `FibreServer` implements it, with `kept` the signed
promises whose marker and file are both there, and `due` the prune minutes ever committed for it.

| Run | Shows |
| --- | --- |
| `fibre_server` | The refinement (`KeepsShards`); the counter equals the bytes on disk plus those in flight and those pruned but not released, with the three races that throw it off named (`OccupancyExact`); `reserve` never overshoots the budget it was given (`BudgetHonoured`); a file leaves the prune index only for the listed reasons (`OrphansExplained`); and is removed in the end unless it did (`ExpiredReclaimed`). |

Bounds: two uploads, one download and two promises for one blob that do not fit
the budget of 2 together; two ticks a minute and two in all. Governance raises the
timeout at the second (`Raised`), so a shard is stored, due and pruned, and stored
again with a later prune time. One fault, so every fault happens at
every step. The counter is
signed, as in the code: after two faults have made it drift a prune can take it
below zero. Fairness: goroutines are scheduled, the
ticker fires, a crashed server is started again, time passes. Time ends, so
deadlock is not checked.

`ShardVault` counts every prune minute ever recorded for a promise, not the latest
one. The code does not keep the latest: when governance moves the prune time of a
promise that is stored again, the pruner may remove the new file for the old key, and
a `Get` that saw the old file missing deletes the new marker. The run reaches both.

## EscrowLedger

The ledger of one client: `balance` and `seeded`, the mutex of seeding, the
single-flight flag `refilling`, and per `Put` the steps `ensureSeeded`, `admit`,
`waitForBudget` with its poll and refill, then the dispatched promise, which the
chain settles when it likes (`Settle`) or not (`Abort`). `refillAsync` runs
beside them. RPCs and deposits may fail. `Restart` loses the ledger and leaves
the signed promises. `Configs` lists the clients to explore.

| Run | Shows |
| --- | --- |
| `fibre_ledger` | What the ledger offers, with running reservations and signed promises, is covered by the escrow on chain, except for promises signed before the last restart (`LedgerCovered`); at most one refill is under way; every Put returns (`PutReturns`). |
| `fibre_ledger_grace` (violation) | A Put that passed `ensureSeeded` in the grace period and refills after it makes the ledger count one deposit twice, contrary to the comments at `escrow_ledger.go:68-73` and `:187-190`. |

Three Puts of costs 1, 1 and 2 against watermarks 1 and 2 make two Puts fit, one
too many wait, and one dear Put compete with cheap ones for every refill (155,372
states from an escrow of 3). A client
without a grace period is explored with a restart and a failure, one with it
without them; the client with all three holds too (964,658 states, nine minutes)
and is left out for time. `LedgerCovered` excuses, through `early`, exactly the
history the violation run exhibits. Fairness: goroutines are scheduled and RPCs
answered; nothing of the caller's context.

The comment on `StartupGracePeriod` (`escrow_ledger.go:33-42`) suggests that a
period above the promise timeout makes the restart exact. A timeout can be
claimed until the end of the settlement window, so promises of the previous
process may still be debited after it; `LedgerCovered` excuses these (`legacy`)
for any period.

## FibreTransfer

Row assignment and selection (`AssignedRows`, `Assign`, `Select`) are operators
over a sequence of voting powers. `StartUpload`, the per-validator steps of
`uploadTo` (`JobStep`), `ReturnUpload` and `Free` are the fan-out with the
reference count of the blob's pooled rows; `StartDownload`, `MainStep` and
`WorkerStep` are the download session with its reservations and its wake-up
channel of capacity one.

| Run | Shows |
| --- | --- |
| `fibre_transfer` | Pooled rows are not returned while a goroutine may read them and are returned in the end (`BlobLifetime`); a download that reaches signers with a third of the power rebuilds the blob, and nobody writes to its buffer afterwards (`Retrievable`); a third of the power is assigned enough rows when the assignment does not wrap, and the validators selected first share none (`RowsSpread`, over 125 ordered power distributions of up to five validators and one long tail); both transfers end (`TransfersEnd`). |

The transfers run on powers 5, 2, 2: no validator alone has two thirds, one has
a third, and the quorum can return while a goroutine still runs. Rows are 8 of
32 with a floor of 3, the quarter that 4096 is of 16384; the floor leaves room for
rounding up, as the real one of 148 does. Fairness: goroutines
run, requests end (`RPCTimeout`), callers free their blob.

## Bridge

Balances per account and denom, the price each hook quotes, the remote chain as
the message trees of its roots from the one the ISM trusts on, and the ISM's
`submitted` flag and authorised `messages`. `Forward` is all of MsgForward: the
quote, the relayer's fee, the warp transfer and the refund of what the hook did
not take (`calculateExcessIGPFee`). `CreateInterchainSecurityModule`,
`UpdateInterchainSecurityModule`, `SubmitMessages` and `Verify` (inside
`Process`) are x/zkism; `ExportImport` is its genesis round trip, one page long.
Mailbox, hooks, warp routes and the remote chain are external; a proof is
accepted exactly when what it claims is true.

| Run | Shows |
| --- | --- |
| `bridge` | Collateral equals what exists abroad, travels or waits for delivery (`Backed`); fees are a matter between relayers and hooks (`RelayerPaysFees`); a dispatched transfer is delivered (`DispatchedDelivered`), although one proof is accepted per root, it may leave messages out, and an export may lose authorised ones. |

Two messages, two roots of lag and a page of one entry let a proof be partial, a
root be skipped and an export drop a message. Fairness: the remote chain makes
blocks and the ISM is created (weak); a prover catches up and submits all that is
undelivered, and a relayer delivers (strong, since others' submissions and price
changes alternate with them). That is a statement about operators, who are paid
to run them, and not about the code: without them nothing is ever delivered.

## Comments the code does not keep

TLC refutes each statement below; the configuration named reproduces it in
seconds. One of them, `MCEscrowGrace.cfg`, is the run `fibre_ledger_grace` and a
finding of `PROJECT.json`. The others are kept as configurations and are not
among the runs.

| Configuration, module | Definition | Statement, and what happens |
| --- | --- | --- |
| `MCFibreWideWindow`, MCFibreEscrow | `HeightWindowHonoured` | `fibre_module.md:204,445`: promises within the height window are accepted. A window above the int64 range passes validation, turns negative and rejects every promise (`keeper.go:422`). |
| `MCFibreAdmission`, MCFibrePromiseCache | `AdmissionCovered` | `local_promise_cache.go:172-174`: the cache never admits more than can settle. Between sweeps a withdrawal lowers the balance and the cached budget still admits. |
| `MCTxRace`, MCTxClient | `TrackedIsSigned` | `tx_client.go:218,597`: the client is thread-safe and tracks the sequence it signed with. `ConfirmTx` rewinds the sequence without the lock (`:841`). |
| `MCTxQueueDefault`, MCTxQueue | `MainAccountPays` | `parallel_tx_submission.go:275`: the main account pays for the workers. A later set-up with another default account finds the worker accounts on chain and grants them nothing. |
| `MCMuxCommit`, MCMultiplexer | `BlockRunsOnItsVersion` | `multiplexer.go:426`: the application fits the latest version. After a crash between the application's commit of the upgrade block and CometBFT's saved state, the old binary gets the next block. |
| `MCMuxSnapshots`, MCMultiplexer | `OneOwner` | `multiplexer.go:66-67`: the multiplexer uses the native instance or the active version. An older snapshot, offered after one that started the native application, starts an embedded binary beside it. |
| `MCMuxReplay`, MCMultiplexer | `NeverStuck` | No comment: a crash after an ABCI v1 binary has committed inside FinalizeBlock, and before CometBFT saves the response, makes every later handshake fail. |
| `MCMuxQuery`, MCMultiplexer | `AnyQueryReturns` | No comment: a query with a handle on the embedded binary waits for ever once the native application has taken over. |
| `MCRowFloor`, MCFibreTransfer | `ThirdReconstructs` | `validator/set.go`: a third of the stake has `originalRows`. With many validators at the row floor the assignment wraps; with the real constants, one validator of power 3300 and 99 of power 67, some 33.9% of the power holds 4083 different rows of the 4096 needed. |
| `MCProposalHistory`, MCProposal | `SyncedStateAgrees` | `app.go:215`: the cache skips repeated signature checks, so a node without it should end in the same state. With a window as long as the history, `BeginBlock` forgets the validator set between ProcessProposal and the delivery. |
| `MCProposalUnpaid`, MCProposal | `AcceptedFibreSettles` | `filtered_square_builder.go:350`: a promise that cannot settle is dropped so that no blob is committed without payment. A timeout message in the same block runs only in FinalizeBlock and takes the escrow first. |

Three comments need one changed property in an existing configuration:
`PrunedAfterExpiry` (`server_upload.go:220-223`), since an upload stamped before the timeout is raised is pruned by the old value;
`CrashLeftoverSwept` (`store.go:136-138`), since after a crash between rename and
commit no prune key leads to the file; and `ExportKeepsMessages`
(`x/zkism/keeper/genesis.go:80-86`), since the export passes no page request and
writes the first page of messages only.

## Proofs

Eight modules hold theorems. They quantify over all values of the constants; the
named assumptions beside the constants are types, and the few inequalities quoted
below. Each inductive invariant was checked with TLC before it was proved.

**Sums (`SumTheorems`).** Balances, amounts, sizes and voting powers are added up
with the library's `SumFunctionOnSet`. The library's induction theorems take an
operator as parameter, which the provers cannot instantiate; `WFMin` (a well-founded
relation has minimal elements) takes a set. From it follow least elements of sets
of naturals, induction over the subsets of a finite set (`SmallerSubsets`), that
the fold is a function at all (`FoldExists`), and the laws the other modules
cite: a sum is a natural number, adding, removing or changing an element, disjoint
unions, monotonicity.

**Escrow (`FibreEscrowProofs`).** No promise settles twice. The property is
not inductive: a promise whose record was pruned must be rejected for ever,
although `WithdrawalDelay` may grow. `ReplayInv` adds the argument the code
relies on: parameters are valid, the floor lags block time by at least the
shortest delay (`FloorBehind`), records are stamped within the clock skew of the
time they were written (`RecordWithinSkew`), both indexes of processed payments
agree, and a settled promise without a record lies below the floor
(`PrunedIsStale`). From it follow `SettlesAtMostOnce`, `PruningIsSafe`,
`PromiseStaysFresh`, `TimeoutPathUsable` and `FloorNeverFalls`.

`FundsAlwaysBacked` and `PayoutsWaitForPromises` are about the money. `FundsInv`
adds to `ReplayInv` that the books are in balance (`InBalance`): every balance is
its available part plus what the signer's requests lock, the module account is the
sum of balances, both indexes of requests agree, a signer has one request per time
and an account, and that a request waits at least the shortest delay. The two loops
keep `InBalance` element by element, by induction over what is left of the set. Of
the inequalities it needs `MaxPaymentPromiseTimeout + MinTimeoutSettlementWindow <=
MaxWithdrawalDelay` and a zero time before any delay, as in `params.go`.

**Promise cache (also `FibreEscrowProofs`).** `BudgetsBalance`, `DroppedStayUnsettled`
and `SweptAdmissionsCovered`, on top of `FundsInv`. `CacheInv` says that a dropped
promise is `Doomed`: below the floor, or so old at a closed block that every later
block finds it stale, by the chain's clock for a sweep and by the validator's for
an eviction. The second needs `promiseCacheEvictBuffer >= MaxPromiseClockSkew +
2 * ClockDrift`; an hour of buffer and ten minutes of skew leave 25 minutes for
the drift.

**Signalling (`UpgradeProofs`).** Type correctness, that a pending upgrade can be
applied, that no signal is stale, that the handler runs before any message of the
new version, that the plan is never refused and that the version changes on
schedule. The invariant is strengthened by facts that tie the plan to the version
(`PlanInStep`), the done markers to the past (`DoneIsPast`), the pending upgrade to
the quorum found (`PendingFromQuorum`) and power to registered validators
(`PowerIsRegistered`). `QuorumIsSound` proves `QuorumSound`: reaching the rounded
threshold is having five sixths of the power, two versions cannot both have it,
the last of a version's signallers in key order completes the count, and dropping
validators without power changes neither the tally nor the queries.

**Multiplexer (also `UpgradeProofs`).** `OneApplicationRuns` and
`BlocksRunOnTheirVersion`, for every chain whose version only grows (which is what
`Signal` shows of it), snapshots in any order, and any number of crashes, restarts and
switches that fail. `MuxInv` ties the multiplexer's memory to what survives a crash: in
each phase of a block the version it believes in is the one the saved state or the
finalized block asks for (`VersionInv`), and the heights of the application and of
CometBFT differ by what the phase allows (`HeightInv`). `AppInv` is about what runs: no
child while `m.mu` is held, nothing left to switch outside a commit or an offer, the
embedded binary not newer than the version unless an older snapshot was offered
(`Behind`), and the native application never where `getApp` would start a binary beside
it (`Beside`), unless that snapshot is still on offer. The one hypothesis is about the
deployment, and needed: the embedded versions have no gap (`NoGap`;
`GetForAppVersion` answers a version in a gap with the lowest binary, and `Validate`
does not refuse such a list).

**Transaction client (`TxClientProofs`).** `MessagesCommittedOnce`, `ResultsTruthful`
and `ClientInStep`, for any number of goroutines, submissions, endpoints and
evictions and any choice of faults. `TxInv` says that the goroutine inside
`BroadcastTx` is the one that holds the lock; that a message is in one place at a time,
on chain, in the mempool, evicted or rejected, and in none of them while it is being
sent (`NodeInv`); that a result, once given, matches that place for ever
(`ResultInv`); and, when nothing fails, that the client's sequence, the node's, and
the one each goroutine has read agree at every step of a broadcast (`StepInv`). The
last is where the lock is used: with faults `Rewind` writes the sequence without it,
and only the first two theorems survive.

**Bridge (`LedgerProofs`).** Fees come from relayers (`FeesFromRelayers`) and
no account is overdrawn (`NoOverdraft`), for every set of hooks, denoms, prices
and balances. Neither is inductive alone: the refund is computed from the
difference of two balances, and that it is covered needs every balance to be a
natural number, while that a relayer gets back no more than was paid needs the
hook's charge to be within the quote. `FeeInv` joins them. `CollateralBacked`
proves `Backed` from `BackedInv`, which adds that coins are conserved, that the
trees of the remote chain grow and that what is authorised or delivered was
dispatched. Remote blocks dispatch finitely many messages, a guard of
`RemoteBlock`.

**Client ledger (also `LedgerProofs`).** `LedgerNeverOvercommits` proves
`LedgerCovered` for any number of Puts. `LedgerInv` says that one caller at most is
past the single-flight flag, that a Put with a signed promise is past admission,
that an unseeded ledger offers nothing, and that the balance, each deposit on its
way into it and each balance read for seeding are covered by the chain (`Solvent`).

**Upload (`FibreTransferProofs`).** `BlobLifetime` for every validator set
(`RowsOutliveReaders`); of the constants it needs that a validator set is a
non-empty sequence. The code releases the fan-out's reference when its count of
responses reaches the number of validators. The invariant (`Owners`) says that
the reference count is the number of owners that remain, caller, Upload and
fan-out, and that the responses count the goroutines that are done; that the
count reaches the number of validators exactly when all are done is a fact about
cardinalities of finite sets.

**Download (also `FibreTransferProofs`).** `RowsAreSpread` proves `RowsSpread` from
two facts about the assignment: a validator's rows are consecutive positions, so
those of different validators are disjoint until the positions wrap, and a third of
the power rounds up to at least `OriginalRows` in sum. That the validators before the
split do not wrap needs `RoundingFits`: three times the original rows, and one row of
rounding for each validator at the floor, fit the total (12288 + 83 of 16384).
`UploadsAreRetrievable` proves `Retrievable`. `DownloadInv` says that the rows in
flight are those the running workers were picked for, that the rows collected are
those of the workers that delivered, and that the session stops when it needs no
more rows or has asked everybody.

**Server (`FibreServerProofs`).** `CounterExact`, `ReservationsFit` and
`OrphansHaveCause`, for any number of uploads, crashes and failing writes, from
`ServerInv`: the counter is the bytes on disk, in flight and unreleased, the
states a crash falls back to are indexes too, and the prune loop holds due keys.
`ShardsKept` is the refinement, `Spec => KeepsShards`, for every schedule of
parameters. `VaultInv` is what a step must not disturb: a marker whose file is
missing, in the index, in a state a crash may restore or in the eye of a reader,
belongs to a promise with a recorded prune minute that has passed. Every step of the
server is then a step of `ShardVault` or leaves its variables alone (`StepRefines`).

**Proposals (`ProposalProofs`).** `OwnProposalsAccepted`, `NodesAgree` and `SquaresPaid`,
for any set of transactions, nodes, caches and limits, from `ProposalInv`: a verdict
given is the one the committed state and the proposal's transactions determine, an
own proposal is one that all accept, mempools and blob caches hold well-formed
transactions only, and an escrow covers its pending withdrawal. The handlers are loops
over a sequence; each loop is a function on the positions `0 .. Len(txs)`, and two loops
are compared position by position, by induction on a set of naturals. Three comparisons
carry the theorems.
ProcessProposal with caches and without: the same verdict (`CachesAgree`), as an
accepted promise is within the height window, which is within the historical entries or,
in a block whose promises staking still remembers (`Remembered`), need not be.
The builder and ProcessProposal: the builder's sequences are the same and it has no
more money, since fees that failed transactions paid stay paid, so what it keeps is
accepted (`FillAccepted`). FinalizeBlock and ProcessProposal: with and without a cache
FinalizeBlock computes the same (`DeliverSame`), and where nothing drains a payer it has
at least the escrow ProcessProposal saw, so that each charge it checked can be made
(`PaidStep`, `BlockPaid`).

Only model-checked: liveness; the type invariants of the modules without proofs; and
`WorkersReady` of `TxQueue`, about the state the set-up leaves, whose orders of
queries, submissions and restarts are few enough for TLC to go through all of them.

## Not modelled

- x/valaddr: a map from validators to hosts, written by one message and swept by
  one pass at the end of a block. No step depends on another's intermediate state.
- x/mint: provisions computed from time with 18-digit decimals, an arithmetic
  question for tests. x/minfee: one parameter; `Proposal` takes fees as sufficient.
- Square layout, Reed-Solomon coding, Merkle proofs and share inclusion: stateless
  functions of large inputs, too large for TLC, and recursive, which the prover
  cannot follow.
- Stateless ante checks and x/blob's gas arithmetic: they pass or refuse a
  transaction for good, so they only decide which transactions exist.
- The slab allocator, the assembler, gRPC and TLS of Fibre: memory layout and I/O.
  The one protocol among them, the reference count of a blob's rows, is in
  `FibreTransfer`.
- Of modelled parts: several accounts in one transaction client and gas estimation;
  `stop` of the parallel queue, which only tests call; halt time, the gRPC servers
  and the retain height of the multiplexer (the ABCI v1 client always answers 0);
  the caching state client and host lookup of Fibre.
- Registration of modules, commands, flags, gRPC queries, tools, load generators
  and test harness: no state machine of their own. Together with generated protobuf
  code they are most of the repository's lines, which is why the mapped share is
  small although the protocol code in `x/fibre`, `x/signal`, `fibre/`,
  `multiplexer/abci` and `pkg/user` is largely covered.
