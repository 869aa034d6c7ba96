---------------------------- MODULE FibreEscrow ----------------------------
(***************************************************************************)
(* The x/fibre keeper: escrow accounts, delayed withdrawals and the        *)
(* settlement of payment promises, one block after another.                *)
(*                                                                         *)
(* Time is an integer (the unit is the clock-skew granularity), amounts    *)
(* are utia, and a payment promise is a record whose amount stands for the *)
(* gas estimate of its blob size.  A message that returns an error is      *)
(* reverted by the SDK, so it is no step here: its checks are the guard.   *)
(***************************************************************************)
EXTENDS Integers, FiniteSets, Functions

CONSTANTS
    Signers,                    \* escrow owners, numbered in store-key order
    Promises,                   \* promises the owners have signed off-chain
    BlockTimes,                 \* block times the chain may reach
    GenesisTime,
    ZeroTime,                   \* Go's zero time.Time: the unset floor
    Amounts,                    \* deposit and withdrawal amounts
    Funds,                      \* what each wallet holds at genesis
    ParamInputs,                \* params genesis or governance may carry
    MaxPromiseClockSkew,
    MinPaymentPromiseTimeout,
    MaxPaymentPromiseTimeout,
    MinTimeoutSettlementWindow,
    MaxWithdrawalDelay,
    MaxInt64                    \* largest int64, scaled to the instance

ParamRecord == [WithdrawalDelay : Int,
                PaymentPromiseTimeout : Int,
                PaymentPromiseHeightWindow : Nat]

ASSUME PromiseAssumption ==
    \A p \in Promises : /\ p.signer \in Signers
                        /\ p.creation \in Int
                        /\ p.height \in Nat
                        /\ p.amount \in Nat \ {0}

ASSUME ClockAssumption ==
    /\ BlockTimes \subseteq Nat
    /\ GenesisTime \in Nat
    /\ ZeroTime \in Int
    /\ MaxWithdrawalDelay \in Nat
    /\ ZeroTime < GenesisTime - MaxWithdrawalDelay

ASSUME ParamAssumption ==
    /\ ParamInputs \subseteq ParamRecord
    /\ MaxPromiseClockSkew \in Nat
    /\ MinPaymentPromiseTimeout \in Nat
    /\ MaxPaymentPromiseTimeout \in Nat
    /\ MinTimeoutSettlementWindow \in Nat \ {0}
    /\ MaxPaymentPromiseTimeout + MinTimeoutSettlementWindow <= MaxWithdrawalDelay
    /\ MaxInt64 \in Nat

ASSUME FundsAssumption ==
    /\ Signers \subseteq Nat /\ IsFiniteSet(Signers)
    /\ Amounts \subseteq Nat \ {0}
    /\ Funds \in Nat

VARIABLES
    stage,          \* "deliver": messages run; "end": gov EndBlocker; "commit": between blocks
    now, height,    \* ctx.BlockTime() and ctx.BlockHeight()
    params,
    floor,          \* promise freshness floor
    escrow,         \* per signer: found, balance, available
    withdrawals,    \* the indexes bySigner and byAvailable
    processed,      \* processed payments: the indexes byHash and byTime
    wallet, module, feeCollector,   \* bank balances
    settlements     \* history: how often each promise was settled

promiseVars == <<floor, processed, settlements>>
bankVars == <<wallet, module, feeCollector>>
vars == <<stage, now, height, params, escrow, withdrawals, promiseVars, bankVars>>

-----------------------------------------------------------------------------
(* Parameters                                                              *)

MinWithdrawalDelay == MaxPaymentPromiseTimeout + MinTimeoutSettlementWindow

validateWithdrawalDelay_noMargin(d) == d \in MaxPaymentPromiseTimeout .. MaxWithdrawalDelay

validateWithdrawalDelay(d) == d \in MinWithdrawalDelay .. MaxWithdrawalDelay

ValidateParams(p) ==
    /\ validateWithdrawalDelay(p.WithdrawalDelay)
    /\ p.PaymentPromiseTimeout \in MinPaymentPromiseTimeout .. MaxPaymentPromiseTimeout
    /\ p.PaymentPromiseHeightWindow # 0

PaymentPromiseRetentionWindow(p) == p.WithdrawalDelay + MaxPromiseClockSkew

\* Go's int64(x) of a uint64: values past MaxInt64 wrap to negative ones.
ToInt64(x) == IF x <= MaxInt64 THEN x ELSE x - 2 * (MaxInt64 + 1)

-----------------------------------------------------------------------------
(* Stateful validation of a promise                                        *)

Later(a, b) == IF a > b THEN a ELSE b

minAllowedTime_floorless == now - params.WithdrawalDelay

minAllowedTime == Later(now - params.WithdrawalDelay, floor)

Fresh(p) == p.creation > minAllowedTime

expirationTime(p) == p.creation + params.PaymentPromiseTimeout

HeightInWindow(p) ==
    /\ height - p.height <= ToInt64(params.PaymentPromiseHeightWindow)
    /\ p.height <= height + 1

IsPaymentPromiseProcessed(p) == \E r \in processed.byHash : r.promise = p

validatePaymentPromiseStatefulInternal(p, isTimeout) ==
    /\ Fresh(p)
    /\ p.creation <= now + MaxPromiseClockSkew
    /\ isTimeout \/ (now < expirationTime(p) /\ HeightInWindow(p))
    /\ ~IsPaymentPromiseProcessed(p)
    /\ escrow[p.signer].found
    /\ escrow[p.signer].balance >= p.amount

-----------------------------------------------------------------------------
(* Withdrawals.  A request is identified by signer and request time in     *)
(* either index: its available time never changes once it is stored.       *)

SameRequest(v, w) == v.signer = w.signer /\ v.requested = w.requested

Without(index, w) == {v \in index : ~SameRequest(v, w)}

GetWithdrawal(s, t) == {w \in withdrawals.bySigner : w.signer = s /\ w.requested = t}

SetWithdrawal(ws, w) ==
    [bySigner |-> Without(ws.bySigner, w) \cup {w},
     byAvailable |-> Without(ws.byAvailable, w) \cup {w}]

DeleteWithdrawal_oneIndex(ws, w) == [ws EXCEPT !.bySigner = Without(@, w)]

DeleteWithdrawal(ws, w) ==
    [bySigner |-> Without(ws.bySigner, w), byAvailable |-> Without(ws.byAvailable, w)]

BySignerOrder(v, w) == v.requested < w.requested

ByAvailableOrder(v, w) ==
    \/ v.available < w.available
    \/ v.available = w.available /\ v.requested < w.requested
    \/ v.available = w.available /\ v.requested = w.requested /\ v.signer < w.signer

\* The last entry of an index in the order its iterator visits it.  MapThenFoldSet applies
\* the entry it chooses last, so a fold that chooses these visits the index in order.
LastRequested(S) == CHOOSE w \in S : \A v \in S \ {w} : BySignerOrder(v, w)
LastAvailable(S) == CHOOSE w \in S : \A v \in S \ {w} : ByAvailableOrder(v, w)

\* One turn of the loop of ReduceWithdrawalsForPayment, which stops when
\* nothing remains to be covered.
ReduceWithdrawal(w, acc) ==
    CASE acc.remaining = 0 -> acc
      [] acc.remaining > 0 /\ acc.remaining >= w.amount ->
            [remaining |-> acc.remaining - w.amount, ws |-> DeleteWithdrawal(acc.ws, w)]
      [] OTHER ->
            [remaining |-> 0,
             ws |-> SetWithdrawal(acc.ws, [w EXCEPT !.amount = @ - acc.remaining])]

ReduceWithdrawalsForPayment(s, shortfall) ==
    MapThenFoldSet(ReduceWithdrawal,
                   [remaining |-> shortfall, ws |-> withdrawals],
                   LAMBDA w : w, LastRequested,
                   {w \in withdrawals.bySigner : w.signer = s})

-----------------------------------------------------------------------------
(* Messages                                                                *)

DepositToEscrow(s, amount) ==
    /\ stage = "deliver"
    /\ wallet[s] >= amount
    /\ wallet' = [wallet EXCEPT ![s] = @ - amount]
    /\ module' = module + amount
    /\ escrow' = [escrow EXCEPT ![s] = [found |-> TRUE,
                                        balance |-> @.balance + amount,
                                        available |-> @.available + amount]]
    /\ UNCHANGED <<stage, now, height, params, withdrawals, promiseVars, feeCollector>>

availableTimestamp_timeout == now + params.PaymentPromiseTimeout

availableTimestamp == now + params.WithdrawalDelay

RequestWithdrawal(s, amount) ==
    /\ stage = "deliver"
    /\ escrow[s].found
    /\ escrow[s].available >= amount
    /\ GetWithdrawal(s, now) = {}
    /\ escrow' = [escrow EXCEPT ![s].available = @ - amount]
    /\ withdrawals' = SetWithdrawal(withdrawals, [signer |-> s, amount |-> amount,
                                                  requested |-> now,
                                                  available |-> availableTimestamp])
    /\ UNCHANGED <<stage, now, height, params, promiseVars, bankVars>>

availableDeduction(s, amount) ==
    IF escrow[s].available < amount THEN escrow[s].available ELSE amount

Shortfall(s, amount) == amount - availableDeduction(s, amount)

\* The payment leaves the escrow account, pending withdrawals give way to it
\* oldest first, and the coins move to the fee collector.
deductPaymentFromEscrow(s, amount) ==
    LET reduced == ReduceWithdrawalsForPayment(s, Shortfall(s, amount))
    IN  /\ escrow[s].balance >= amount
        /\ reduced.remaining = 0
        /\ module >= amount
        /\ escrow' = [escrow EXCEPT ![s] = [found |-> @.found,
                                            balance |-> @.balance - amount,
                                            available |-> @.available - availableDeduction(s, amount)]]
        /\ withdrawals' = reduced.ws
        /\ module' = module - amount
        /\ feeCollector' = feeCollector + amount
        /\ UNCHANGED wallet

SetProcessedPayment(r) ==
    processed' = [byHash |-> processed.byHash \cup {r}, byTime |-> processed.byTime \cup {r}]

Settle(p) ==
    /\ stage = "deliver"
    /\ deductPaymentFromEscrow(p.signer, p.amount)
    /\ SetProcessedPayment([promise |-> p, at |-> now])
    /\ settlements' = [settlements EXCEPT ![p] = @ + 1]
    /\ UNCHANGED <<stage, now, height, params, floor>>

\* Submitted with signatures of more than two thirds of the voting power; the
\* ante handler has verified them, so which validators signed is left out.
PayForFibre(p) ==
    /\ validatePaymentPromiseStatefulInternal(p, FALSE)
    /\ Settle(p)

PaymentPromiseTimeout(p) ==
    /\ validatePaymentPromiseStatefulInternal(p, TRUE)
    /\ now >= expirationTime(p)
    /\ Settle(p)

\* Executed by the governance EndBlocker, after the block's transactions.
UpdateFibreParams(p) ==
    /\ stage # "commit"
    /\ ValidateParams(p)
    /\ params' = p
    /\ stage' = "end"
    /\ UNCHANGED <<now, height, escrow, withdrawals, promiseVars, bankVars>>

-----------------------------------------------------------------------------
(* BeginBlocker                                                            *)

updatePromiseFreshnessFloor(t) == Later(t - params.WithdrawalDelay, floor)

DueWithdrawals(t) == {w \in withdrawals.byAvailable : w.available <= t}

\* One turn of the loop: a withdrawal that cannot be paid is logged and kept.
PayWithdrawal(w, acc) ==
    IF /\ acc.escrow[w.signer].found
       /\ acc.escrow[w.signer].balance >= w.amount
       /\ acc.module >= w.amount
    THEN [escrow |-> [acc.escrow EXCEPT ![w.signer].balance = @ - w.amount],
          module |-> acc.module - w.amount,
          wallet |-> [acc.wallet EXCEPT ![w.signer] = @ + w.amount],
          ws |-> DeleteWithdrawal(acc.ws, w)]
    ELSE acc

processAvailableWithdrawals(t) ==
    LET paid == MapThenFoldSet(PayWithdrawal,
                               [escrow |-> escrow, module |-> module,
                                wallet |-> wallet, ws |-> withdrawals],
                               LAMBDA w : w, LastAvailable, DueWithdrawals(t))
    IN  /\ escrow' = paid.escrow
        /\ module' = paid.module
        /\ wallet' = paid.wallet
        /\ withdrawals' = paid.ws

pruneProcessedPayments(t) ==
    LET pruned == {r \in processed.byTime : r.at <= t - PaymentPromiseRetentionWindow(params)}
    IN  processed' = [byHash |-> processed.byHash \ pruned,
                      byTime |-> processed.byTime \ pruned]

BeginBlock(t) ==
    /\ t > now
    /\ stage' = "deliver"
    /\ now' = t
    /\ height' = height + 1
    /\ floor' = updatePromiseFreshnessFloor(t)
    /\ processAvailableWithdrawals(t)
    /\ pruneProcessedPayments(t)
    /\ UNCHANGED <<params, feeCollector, settlements>>

-----------------------------------------------------------------------------
(* A genesis export followed by an import, at the same or at zero height.  *)
(* The by-available and by-time indexes are not exported: InitGenesis      *)
(* rebuilds them from the entries of the other index.                      *)

ExportedFloor == floor

ValidateGenesis ==
    /\ ValidateParams(params)
    /\ \A s \in Signers : escrow[s].available <= escrow[s].balance
    /\ \A w \in withdrawals.bySigner : w.amount > 0

ExportImport(h) ==
    /\ ValidateGenesis
    /\ stage' = "commit"
    /\ height' = h
    /\ floor' = ExportedFloor
    /\ withdrawals' = [bySigner |-> withdrawals.bySigner, byAvailable |-> withdrawals.bySigner]
    /\ processed' = [byHash |-> processed.byHash, byTime |-> processed.byHash]
    /\ UNCHANGED <<now, params, escrow, bankVars, settlements>>

-----------------------------------------------------------------------------

Init ==
    /\ stage = "commit"
    /\ now = GenesisTime
    /\ height = 0
    /\ params \in {p \in ParamInputs : ValidateParams(p)}
    /\ floor = ZeroTime
    /\ escrow = [s \in Signers |-> [found |-> FALSE, balance |-> 0, available |-> 0]]
    /\ withdrawals = [bySigner |-> {}, byAvailable |-> {}]
    /\ processed = [byHash |-> {}, byTime |-> {}]
    /\ wallet = [s \in Signers |-> Funds]
    /\ module = 0
    /\ feeCollector = 0
    /\ settlements = [p \in Promises |-> 0]

Deliver ==
    \/ \E s \in Signers, a \in Amounts : DepositToEscrow(s, a) \/ RequestWithdrawal(s, a)
    \/ \E p \in Promises : PayForFibre(p) \/ PaymentPromiseTimeout(p)

Governance == \E p \in ParamInputs : UpdateFibreParams(p)

Next ==
    \/ \E t \in BlockTimes : BeginBlock(t)
    \/ Deliver
    \/ Governance
    \/ \E h \in {0, height} : ExportImport(h)

Spec == Init /\ [][Next]_vars

-----------------------------------------------------------------------------
(* Properties                                                              *)

ProcessedRecord == [promise : Promises, at : Int]

WithdrawalRecord == [signer : Signers, amount : Nat \ {0}, requested : Int, available : Int]

\* The chain-side variables that promise validation reads have their types.
ChainTypeOK ==
    /\ stage \in {"deliver", "end", "commit"}
    /\ now \in Nat
    /\ height \in Nat
    /\ params \in ParamRecord
    /\ floor \in Int
    /\ processed \in [byHash : SUBSET ProcessedRecord, byTime : SUBSET ProcessedRecord]
    /\ settlements \in [Promises -> Nat]

\* No keeper operation takes a balance below zero or stores a malformed entry.
TypeOK ==
    /\ ChainTypeOK
    /\ escrow \in [Signers -> [found : BOOLEAN, balance : Nat, available : Nat]]
    /\ withdrawals \in [bySigner : SUBSET WithdrawalRecord,
                        byAvailable : SUBSET WithdrawalRecord]
    /\ wallet \in [Signers -> Nat]
    /\ module \in Nat
    /\ feeCollector \in Nat

\* A payment promise settles at most once, through PayForFibre and
\* PaymentPromiseTimeout together, even though BeginBlocker prunes the records
\* that reject replays and governance may change WithdrawalDelay at any time.
NoDoubleSettlement == \A p \in Promises : settlements[p] <= 1

\* A settled promise whose processed-payment record is gone was created at or
\* before the freshness floor, so no later validation can find it fresh.
PrunedIsStale ==
    \A p \in Promises :
        settlements[p] > 0 => IsPaymentPromiseProcessed(p) \/ p.creation <= floor

\* No record is filed for a promise dated past the clock skew allowed when it
\* settled; the retention window is derived from this.
RecordWithinSkew ==
    \A r \in processed.byHash : r.promise.creation <= r.at + MaxPromiseClockSkew

\* The two indexes of processed payments, and of withdrawals, hold the same
\* entries: BeginBlocker reads one, validation and payment read the other.
IndexesAgree ==
    /\ processed.byHash = processed.byTime
    /\ withdrawals.bySigner = withdrawals.byAvailable

\* For MinWithdrawalDelay after its creation a promise stays fresh, whatever
\* governance did to WithdrawalDelay before: neither the normal path nor the
\* timeout path is cut short of the margin the parameter bounds promise.
FreshForMinimumDelay ==
    \A p \in Promises : now < p.creation + MinWithdrawalDelay => Fresh(p)

\* Once any allowed timeout has passed and until MinTimeoutSettlementWindow
\* later, an unprocessed, funded promise can be claimed by
\* MsgPaymentPromiseTimeout: the window is never empty.
TimeoutWindowOpen ==
    \A p \in Promises :
        /\ now >= p.creation + MaxPaymentPromiseTimeout
        /\ now < p.creation + MaxPaymentPromiseTimeout + MinTimeoutSettlementWindow
        /\ ~IsPaymentPromiseProcessed(p)
        /\ escrow[p.signer].found /\ escrow[p.signer].balance >= p.amount
        => validatePaymentPromiseStatefulInternal(p, TRUE) /\ now >= expirationTime(p)

\* The height window limits only how far behind the current height a promise
\* of the normal path may be: one that is inside it passes the height check.
HeightWindowHonoured ==
    \A p \in Promises :
        /\ height - p.height <= params.PaymentPromiseHeightWindow
        /\ p.height <= height + 1
        => HeightInWindow(p)

\* What the requests in an index lock of the escrow of s.
requestAmount == [w \in WithdrawalRecord |-> w.amount]
Locked(index, s) == SumFunctionOnSet(requestAmount, {w \in index : w.signer = s})

\* The escrow balance is what is available plus what pending withdrawals lock,
\* through deposits, requests, payouts and payments that eat into withdrawals.
EscrowBacked ==
    \A s \in Signers :
        escrow[s].balance = escrow[s].available + Locked(withdrawals.bySigner, s)

\* The module account holds exactly the sum of the escrow balances, so no
\* payout and no payment can fail for lack of coins.
Balances(accounts) == SumFunctionOnSet([s \in Signers |-> accounts[s].balance], Signers)
ModuleBacked == module = Balances(escrow)

\* A payment within the escrow balance is never refused: the withdrawals cover its
\* shortfall, and the module account its coins.
PaymentsCovered ==
    \A p \in Promises : escrow[p.signer].balance >= p.amount =>
        /\ ReduceWithdrawalsForPayment(p.signer, Shortfall(p.signer, p.amount)).remaining = 0
        /\ module >= p.amount

\* BeginBlocker pays every withdrawal that is due: the branches that log "this
\* shouldn't happen" and keep the withdrawal are never taken.
DueWithdrawalsPaid == \A w \in withdrawals.byAvailable : w.available > now

\* Every coin and every entry is accounted for: balances stay non-negative, the
\* indexes agree, the module account backs what is available and what withdrawals
\* lock, BeginBlocker leaves no due withdrawal behind, and a payment within the balance
\* never fails.
FundsBacked ==
    /\ TypeOK /\ IndexesAgree
    /\ EscrowBacked /\ ModuleBacked
    /\ DueWithdrawalsPaid /\ PaymentsCovered

\* The freshness floor only moves forward, across blocks, governance changes of
\* WithdrawalDelay and a genesis export and import.
FloorMonotone == [][floor' >= floor]_vars

\* When BeginBlocker pays a withdrawal out, every promise its owner created up
\* to the request has expired on the normal path: the coins are still there as
\* long as PayForFibre can be used, under any sequence of parameter changes.
PayoutAfterNormalExpiry ==
    [][\A w \in withdrawals.byAvailable \ withdrawals'.byAvailable, p \in Promises :
          /\ w.available <= now'
          /\ now' > now
          /\ p.signer = w.signer
          /\ p.creation <= w.requested
          => now' >= expirationTime(p)]_vars
============================================================================
