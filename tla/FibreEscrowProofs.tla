------------------------- MODULE FibreEscrowProofs -------------------------
(***************************************************************************)
(* Replay safety of x/fibre and the backing of its funds, for every set of *)
(* signers, promises and amounts, every sequence of block times and every  *)
(* history of parameter changes; and the budgets of the promise cache,     *)
(* also for every run of the two clocks.                                   *)
(***************************************************************************)
EXTENDS FibrePromiseCache, SumTheorems

ParamsValid == ValidateParams(params)

FloorBehind == floor <= now - MinWithdrawalDelay

\* NoDoubleSettlement alone is not inductive: that a settled promise stays out
\* after its record is pruned depends on where the floor then stands, which in
\* turn depends on how far ahead a recorded promise can be dated.
ReplayInv ==
    /\ ChainTypeOK
    /\ ParamsValid
    /\ FloorBehind
    /\ processed.byHash = processed.byTime
    /\ RecordWithinSkew
    /\ PrunedIsStale
    /\ NoDoubleSettlement

-----------------------------------------------------------------------------

\* The later of two times is one of them and not before either.
LEMMA LaterProperties ==
    ASSUME NEW a \in Int, NEW b \in Int
    PROVE  /\ Later(a, b) \in Int
           /\ Later(a, b) >= a
           /\ Later(a, b) >= b
           /\ \A c \in Int : a <= c /\ b <= c => Later(a, b) <= c
BY DEF Later

\* Parameters that pass Validate keep the delay within its integer bounds.
LEMMA ValidParamBounds ==
    ASSUME NEW p \in ParamRecord, ValidateParams(p)
    PROVE  /\ p.WithdrawalDelay \in Nat
           /\ MinWithdrawalDelay \in Nat
           /\ MinWithdrawalDelay <= p.WithdrawalDelay
           /\ p.WithdrawalDelay <= MaxWithdrawalDelay
           /\ p.PaymentPromiseTimeout \in Nat
           /\ p.PaymentPromiseTimeout <= MaxPaymentPromiseTimeout
BY ParamAssumption, ClockAssumption DEF ValidateParams, validateWithdrawalDelay, MinWithdrawalDelay, ParamRecord

\* The invariant holds at genesis, where nothing has settled.
LEMMA InitReplay == Init => ReplayInv
<1> SUFFICES ASSUME Init PROVE ReplayInv
    BY Zenon
<1>1. params \in ParamRecord /\ ValidateParams(params)
    BY ParamAssumption, Zenon DEF Init
<1>2. ChainTypeOK
    BY <1>1, ClockAssumption, Zenon DEF Init, ChainTypeOK
<1>3. FloorBehind
    BY <1>1, ValidParamBounds, ClockAssumption, ParamAssumption DEF Init, FloorBehind
<1>4. RecordWithinSkew /\ PrunedIsStale /\ NoDoubleSettlement
    BY DEF Init, RecordWithinSkew, PrunedIsStale, NoDoubleSettlement
<1> QED
    BY <1>1, <1>2, <1>3, <1>4, Zenon DEF ReplayInv, Init, ParamsValid

\* A step that leaves the clock, the parameters and the promise state alone.
LEMMA UnchangedReplay ==
    ASSUME ReplayInv, UNCHANGED <<now, params, promiseVars>>,
           height' \in Nat, stage' \in {"deliver", "end", "commit"}
    PROVE  ReplayInv'
BY Zenon DEF ReplayInv, ChainTypeOK, ParamsValid, FloorBehind, RecordWithinSkew, PrunedIsStale,
       NoDoubleSettlement, IsPaymentPromiseProcessed, promiseVars, ValidateParams,
       validateWithdrawalDelay, MinWithdrawalDelay

\* Settling needs a fresh, unrecorded promise; by PrunedIsStale such a promise
\* has never settled, and it is recorded in the same step.
LEMMA SettleReplay ==
    ASSUME ReplayInv, NEW p \in Promises, NEW b \in BOOLEAN,
           validatePaymentPromiseStatefulInternal(p, b), Settle(p)
    PROVE  ReplayInv'
<1> DEFINE rec == [promise |-> p, at |-> now]
<1>1. p.creation \in Int /\ p.creation > floor /\ p.creation <= now + MaxPromiseClockSkew
    <2>1. p.creation \in Int /\ p.creation <= now + MaxPromiseClockSkew
        BY PromiseAssumption, Zenon DEF validatePaymentPromiseStatefulInternal
    <2>2. p.creation > Later(now - params.WithdrawalDelay, floor)
        BY Zenon DEF validatePaymentPromiseStatefulInternal, Fresh, minAllowedTime
    <2>3. floor \in Int /\ now - params.WithdrawalDelay \in Int
        BY ValidParamBounds DEF ReplayInv, ChainTypeOK, ParamsValid
    <2>4. /\ Later(now - params.WithdrawalDelay, floor) \in Int
          /\ Later(now - params.WithdrawalDelay, floor) >= floor
        BY <2>3, LaterProperties, Zenon
    <2> QED
        BY <2>1, <2>2, <2>3, <2>4
<1>2. settlements[p] = 0
    BY <1>1 DEF ReplayInv, ChainTypeOK, PrunedIsStale, validatePaymentPromiseStatefulInternal
<1>3. /\ processed'.byHash = processed.byHash \cup {rec}
      /\ processed'.byTime = processed.byTime \cup {rec}
      /\ processed' = [byHash |-> processed.byHash \cup {rec},
                       byTime |-> processed.byTime \cup {rec}]
    BY Zenon DEF Settle, SetProcessedPayment
<1>4. settlements' = [settlements EXCEPT ![p] = 1]
    BY <1>2 DEF Settle, ReplayInv, ChainTypeOK
<1>5. UNCHANGED <<stage, now, height, params, floor>>
    BY Zenon DEF Settle
<1>6. rec \in ProcessedRecord
    BY DEF ProcessedRecord, ReplayInv, ChainTypeOK
<1>7. ChainTypeOK'
    BY <1>3, <1>4, <1>5, <1>6, Zenon DEF ReplayInv, ChainTypeOK
<1>8. ParamsValid' /\ FloorBehind'
    BY <1>5, Zenon DEF ReplayInv, ParamsValid, FloorBehind, ValidateParams, validateWithdrawalDelay, MinWithdrawalDelay
<1>9. RecordWithinSkew'
    BY <1>1, <1>3 DEF ReplayInv, RecordWithinSkew
<1>10. PrunedIsStale'
    <2> SUFFICES ASSUME NEW q \in Promises, settlements'[q] > 0
                 PROVE  (\E r \in processed'.byHash : r.promise = q) \/ q.creation <= floor'
        BY Zenon DEF PrunedIsStale, IsPaymentPromiseProcessed
    <2>1. CASE q = p
        <3>1. rec \in processed'.byHash /\ rec.promise = q
            BY <1>3, <2>1, Zenon
        <3> QED
            BY <3>1, Zenon
    <2>2. CASE q # p
        <3>1. settlements[q] > 0
            BY <1>4, <2>2, Zenon DEF ReplayInv, ChainTypeOK
        <3>2. (\E r \in processed.byHash : r.promise = q) \/ q.creation <= floor
            BY <3>1, Zenon DEF ReplayInv, PrunedIsStale, IsPaymentPromiseProcessed
        <3> QED
            BY <1>3, <1>5, <3>2, Zenon
    <2> QED
        BY <2>1, <2>2, Zenon
<1>11. NoDoubleSettlement'
    BY <1>4 DEF ReplayInv, ChainTypeOK, NoDoubleSettlement
<1> QED
    BY <1>3, <1>7, <1>8, <1>9, <1>10, <1>11, Zenon DEF ReplayInv

\* BeginBlock raises the floor to at least t - WithdrawalDelay before it prunes
\* records filed WithdrawalDelay plus the skew ago: what it prunes is stale.
LEMMA BeginBlockReplay ==
    ASSUME ReplayInv, NEW t \in BlockTimes, BeginBlock(t)
    PROVE  ReplayInv'
<1> DEFINE pruned == {r \in processed.byTime : r.at <= t - PaymentPromiseRetentionWindow(params)}
<1>1. /\ t \in Nat /\ t > now
      /\ now' = t /\ height' = height + 1 /\ stage' = "deliver"
      /\ UNCHANGED <<params, settlements>>
    BY ClockAssumption, Zenon DEF BeginBlock
<1>2. /\ params.WithdrawalDelay \in Nat
      /\ MinWithdrawalDelay \in Nat
      /\ MinWithdrawalDelay <= params.WithdrawalDelay
    BY ValidParamBounds, Zenon DEF ReplayInv, ChainTypeOK, ParamsValid
<1>3. /\ floor' \in Int
      /\ floor' >= floor
      /\ floor' >= t - params.WithdrawalDelay
      /\ floor' <= t - MinWithdrawalDelay
    <2>1. floor' = Later(t - params.WithdrawalDelay, floor)
        BY Zenon DEF BeginBlock, updatePromiseFreshnessFloor
    <2>2. floor <= t - MinWithdrawalDelay
        BY <1>1, <1>2 DEF ReplayInv, ChainTypeOK, FloorBehind
    <2>3. t - params.WithdrawalDelay \in Int /\ floor \in Int
        BY <1>1, <1>2 DEF ReplayInv, ChainTypeOK
    <2>4. t - params.WithdrawalDelay <= t - MinWithdrawalDelay /\ t - MinWithdrawalDelay \in Int
        BY <1>1, <1>2
    <2> QED
        BY <2>1, <2>2, <2>3, <2>4, LaterProperties, Zenon
<1>4. /\ processed' = [byHash |-> processed.byHash \ pruned,
                       byTime |-> processed.byTime \ pruned]
      /\ processed'.byHash = processed.byHash \ pruned
    BY Zenon DEF BeginBlock, pruneProcessedPayments
<1>5. \A r \in pruned : r.promise.creation <= floor'
    <2> SUFFICES ASSUME NEW r \in pruned PROVE r.promise.creation <= floor'
        BY Zenon
    <2>1. r \in processed.byHash /\ r.promise \in Promises /\ r.at \in Int
        BY Zenon DEF ReplayInv, ChainTypeOK, ProcessedRecord
    <2>2. r.promise.creation <= r.at + MaxPromiseClockSkew
        BY <2>1, Zenon DEF ReplayInv, RecordWithinSkew
    <2>3. r.at + MaxPromiseClockSkew <= t - params.WithdrawalDelay
        BY <1>1, <1>2, <2>1, ParamAssumption DEF PaymentPromiseRetentionWindow
    <2> QED
        BY <1>1, <1>2, <1>3, <2>1, <2>2, <2>3, PromiseAssumption, ParamAssumption
<1>6. ChainTypeOK'
    BY <1>1, <1>3, <1>4 DEF ReplayInv, ChainTypeOK
<1>7. ParamsValid' /\ FloorBehind'
    BY <1>1, <1>3, Zenon DEF ReplayInv, ParamsValid, FloorBehind, ValidateParams, validateWithdrawalDelay, MinWithdrawalDelay
<1>8. processed'.byHash = processed'.byTime
    BY <1>4, Zenon DEF ReplayInv
<1>9. RecordWithinSkew'
    BY <1>4, Zenon DEF ReplayInv, RecordWithinSkew
<1>10. PrunedIsStale'
    <2> SUFFICES ASSUME NEW p \in Promises, settlements[p] > 0,
                        \A r \in processed'.byHash : r.promise # p
                 PROVE  p.creation <= floor'
        BY <1>1, Zenon DEF PrunedIsStale, IsPaymentPromiseProcessed
    <2>1. CASE p.creation <= floor
        BY <1>3, <2>1, PromiseAssumption DEF ReplayInv, ChainTypeOK
    <2>2. CASE \E r \in processed.byHash : r.promise = p
        BY <1>4, <1>5, <2>2, Zenon
    <2> QED
        BY <2>1, <2>2, Zenon DEF ReplayInv, PrunedIsStale, IsPaymentPromiseProcessed
<1>11. NoDoubleSettlement'
    BY <1>1, Zenon DEF ReplayInv, NoDoubleSettlement
<1> QED
    BY <1>6, <1>7, <1>8, <1>9, <1>10, <1>11, Zenon DEF ReplayInv

\* Every step of the keeper preserves the invariant.
LEMMA NextReplay == ReplayInv /\ [Next]_vars => ReplayInv'
<1> SUFFICES ASSUME ReplayInv, [Next]_vars PROVE ReplayInv'
    BY Zenon
<1>1. ASSUME NEW t \in BlockTimes, BeginBlock(t) PROVE ReplayInv'
    BY <1>1, BeginBlockReplay, Zenon
<1>2. ASSUME NEW s \in Signers, NEW a \in Amounts, DepositToEscrow(s, a) PROVE ReplayInv'
    BY <1>2, UnchangedReplay, Zenon DEF DepositToEscrow, ReplayInv, ChainTypeOK
<1>3. ASSUME NEW s \in Signers, NEW a \in Amounts, RequestWithdrawal(s, a) PROVE ReplayInv'
    BY <1>3, UnchangedReplay, Zenon DEF RequestWithdrawal, ReplayInv, ChainTypeOK
<1>4. ASSUME NEW p \in Promises, PayForFibre(p) PROVE ReplayInv'
    BY <1>4, SettleReplay, Zenon DEF PayForFibre
<1>5. ASSUME NEW p \in Promises, PaymentPromiseTimeout(p) PROVE ReplayInv'
    BY <1>5, SettleReplay, Zenon DEF PaymentPromiseTimeout
<1>6. ASSUME NEW p \in ParamInputs, UpdateFibreParams(p) PROVE ReplayInv'
    <2>1. params' = p /\ p \in ParamRecord /\ ValidateParams(p)
        BY <1>6, ParamAssumption, Zenon DEF UpdateFibreParams
    <2>2. stage' = "end" /\ UNCHANGED <<now, height, floor, processed, settlements>>
        BY <1>6, Zenon DEF UpdateFibreParams, promiseVars
    <2>3. ChainTypeOK'
        BY <2>1, <2>2, Zenon DEF ReplayInv, ChainTypeOK
    <2>4. ParamsValid' /\ FloorBehind'
        BY <2>1, <2>2, Zenon DEF ReplayInv, ParamsValid, FloorBehind, ValidateParams, validateWithdrawalDelay, MinWithdrawalDelay
    <2> QED
        BY <2>2, <2>3, <2>4, Zenon
           DEF ReplayInv, RecordWithinSkew, PrunedIsStale, NoDoubleSettlement,
               IsPaymentPromiseProcessed
<1>7. ASSUME NEW h \in {0, height}, ExportImport(h) PROVE ReplayInv'
    <2>1. processed' = processed
        BY <1>7, Zenon DEF ExportImport, ReplayInv, ChainTypeOK
    <2> QED
        BY <1>7, <2>1, UnchangedReplay
           DEF ExportImport, ExportedFloor, ReplayInv, ChainTypeOK, promiseVars
<1>8. CASE UNCHANGED vars
    BY <1>8, UnchangedReplay, Zenon DEF vars, ReplayInv, ChainTypeOK
<1> QED
    BY <1>1, <1>2, <1>3, <1>4, <1>5, <1>6, <1>7, <1>8, Zenon DEF Next, Deliver, Governance

\* The inductive invariant holds in every reachable state.
THEOREM ReplayInvariant == Spec => []ReplayInv
BY InitReplay, NextReplay, PTL DEF Spec

\* The variables that promise validation reads keep their types.
THEOREM ChainTypeCorrect == Spec => []ChainTypeOK
<1>1. ReplayInv => ChainTypeOK
    BY Zenon DEF ReplayInv
<1> QED
    BY <1>1, ReplayInvariant, PTL

\* No payment promise settles twice, for any promises, block times, deposits,
\* withdrawals, governance changes of the parameters and genesis exports.
THEOREM SettlesAtMostOnce == Spec => []NoDoubleSettlement
<1>1. ReplayInv => NoDoubleSettlement
    BY Zenon DEF ReplayInv
<1> QED
    BY <1>1, ReplayInvariant, PTL

\* A settled promise without a record lies at or below the freshness floor.
THEOREM PruningIsSafe == Spec => []PrunedIsStale
<1>1. ReplayInv => PrunedIsStale
    BY Zenon DEF ReplayInv
<1> QED
    BY <1>1, ReplayInvariant, PTL

\* A promise is fresh for MinWithdrawalDelay, whatever governance did.
THEOREM PromiseStaysFresh == Spec => []FreshForMinimumDelay
<1>1. ReplayInv => FreshForMinimumDelay
    <2> SUFFICES ASSUME ReplayInv, NEW p \in Promises, now < p.creation + MinWithdrawalDelay
                 PROVE  Fresh(p)
        BY Zenon DEF FreshForMinimumDelay
    <2>1. /\ p.creation \in Int /\ now \in Int /\ floor \in Int
          /\ params.WithdrawalDelay \in Nat /\ MinWithdrawalDelay \in Nat
          /\ MinWithdrawalDelay <= params.WithdrawalDelay
        BY PromiseAssumption, ValidParamBounds DEF ReplayInv, ChainTypeOK, ParamsValid
    <2>2. now - params.WithdrawalDelay < p.creation /\ floor < p.creation
        BY <2>1 DEF ReplayInv, FloorBehind
    <2> QED
        BY <2>1, <2>2, Zenon DEF Fresh, minAllowedTime, Later
<1> QED
    BY <1>1, ReplayInvariant, PTL

\* The timeout settlement window is never empty: from the largest timeout on,
\* a funded, unprocessed promise can be claimed for the whole margin.
THEOREM TimeoutPathUsable == Spec => []TimeoutWindowOpen
<1>1. ReplayInv /\ FreshForMinimumDelay => TimeoutWindowOpen
    <2> SUFFICES ASSUME ReplayInv, FreshForMinimumDelay, NEW p \in Promises,
                        now >= p.creation + MaxPaymentPromiseTimeout,
                        now < p.creation + MaxPaymentPromiseTimeout + MinTimeoutSettlementWindow,
                        ~IsPaymentPromiseProcessed(p),
                        escrow[p.signer].found, escrow[p.signer].balance >= p.amount
                 PROVE  validatePaymentPromiseStatefulInternal(p, TRUE) /\ now >= expirationTime(p)
        BY Zenon DEF TimeoutWindowOpen
    <2>1. /\ p.creation \in Int /\ now \in Int
          /\ params.PaymentPromiseTimeout \in Nat
          /\ params.PaymentPromiseTimeout <= MaxPaymentPromiseTimeout
        BY PromiseAssumption, ValidParamBounds DEF ReplayInv, ChainTypeOK, ParamsValid
    <2>2. Fresh(p)
        BY <2>1, ParamAssumption DEF FreshForMinimumDelay, MinWithdrawalDelay
    <2>3. p.creation <= now + MaxPromiseClockSkew /\ now >= expirationTime(p)
        BY <2>1, ParamAssumption DEF expirationTime
    <2> QED
        BY <2>2, <2>3, Zenon DEF validatePaymentPromiseStatefulInternal
<1> QED
    BY <1>1, ReplayInvariant, PromiseStaysFresh, PTL

\* The freshness floor never moves back.
THEOREM FloorNeverFalls == Spec => FloorMonotone
<1>1. ReplayInv /\ [Next]_vars => [floor' >= floor]_vars
    <2> SUFFICES ASSUME ReplayInv, [Next]_vars PROVE [floor' >= floor]_vars
        BY Zenon
    <2>1. floor \in Int
        BY Zenon DEF ReplayInv, ChainTypeOK
    <2>2. ASSUME NEW t \in BlockTimes, BeginBlock(t) PROVE floor' >= floor
        <3>1. floor' = Later(t - params.WithdrawalDelay, floor)
            BY <2>2, Zenon DEF BeginBlock, updatePromiseFreshnessFloor
        <3>2. t - params.WithdrawalDelay \in Int
            BY ClockAssumption, ValidParamBounds DEF ReplayInv, ChainTypeOK, ParamsValid
        <3> QED
            BY <2>1, <3>1, <3>2, LaterProperties, Zenon
    <2>3. CASE Next /\ ~\E t \in BlockTimes : BeginBlock(t)
        <3>1. floor' = floor
            BY <2>3, Zenon DEF Next, Deliver, Governance, DepositToEscrow, RequestWithdrawal,
               PayForFibre, PaymentPromiseTimeout, Settle, UpdateFibreParams, ExportImport,
               ExportedFloor, promiseVars
        <3> QED
            BY <2>1, <3>1
    <2> QED
        BY <2>2, <2>3, Zenon
<1> QED
    BY <1>1, ReplayInvariant, PTL DEF Spec, FloorMonotone

-----------------------------------------------------------------------------
(* The loops over withdrawals                                              *)

Accounts == [Signers -> [found : BOOLEAN, balance : Nat, available : Nat]]
Indexes == [bySigner : SUBSET WithdrawalRecord, byAvailable : SUBSET WithdrawalRecord]
ReduceStates == [remaining : Nat, ws : Indexes]
PayStates == [escrow : Accounts, module : Nat, wallet : [Signers -> Nat], ws : Indexes]

\* At most one request of a signer bears a request time.
OneRequest(index) == \A v, w \in index : SameRequest(v, w) => v = w

\* The requests of one signer have a last one.
LEMMA LastRequestedIn ==
    ASSUME NEW S \in SUBSET WithdrawalRecord, IsFiniteSet(S), S # {}, OneRequest(S),
           \A v, w \in S : v.signer = w.signer
    PROVE  LastRequested(S) \in S
<1> DEFINE R == {x \in S \X S : BySignerOrder(x[1], x[2])}
<1>1. \A v, w \in S : <<v, w>> \in R <=> v.requested < w.requested
    BY Zenon DEF BySignerOrder
<1> HIDE DEF R
<1>2. \A v \in S : v.requested \in Int
    BY Zenon DEF WithdrawalRecord
<1>3. \A v, w \in S : v # w => <<v, w>> \in R \/ <<w, v>> \in R
    BY <1>1, <1>2 DEF OneRequest, SameRequest
<1>4. \A u, v, w \in S : <<u, v>> \in R /\ <<v, w>> \in R => <<u, w>> \in R
    BY <1>1, <1>2
<1>5. \E w \in S : \A v \in S \ {w} : <<v, w>> \in R
    BY <1>3, <1>4, LastExists, Zenon
<1>6. \E w \in S : \A v \in S \ {w} : BySignerOrder(v, w)
    BY <1>1, <1>5, Zenon DEF BySignerOrder
<1> QED BY <1>6, Zenon DEF LastRequested

\* The requests of all signers have a last one in the order of the by-available index.
LEMMA LastAvailableIn ==
    ASSUME NEW S \in SUBSET WithdrawalRecord, IsFiniteSet(S), S # {}, OneRequest(S)
    PROVE  LastAvailable(S) \in S
<1> DEFINE R == {x \in S \X S : ByAvailableOrder(x[1], x[2])}
<1>1. \A v, w \in S : <<v, w>> \in R <=> ByAvailableOrder(v, w)
    BY Zenon
<1> HIDE DEF R
<1>2. \A v \in S : v.requested \in Int /\ v.available \in Int /\ v.signer \in Int
    <2>1. \A v \in S : v.requested \in Int /\ v.available \in Int /\ v.signer \in Signers
        BY Zenon DEF WithdrawalRecord
    <2>2. \A s \in Signers : s \in Int
        BY FundsAssumption
    <2> QED BY <2>1, <2>2, Zenon
<1>3. \A v, w \in S : v # w => <<v, w>> \in R \/ <<w, v>> \in R
    BY <1>1, <1>2 DEF OneRequest, SameRequest, ByAvailableOrder
<1>4. \A u, v, w \in S : <<u, v>> \in R /\ <<v, w>> \in R => <<u, w>> \in R
    BY <1>1, <1>2 DEF ByAvailableOrder
<1>5. \E w \in S : \A v \in S \ {w} : <<v, w>> \in R
    BY <1>3, <1>4, LastExists, Zenon
<1>6. \E w \in S : \A v \in S \ {w} : ByAvailableOrder(v, w)
    BY <1>1, <1>5, Zenon
<1> QED BY <1>6, Zenon DEF LastAvailable

\* A turn of either loop yields a well-formed state.
LEMMA ReduceWithdrawalType ==
    ASSUME NEW acc \in ReduceStates, NEW w \in WithdrawalRecord
    PROVE  ReduceWithdrawal(w, acc) \in ReduceStates
<1>1. /\ acc.remaining \in Nat /\ w.amount \in Nat
      /\ acc.ws \in Indexes
    BY Zenon DEF ReduceStates, WithdrawalRecord
<1>2. CASE acc.remaining = 0
    BY <1>2 DEF ReduceWithdrawal
<1>3. CASE acc.remaining > 0 /\ acc.remaining >= w.amount
    <2>1. DeleteWithdrawal(acc.ws, w) \in Indexes
        BY <1>1, Zenon DEF DeleteWithdrawal, Indexes, Without
    <2> QED BY <1>1, <1>3, <2>1 DEF ReduceWithdrawal, ReduceStates
<1>4. CASE acc.remaining > 0 /\ acc.remaining < w.amount
    <2> DEFINE v == [w EXCEPT !.amount = @ - acc.remaining]
    <2>1. v \in WithdrawalRecord
        BY <1>1, <1>4 DEF WithdrawalRecord
    <2> HIDE DEF v
    <2>2. SetWithdrawal(acc.ws, v) \in Indexes
        BY <1>1, <2>1, Zenon DEF SetWithdrawal, Indexes, Without
    <2>3. ReduceWithdrawal(w, acc) = [remaining |-> 0, ws |-> SetWithdrawal(acc.ws, v)]
        BY <1>1, <1>4 DEF ReduceWithdrawal, v
    <2> QED BY <2>2, <2>3 DEF ReduceStates
<1> QED BY <1>1, <1>2, <1>3, <1>4

\* See ReduceWithdrawalType.
LEMMA PayWithdrawalType ==
    ASSUME NEW acc \in PayStates, NEW w \in WithdrawalRecord
    PROVE  PayWithdrawal(w, acc) \in PayStates
<1>1. /\ acc.escrow \in Accounts /\ acc.module \in Nat /\ acc.wallet \in [Signers -> Nat]
      /\ acc.ws \in Indexes /\ w.amount \in Nat /\ w.signer \in Signers
    BY Zenon DEF PayStates, WithdrawalRecord
<1> DEFINE pays == /\ acc.escrow[w.signer].found
                   /\ acc.escrow[w.signer].balance >= w.amount
                   /\ acc.module >= w.amount
<1>2. CASE ~pays
    BY <1>2, Zenon DEF PayWithdrawal
<1>3. CASE pays
    <2>1. DeleteWithdrawal(acc.ws, w) \in Indexes
        BY <1>1, Zenon DEF DeleteWithdrawal, Indexes, Without
    <2>2. acc.module - w.amount \in Nat
        BY <1>1, <1>3
    <2>3. [acc.wallet EXCEPT ![w.signer] = @ + w.amount] \in [Signers -> Nat]
        BY <1>1
    <2>4. [acc.escrow EXCEPT ![w.signer].balance = @ - w.amount] \in Accounts
        BY <1>1, <1>3 DEF Accounts
    <2> QED BY <1>3, <2>1, <2>2, <2>3, <2>4, Zenon DEF PayWithdrawal, PayStates
<1> QED BY <1>2, <1>3, Zenon

\* The recursions behind the two folds.
ReduceLevel(base, g, W) ==
    IF W = {} THEN base ELSE ReduceWithdrawal(LastRequested(W), g[W \ {LastRequested(W)}])
IsReduceFold(base, S, g) == g = [W \in SUBSET S |-> ReduceLevel(base, g, W)]

PayLevel(base, g, W) ==
    IF W = {} THEN base ELSE PayWithdrawal(LastAvailable(W), g[W \ {LastAvailable(W)}])
IsPayFold(base, S, g) == g = [W \in SUBSET S |-> PayLevel(base, g, W)]

Mine(s) == {w \in withdrawals.bySigner : w.signer = s}

\* ReduceWithdrawalsForPayment runs its loop over the signer's requests, one by one.
LEMMA ReduceFold ==
    ASSUME withdrawals \in Indexes, IsFiniteSet(withdrawals.bySigner),
           OneRequest(withdrawals.bySigner), NEW s, NEW shortfall \in Nat
    PROVE  \E g : /\ ReduceWithdrawalsForPayment(s, shortfall) = g[Mine(s)]
                  /\ \A W \in SUBSET Mine(s) :
                        g[W] = ReduceLevel([remaining |-> shortfall, ws |-> withdrawals], g, W)
<1> DEFINE S == Mine(s)
           base == [remaining |-> shortfall, ws |-> withdrawals]
           pick == [W \in SUBSET S |-> LastRequested(W)]
           step == [x \in S \X ReduceStates |-> ReduceWithdrawal(x[1], x[2])]
<1>1. S \in SUBSET WithdrawalRecord /\ IsFiniteSet(S) /\ OneRequest(S)
    BY FS_Subset, Zenon DEF Mine, OneRequest, Indexes
<1>2. \A W \in SUBSET S : W # {} => LastRequested(W) \in W
    BY <1>1, LastRequestedIn, FS_Subset, Zenon DEF Mine, OneRequest
<1>3. base \in ReduceStates
    BY Zenon DEF ReduceStates
<1>4. \A w \in S, acc \in ReduceStates :
         /\ step[<<w, acc>>] = ReduceWithdrawal(w, acc)
         /\ ReduceWithdrawal(w, acc) \in ReduceStates
    BY <1>1, ReduceWithdrawalType, Zenon
<1>5. step \in [S \X ReduceStates -> ReduceStates]
    BY <1>4, Zenon
<1>6. \A W \in SUBSET S : pick[W] = LastRequested(W)
    BY Zenon
<1>7. ReduceWithdrawalsForPayment(s, shortfall) = (CHOOSE g : IsReduceFold(base, S, g))[S]
    BY Zenon DEF ReduceWithdrawalsForPayment, MapThenFoldSet, IsReduceFold, ReduceLevel, Mine
<1> HIDE DEF S, base, pick, step
<1>8. PICK g \in [SUBSET S -> ReduceStates] : IsFold(S, pick, step, base, g)
    <2>1. \A W \in SUBSET S : W # {} => pick[W] \in W
        BY <1>2, <1>6, Zenon
    <2> QED BY <1>1, <1>3, <1>5, <2>1, FoldExists, Zenon
<1>9. ASSUME NEW W \in SUBSET S PROVE g[W] = ReduceLevel(base, g, W)
    <2>1. CASE W = {}
        BY <1>8, <2>1, Zenon DEF IsFold, ReduceLevel
    <2>2. CASE W # {}
        <3>1. LastRequested(W) \in S /\ g[W \ {LastRequested(W)}] \in ReduceStates
            BY <1>2, <2>2, Zenon
        <3>2. g[W] = step[<<LastRequested(W), g[W \ {LastRequested(W)}]>>]
            BY <1>6, <1>8, <2>2, Zenon DEF IsFold
        <3> QED BY <1>4, <2>2, <3>1, <3>2, Zenon DEF ReduceLevel
    <2> QED BY <2>1, <2>2, Zenon
<1>10. IsReduceFold(base, S, g)
    <2>1. g = [W \in SUBSET S |-> g[W]]
        BY Zenon
    <2> QED BY <1>9, <2>1, Zenon DEF IsReduceFold
<1> DEFINE f == CHOOSE h : IsReduceFold(base, S, h)
<1>11. IsReduceFold(base, S, f)
    BY <1>10, Zenon
<1> HIDE DEF f
<1>12. \A W \in SUBSET S : f[W] = ReduceLevel(base, f, W)
    BY <1>11, Zenon DEF IsReduceFold
<1>13. ReduceWithdrawalsForPayment(s, shortfall) = f[S]
    BY <1>7, Zenon DEF f
<1> QED BY <1>12, <1>13, Zenon DEF S, base

Paid(t) ==
    MapThenFoldSet(PayWithdrawal,
                   [escrow |-> escrow, module |-> module,
                    wallet |-> wallet, ws |-> withdrawals],
                   LAMBDA w : w, LastAvailable, DueWithdrawals(t))

\* BeginBlocker runs its loop over the due requests, one by one.
LEMMA PayFold ==
    ASSUME withdrawals \in Indexes, IsFiniteSet(withdrawals.byAvailable),
           OneRequest(withdrawals.byAvailable), escrow \in Accounts, module \in Nat,
           wallet \in [Signers -> Nat], NEW t
    PROVE  \E g : /\ Paid(t) = g[DueWithdrawals(t)]
                  /\ \A W \in SUBSET DueWithdrawals(t) :
                        g[W] = PayLevel([escrow |-> escrow, module |-> module,
                                         wallet |-> wallet, ws |-> withdrawals], g, W)
<1> DEFINE S == DueWithdrawals(t)
           base == [escrow |-> escrow, module |-> module, wallet |-> wallet, ws |-> withdrawals]
           pick == [W \in SUBSET S |-> LastAvailable(W)]
           step == [x \in S \X PayStates |-> PayWithdrawal(x[1], x[2])]
<1>1. S \in SUBSET WithdrawalRecord /\ IsFiniteSet(S) /\ OneRequest(S)
    BY FS_Subset, Zenon DEF DueWithdrawals, OneRequest, Indexes
<1>2. \A W \in SUBSET S : W # {} => LastAvailable(W) \in W
    BY <1>1, LastAvailableIn, FS_Subset, Zenon DEF OneRequest
<1>3. base \in PayStates
    BY Zenon DEF PayStates
<1>4. \A w \in S, acc \in PayStates :
         /\ step[<<w, acc>>] = PayWithdrawal(w, acc)
         /\ PayWithdrawal(w, acc) \in PayStates
    BY <1>1, PayWithdrawalType, Zenon
<1>5. step \in [S \X PayStates -> PayStates]
    BY <1>4, Zenon
<1>6. \A W \in SUBSET S : pick[W] = LastAvailable(W)
    BY Zenon
<1>7. Paid(t) = (CHOOSE g : IsPayFold(base, S, g))[S]
    BY Zenon DEF Paid, MapThenFoldSet, IsPayFold, PayLevel
<1> HIDE DEF S, base, pick, step
<1>8. PICK g \in [SUBSET S -> PayStates] : IsFold(S, pick, step, base, g)
    <2>1. \A W \in SUBSET S : W # {} => pick[W] \in W
        BY <1>2, <1>6, Zenon
    <2> QED BY <1>1, <1>3, <1>5, <2>1, FoldExists, Zenon
<1>9. ASSUME NEW W \in SUBSET S PROVE g[W] = PayLevel(base, g, W)
    <2>1. CASE W = {}
        BY <1>8, <2>1, Zenon DEF IsFold, PayLevel
    <2>2. CASE W # {}
        <3>1. LastAvailable(W) \in S /\ g[W \ {LastAvailable(W)}] \in PayStates
            BY <1>2, <2>2, Zenon
        <3>2. g[W] = step[<<LastAvailable(W), g[W \ {LastAvailable(W)}]>>]
            BY <1>6, <1>8, <2>2, Zenon DEF IsFold
        <3> QED BY <1>4, <2>2, <3>1, <3>2, Zenon DEF PayLevel
    <2> QED BY <2>1, <2>2, Zenon
<1>10. IsPayFold(base, S, g)
    <2>1. g = [W \in SUBSET S |-> g[W]]
        BY Zenon
    <2> QED BY <1>9, <2>1, Zenon DEF IsPayFold
<1> DEFINE f == CHOOSE h : IsPayFold(base, S, h)
<1>11. IsPayFold(base, S, f)
    BY <1>10, Zenon
<1> HIDE DEF f
<1>12. \A W \in SUBSET S : f[W] = PayLevel(base, f, W)
    BY <1>11, Zenon DEF IsPayFold
<1>13. Paid(t) = f[S]
    BY <1>7, Zenon DEF f
<1> QED BY <1>12, <1>13, Zenon DEF S, base

-----------------------------------------------------------------------------
(* What requests lock and what accounts hold                               *)

\* Amounts of requests are natural numbers, and so is what they lock.
LEMMA LockedNat ==
    ASSUME NEW index \in SUBSET WithdrawalRecord, IsFiniteSet(index), NEW s
    PROVE  Locked(index, s) \in Nat
<1> DEFINE S == {w \in index : w.signer = s}
<1>1. IsFiniteSet(S) /\ \A w \in S : requestAmount[w] \in Nat
    BY FS_Subset, Zenon DEF requestAmount, WithdrawalRecord
<1> HIDE DEF S
<1>2. SumFunctionOnSet(requestAmount, S) \in Nat
    BY <1>1, SumNat, Zenon
<1> QED BY <1>2, Zenon DEF Locked, S

\* A new request locks its amount, for its signer only.
LEMMA LockedAdd ==
    ASSUME NEW index \in SUBSET WithdrawalRecord, IsFiniteSet(index),
           NEW w \in WithdrawalRecord, w \notin index, NEW s
    PROVE  Locked(index \cup {w}, s) = Locked(index, s) + IF w.signer = s THEN w.amount ELSE 0
<1> DEFINE S == {v \in index : v.signer = s}
           R == {v \in index \cup {w} : v.signer = s}
<1>1. IsFiniteSet(S) /\ \A v \in S : requestAmount[v] \in Int
    BY FS_Subset DEF requestAmount, WithdrawalRecord
<1>2. requestAmount[w] = w.amount /\ w.amount \in Int /\ w \notin S
    BY DEF requestAmount, WithdrawalRecord
<1>3. Locked(index, s) \in Nat
    BY LockedNat, Zenon
<1>4. CASE w.signer = s
    <2>1. R = S \cup {w}
        BY <1>4, Zenon
    <2> HIDE DEF S, R
    <2>2. SumFunctionOnSet(requestAmount, S \cup {w}) = SumFunctionOnSet(requestAmount, S) + requestAmount[w]
        BY <1>1, <1>2, SumAdd, Zenon
    <2>3. SumFunctionOnSet(requestAmount, R) = SumFunctionOnSet(requestAmount, S) + w.amount
        BY <1>2, <2>1, <2>2, Zenon
    <2> QED BY <1>4, <2>3, Zenon DEF Locked, S, R
<1>5. CASE w.signer # s
    <2>1. R = S
        BY <1>5, Zenon
    <2>2. Locked(index \cup {w}, s) = Locked(index, s)
        BY <2>1, Zenon DEF Locked
    <2> QED BY <1>3, <1>5, <2>2
<1> QED BY <1>4, <1>5, Zenon

\* A request that goes unlocks its amount, which was locked before.
LEMMA LockedRemove ==
    ASSUME NEW index \in SUBSET WithdrawalRecord, IsFiniteSet(index), NEW w \in index, NEW s
    PROVE  /\ Locked(index \ {w}, s) = Locked(index, s) - IF w.signer = s THEN w.amount ELSE 0
           /\ Locked(index, w.signer) >= w.amount
<1>1. /\ index \ {w} \in SUBSET WithdrawalRecord /\ IsFiniteSet(index \ {w})
      /\ w \notin index \ {w} /\ (index \ {w}) \cup {w} = index /\ w \in WithdrawalRecord
    BY FS_RemoveElement, Zenon
<1>2. ASSUME NEW x PROVE Locked(index, x) = Locked(index \ {w}, x) + IF w.signer = x THEN w.amount ELSE 0
    <2>1. Locked((index \ {w}) \cup {w}, x) = Locked(index \ {w}, x) + IF w.signer = x THEN w.amount ELSE 0
        BY <1>1, LockedAdd, Zenon
    <2> QED BY <1>1, <2>1, Zenon
<1>3. \A x : Locked(index \ {w}, x) \in Nat
    BY <1>1, LockedNat, Zenon
<1>4. w.amount \in Nat
    BY Zenon DEF WithdrawalRecord
<1>5. Locked(index \ {w}, s) = Locked(index, s) - IF w.signer = s THEN w.amount ELSE 0
    BY <1>2, <1>3, <1>4
<1>6. Locked(index, w.signer) = Locked(index \ {w}, w.signer) + w.amount
    BY <1>2, Zenon
<1>7. Locked(index \ {w}, w.signer) \in Nat
    BY <1>3, Zenon
<1>8. Locked(index, w.signer) >= w.amount
    BY <1>4, <1>6, <1>7
<1> QED BY <1>5, <1>8, Zenon

\* The balances add up to at least each of them, and the sum follows one that changes.
LEMMA BalancesProperties ==
    ASSUME NEW a \in Accounts, NEW b \in Accounts, NEW s \in Signers,
           \A x \in Signers \ {s} : b[x].balance = a[x].balance
    PROVE  /\ Balances(a) \in Nat
           /\ Balances(a) >= a[s].balance
           /\ Balances(b) = Balances(a) - a[s].balance + b[s].balance
<1> DEFINE f == [x \in Signers |-> a[x].balance]
           g == [x \in Signers |-> b[x].balance]
<1>1. IsFiniteSet(Signers) /\ IsFiniteSet(Signers \ {s})
    BY FundsAssumption, FS_RemoveElement, Zenon
<1>2. \A x \in Signers : f[x] \in Nat /\ g[x] \in Nat /\ f[x] \in Int /\ g[x] \in Int
    BY DEF Accounts
<1>3. \A x \in Signers \ {s} : g[x] = f[x]
    BY Zenon
<1>4. f[s] = a[s].balance /\ g[s] = b[s].balance
    BY Zenon
<1>5. Balances(a) = SumFunctionOnSet(f, Signers) /\ Balances(b) = SumFunctionOnSet(g, Signers)
    BY Zenon DEF Balances
<1> HIDE DEF f, g
<1>6. SumFunctionOnSet(f, Signers) \in Nat /\ SumFunctionOnSet(f, Signers \ {s}) \in Nat
    BY <1>1, <1>2, SumNat, Zenon
<1>7. SumFunctionOnSet(f, Signers) = f[s] + SumFunctionOnSet(f, Signers \ {s})
    BY <1>1, <1>2, SumRemove
<1>8. SumFunctionOnSet(g, Signers) = SumFunctionOnSet(f, Signers) - f[s] + g[s]
    BY <1>1, <1>2, <1>3, SumUpdate
<1>9. f[s] \in Nat
    BY <1>2, Zenon
<1> QED BY <1>4, <1>5, <1>6, <1>7, <1>8, <1>9

\* Where requests are told apart by signer and time, removing one removes only it.
LEMMA WithoutOne ==
    ASSUME NEW index, OneRequest(index), NEW w \in index
    PROVE  Without(index, w) = index \ {w}
BY Zenon DEF Without, OneRequest, SameRequest

-----------------------------------------------------------------------------
(* Paying withdrawals                                                      *)

\* The state of the payout loop is in balance: indexes, accounts and coins agree.
InBalance(acc) ==
    /\ acc.ws.byAvailable = acc.ws.bySigner
    /\ IsFiniteSet(acc.ws.bySigner)
    /\ OneRequest(acc.ws.bySigner)
    /\ \A w \in acc.ws.bySigner : acc.escrow[w.signer].found
    /\ \A s \in Signers :
          acc.escrow[s].balance = acc.escrow[s].available + Locked(acc.ws.bySigner, s)
    /\ acc.module = Balances(acc.escrow)

\* A request in the index can be paid, and paying it keeps the balance.
LEMMA PayKeepsBalance ==
    ASSUME NEW acc \in PayStates, InBalance(acc), NEW w \in acc.ws.bySigner
    PROVE  /\ PayWithdrawal(w, acc) \in PayStates
           /\ InBalance(PayWithdrawal(w, acc))
           /\ PayWithdrawal(w, acc).ws.bySigner = acc.ws.bySigner \ {w}
<1> DEFINE s == w.signer
           index == acc.ws.bySigner
           left == [acc.escrow EXCEPT ![s].balance = @ - w.amount]
           r == [escrow |-> left, module |-> acc.module - w.amount,
                 wallet |-> [acc.wallet EXCEPT ![s] = @ + w.amount],
                 ws |-> [bySigner |-> index \ {w}, byAvailable |-> index \ {w}]]
<1>1. /\ acc.escrow \in Accounts /\ acc.ws \in Indexes /\ w \in WithdrawalRecord
      /\ index \in SUBSET WithdrawalRecord /\ IsFiniteSet(index) /\ s \in Signers
      /\ w.amount \in Nat
    BY Zenon DEF PayStates, Indexes, InBalance, WithdrawalRecord
<1>2. \A x : /\ Locked(index \ {w}, x) = Locked(index, x) - IF s = x THEN w.amount ELSE 0
             /\ Locked(index, x) \in Nat
             /\ Locked(index, s) >= w.amount
    BY <1>1, LockedRemove, LockedNat, Zenon
<1>3. /\ acc.escrow[s].found
      /\ acc.escrow[s].balance = acc.escrow[s].available + Locked(index, s)
      /\ acc.escrow[s].balance \in Nat /\ acc.escrow[s].available \in Nat
    BY <1>1, Zenon DEF InBalance, Accounts
<1>4. acc.escrow[s].balance >= w.amount
    BY <1>1, <1>2, <1>3, SMTT(30)
<1>5. acc.module \in Nat /\ acc.module >= w.amount
    <2>1. acc.module = Balances(acc.escrow) /\ Balances(acc.escrow) >= acc.escrow[s].balance
          /\ Balances(acc.escrow) \in Nat
        BY <1>1, BalancesProperties, Zenon DEF InBalance
    <2> QED BY <1>1, <1>3, <1>4, <2>1
<1>6. DeleteWithdrawal(acc.ws, w) = [bySigner |-> index \ {w}, byAvailable |-> index \ {w}]
    BY WithoutOne, Zenon DEF DeleteWithdrawal, InBalance
<1>7. PayWithdrawal(w, acc) = r
    BY <1>3, <1>4, <1>5, <1>6, Zenon DEF PayWithdrawal
<1>8. PayWithdrawal(w, acc) \in PayStates
    BY <1>1, PayWithdrawalType, Zenon
<1>9. /\ left \in Accounts
      /\ left[s].balance = acc.escrow[s].balance - w.amount
      /\ \A x \in Signers \ {s} : left[x] = acc.escrow[x]
      /\ \A x \in Signers : left[x].found = acc.escrow[x].found /\ left[x].available = acc.escrow[x].available
    <2> DEFINE a == acc.escrow[s]
               b == [a EXCEPT !.balance = @ - w.amount]
    <2>1. acc.escrow[s].balance - w.amount \in Nat
        BY <1>1, <1>3, <1>4
    <2>2. \A x \in Signers : acc.escrow[x] \in [found : BOOLEAN, balance : Nat, available : Nat]
        BY <1>1, Zenon DEF Accounts
    <2>3. a \in [found : BOOLEAN, balance : Nat, available : Nat]
        BY <1>1, <2>2, Zenon
    <2>4. /\ b \in [found : BOOLEAN, balance : Nat, available : Nat]
          /\ b.balance = a.balance - w.amount /\ b.found = a.found /\ b.available = a.available
        <3>1. PICK n : n = a.balance - w.amount
            BY Zenon
        <3>2. n \in Nat /\ b = [a EXCEPT !.balance = n]
            BY <2>1, <3>1, Zenon
        <3> HIDE DEF a
        <3> QED BY <2>3, <3>1, <3>2, Zenon
    <2>5. left = [acc.escrow EXCEPT ![s] = b]
        BY Zenon
    <2> HIDE DEF b
    <2>6. left[s] = b /\ \A x \in Signers \ {s} : left[x] = acc.escrow[x]
        BY <1>1, <2>5, Zenon DEF Accounts
    <2>7. left \in Accounts
        BY <1>1, <2>4, <2>5, Zenon DEF Accounts
    <2> QED BY <2>4, <2>6, <2>7, Zenon
<1> HIDE DEF s, index, left
<1>10. ASSUME NEW x \in Signers PROVE left[x].balance = left[x].available + Locked(index \ {w}, x)
    <2>1. acc.escrow[x].balance = acc.escrow[x].available + Locked(index, x)
          /\ acc.escrow[x].balance \in Nat /\ acc.escrow[x].available \in Nat
        BY <1>1, Zenon DEF InBalance, index, Accounts
    <2>2. Locked(index, x) \in Nat /\ left[x].available = acc.escrow[x].available
        BY <1>2, <1>9, Zenon
    <2>3. CASE x = s
        <3>1. Locked(index \ {w}, x) = Locked(index, x) - w.amount
            BY <1>2, <2>3, Zenon
        <3>2. left[x].balance = acc.escrow[x].balance - w.amount
            BY <1>9, <2>3, Zenon
        <3> QED BY <1>1, <2>1, <2>2, <3>1, <3>2
    <2>4. CASE x # s
        <3>1. Locked(index \ {w}, x) = Locked(index, x) - 0
            BY <1>2, <2>4, Zenon
        <3>2. left[x].balance = acc.escrow[x].balance
            BY <1>9, <2>4, Zenon
        <3> QED BY <2>1, <2>2, <3>1, <3>2
    <2> QED BY <2>3, <2>4, Zenon
<1>11. acc.module - w.amount = Balances(left)
    <2>1. Balances(left) = Balances(acc.escrow) - acc.escrow[s].balance + left[s].balance
          /\ Balances(acc.escrow) \in Nat
        BY <1>1, <1>9, BalancesProperties, Zenon
    <2>2. acc.module = Balances(acc.escrow)
        BY Zenon DEF InBalance
    <2> QED BY <1>1, <1>3, <1>9, <2>1, <2>2
<1>12. IsFiniteSet(index \ {w}) /\ OneRequest(index \ {w})
    BY <1>1, FS_RemoveElement, Zenon DEF InBalance, OneRequest, index
<1>13. \A v \in index \ {w} : left[v.signer].found
    <2>1. \A v \in index : v.signer \in Signers /\ acc.escrow[v.signer].found
        BY <1>1, Zenon DEF InBalance, index, WithdrawalRecord
    <2> QED BY <1>9, <2>1, Zenon
<1>14. InBalance(r)
    BY <1>10, <1>11, <1>12, <1>13, Zenon DEF InBalance
<1> QED BY <1>7, <1>8, <1>14 DEF index

\* The withdrawals are settled in full: BeginBlocker's loop pays every due request.
LEMMA PaidInBalance ==
    ASSUME NEW t, escrow \in Accounts, module \in Nat, wallet \in [Signers -> Nat],
           withdrawals \in Indexes,
           InBalance([escrow |-> escrow, module |-> module, wallet |-> wallet, ws |-> withdrawals])
    PROVE  /\ Paid(t) \in PayStates
           /\ InBalance(Paid(t))
           /\ Paid(t).ws.bySigner = withdrawals.bySigner \ DueWithdrawals(t)
<1> DEFINE base == [escrow |-> escrow, module |-> module, wallet |-> wallet, ws |-> withdrawals]
           S == DueWithdrawals(t)
<1>1. base \in PayStates /\ InBalance(base) /\ base.ws = withdrawals
    BY Zenon DEF PayStates
<1>2. /\ withdrawals.byAvailable = withdrawals.bySigner
      /\ IsFiniteSet(withdrawals.byAvailable) /\ OneRequest(withdrawals.byAvailable)
    BY Zenon DEF InBalance
<1>3. S \in SUBSET withdrawals.bySigner /\ S \in SUBSET WithdrawalRecord /\ IsFiniteSet(S) /\ OneRequest(S)
    BY <1>2, FS_Subset, Zenon DEF DueWithdrawals, OneRequest, Indexes
<1>4. PICK g : Paid(t) = g[S] /\ \A W \in SUBSET S : g[W] = PayLevel(base, g, W)
    BY <1>2, PayFold, Zenon
<1> HIDE DEF base, S
<1> DEFINE Good(W) == /\ g[W] \in PayStates /\ InBalance(g[W])
                      /\ g[W].ws.bySigner = withdrawals.bySigner \ W
           T == {W \in SUBSET S : Good(W)}
<1>5. ASSUME NEW W \in SUBSET S, \A r \in SUBSET W : r # W => r \in T
      PROVE  W \in T
    <2>1. CASE W = {}
        <3>1. g[W] = base
            BY <1>4, <2>1, Zenon DEF PayLevel
        <3> QED BY <1>1, <2>1, <3>1, Zenon
    <2>2. CASE W # {}
        <3> DEFINE w == LastAvailable(W)
                   rest == W \ {w}
        <3>1. w \in W
            BY <1>3, <2>2, LastAvailableIn, FS_Subset, Zenon DEF OneRequest
        <3>2. g[W] = PayWithdrawal(w, g[rest])
            BY <1>4, <2>2, Zenon DEF PayLevel
        <3> HIDE DEF w
        <3>3. rest \in T
            BY <1>5, <3>1, Zenon
        <3>4. w \in g[rest].ws.bySigner
            BY <1>3, <3>1, <3>3, Zenon
        <3>5. /\ PayWithdrawal(w, g[rest]) \in PayStates /\ InBalance(PayWithdrawal(w, g[rest]))
              /\ PayWithdrawal(w, g[rest]).ws.bySigner = g[rest].ws.bySigner \ {w}
            BY <3>3, <3>4, PayKeepsBalance, Zenon
        <3>6. (withdrawals.bySigner \ rest) \ {w} = withdrawals.bySigner \ W
            BY <3>1, Zenon
        <3> HIDE DEF rest
        <3> QED BY <3>2, <3>3, <3>5, <3>6, Zenon
    <2> QED BY <2>1, <2>2, Zenon
<1>6. SUBSET S \subseteq T
    <2> HIDE DEF T
    <2> QED BY <1>3, <1>5, SmallerSubsets, Zenon
<1>7. Good(S)
    BY <1>6, Zenon
<1> QED BY <1>4, <1>7, Zenon DEF S

-----------------------------------------------------------------------------
(* Paying from requested withdrawals                                       *)

\* After the requests in W have given way to a payment of s that was short of shortfall:
\* the others are untouched, what is locked has shrunk by what is covered, and a request
\* was spared only if nothing remains.
Covering(s, shortfall, W, acc) ==
    /\ acc \in ReduceStates
    /\ acc.remaining <= shortfall
    /\ acc.ws.byAvailable = acc.ws.bySigner
    /\ IsFiniteSet(acc.ws.bySigner)
    /\ OneRequest(acc.ws.bySigner)
    /\ withdrawals.bySigner \ W \subseteq acc.ws.bySigner
    /\ \A x \in Signers : Locked(acc.ws.bySigner, x)
                            = Locked(withdrawals.bySigner, x)
                                - IF x = s THEN shortfall - acc.remaining ELSE 0
    /\ acc.remaining > 0 => acc.ws.bySigner = withdrawals.bySigner \ W
    /\ \A v \in acc.ws.bySigner : \E u \in withdrawals.bySigner :
          SameRequest(u, v) /\ u.available = v.available

\* One turn of the loop.
LEMMA ReduceKeepsCovering ==
    ASSUME NEW s \in Signers, NEW shortfall \in Nat, NEW W, NEW w \in W,
           NEW acc, Covering(s, shortfall, W \ {w}, acc),
           withdrawals.bySigner \in SUBSET WithdrawalRecord, IsFiniteSet(withdrawals.bySigner),
           w \in withdrawals.bySigner, w.signer = s
    PROVE  Covering(s, shortfall, W, ReduceWithdrawal(w, acc))
<1> DEFINE index == acc.ws.bySigner
           L(x) == Locked(withdrawals.bySigner, x)
<1>1. /\ acc \in ReduceStates /\ acc.remaining \in Nat /\ acc.remaining <= shortfall
      /\ w \in WithdrawalRecord /\ w.amount \in Nat /\ w \in index
      /\ index \in SUBSET WithdrawalRecord /\ IsFiniteSet(index) /\ OneRequest(index)
    BY Zenon DEF Covering, ReduceStates, Indexes, WithdrawalRecord
<1>2. ReduceWithdrawal(w, acc) \in ReduceStates
    BY <1>1, ReduceWithdrawalType, Zenon
<1>3. \A x \in Signers : L(x) \in Nat /\ Locked(index, x) \in Nat
    BY <1>1, LockedNat, Zenon
<1>4. \A x \in Signers : Locked(index, x) = L(x) - IF x = s THEN shortfall - acc.remaining ELSE 0
    BY Zenon DEF Covering
<1>5. \A x \in Signers : Locked(index \ {w}, x) = Locked(index, x) - IF x = s THEN w.amount ELSE 0
    BY <1>1, LockedRemove, Zenon
<1>6. /\ IsFiniteSet(index \ {w}) /\ OneRequest(index \ {w})
      /\ index \ {w} \in SUBSET WithdrawalRecord
    BY <1>1, FS_RemoveElement, Zenon DEF OneRequest
<1>7. \A v \in index : \E u \in withdrawals.bySigner : SameRequest(u, v) /\ u.available = v.available
    BY Zenon DEF Covering
<1>8. withdrawals.bySigner \ (W \ {w}) \subseteq index
    BY Zenon DEF Covering
<1>9. CASE acc.remaining = 0
    <2>1. ReduceWithdrawal(w, acc) = acc
        BY <1>9 DEF ReduceWithdrawal
    <2> QED BY <1>9, <2>1 DEF Covering
<1>10. CASE acc.remaining > 0 /\ acc.remaining >= w.amount
    <2> DEFINE r == [remaining |-> acc.remaining - w.amount,
                     ws |-> [bySigner |-> index \ {w}, byAvailable |-> index \ {w}]]
    <2>1. DeleteWithdrawal(acc.ws, w) = [bySigner |-> index \ {w}, byAvailable |-> index \ {w}]
        BY <1>1, WithoutOne, Zenon DEF DeleteWithdrawal, Covering
    <2>2. ReduceWithdrawal(w, acc) = r
        BY <1>10, <2>1 DEF ReduceWithdrawal
    <2>3. index = withdrawals.bySigner \ (W \ {w})
        BY <1>10, Zenon DEF Covering
    <2>4. index \ {w} = withdrawals.bySigner \ W
        BY <2>3, Zenon
    <2>5. r.remaining \in Nat /\ r.remaining <= shortfall
        BY <1>1, <1>10
    <2>6. ASSUME NEW x \in Signers
          PROVE  Locked(index \ {w}, x) = L(x) - IF x = s THEN shortfall - r.remaining ELSE 0
        <3>1. r.remaining = acc.remaining - w.amount
            BY Zenon
        <3>2. Locked(index, x) \in Nat /\ L(x) \in Nat
            BY <1>3, Zenon
        <3> HIDE DEF index, L, r
        <3>3. CASE x = s
            <4>1. Locked(index, x) = L(x) - (shortfall - acc.remaining)
                BY <1>4, <3>3, Zenon
            <4>2. Locked(index \ {w}, x) = Locked(index, x) - w.amount
                BY <1>5, <3>3, Zenon
            <4>3. Locked(index \ {w}, x) = L(x) - (shortfall - r.remaining)
                BY <1>1, <3>1, <3>2, <4>1, <4>2
            <4> QED BY <3>3, <4>3, Zenon
        <3>4. CASE x # s
            <4>1. Locked(index, x) = L(x) - 0 /\ Locked(index \ {w}, x) = Locked(index, x) - 0
                BY <1>4, <1>5, <3>4, Zenon
            <4> QED BY <3>2, <3>4, <4>1
        <3> QED BY <3>3, <3>4, Zenon
    <2>7. /\ r.ws.bySigner = index \ {w} /\ r.ws.byAvailable = index \ {w}
          /\ r \in ReduceStates
        BY <1>2, <2>2, Zenon
    <2> HIDE DEF r
    <2>8. Covering(s, shortfall, W, r)
        BY <1>6, <1>7, <2>4, <2>5, <2>6, <2>7, Zenon DEF Covering
    <2> QED BY <2>2, <2>8, Zenon
<1>11. CASE acc.remaining > 0 /\ acc.remaining < w.amount
    <2> DEFINE v == [w EXCEPT !.amount = @ - acc.remaining]
               rest == index \ {w}
               r == [remaining |-> 0,
                     ws |-> [bySigner |-> rest \cup {v}, byAvailable |-> rest \cup {v}]]
    <2>1. /\ v \in WithdrawalRecord /\ v.amount = w.amount - acc.remaining /\ v.signer = s
          /\ SameRequest(w, v) /\ v.available = w.available
        BY <1>1, <1>11 DEF WithdrawalRecord, SameRequest
    <2>2. \A u : SameRequest(u, v) <=> SameRequest(u, w)
        BY <2>1, Zenon DEF SameRequest
    <2>3. ReduceWithdrawal(w, acc) = [remaining |-> 0, ws |-> SetWithdrawal(acc.ws, v)]
        BY <1>1, <1>11 DEF ReduceWithdrawal
    <2> HIDE DEF v
    <2>4. Without(index, v) = rest
        <3>1. Without(index, v) = Without(index, w)
            BY <2>2, Zenon DEF Without
        <3> QED BY <1>1, <3>1, WithoutOne, Zenon
    <2>5. SetWithdrawal(acc.ws, v) = [bySigner |-> rest \cup {v}, byAvailable |-> rest \cup {v}]
        BY <2>4, Zenon DEF SetWithdrawal, Covering
    <2>6. ReduceWithdrawal(w, acc) = r
        BY <2>3, <2>5, Zenon
    <2>7. \A u \in rest : ~SameRequest(u, v)
        BY <2>4, Zenon DEF Without
    <2>8. v \notin rest
        BY <2>7, Zenon DEF SameRequest
    <2>9. OneRequest(rest \cup {v})
        BY <1>6, <2>7, Zenon DEF OneRequest, SameRequest
    <2>10. IsFiniteSet(rest \cup {v})
        BY <1>6, FS_AddElement, Zenon
    <2>11. withdrawals.bySigner \ W \subseteq rest
        BY <1>8, Zenon
    <2>12. ASSUME NEW u \in rest \cup {v}
           PROVE  \E q \in withdrawals.bySigner : SameRequest(q, u) /\ q.available = u.available
        <3>1. CASE u \in rest
            BY <1>7, <3>1, Zenon
        <3>2. CASE u = v
            BY <2>1, <3>2, Zenon
        <3> QED BY <3>1, <3>2, Zenon
    <2>13. ASSUME NEW x \in Signers
           PROVE  Locked(rest \cup {v}, x) = L(x) - IF x = s THEN shortfall - 0 ELSE 0
        <3>1. Locked(rest \cup {v}, x) = Locked(rest, x) + IF s = x THEN v.amount ELSE 0
            BY <1>6, <2>1, <2>8, LockedAdd
        <3>2. Locked(rest, x) = Locked(index, x) - IF x = s THEN w.amount ELSE 0
            BY <1>5, Zenon
        <3> HIDE DEF rest, index, L
        <3>3. CASE x = s
            BY <1>1, <1>3, <1>4, <2>1, <3>1, <3>2, <3>3, SMTT(30)
        <3>4. CASE x # s
            BY <1>3, <1>4, <3>1, <3>2, <3>4
        <3> QED BY <3>3, <3>4, Zenon
    <2>14. /\ r.ws.bySigner = rest \cup {v} /\ r.ws.byAvailable = rest \cup {v}
           /\ r \in ReduceStates /\ r.remaining = 0
        BY <1>2, <2>6, Zenon
    <2> HIDE DEF r, rest
    <2>15. \A x \in Signers : Locked(r.ws.bySigner, x)
                                 = L(x) - IF x = s THEN shortfall - r.remaining ELSE 0
        BY <2>13, <2>14, Zenon
    <2>16. r.remaining <= shortfall /\ ~(r.remaining > 0)
        BY <2>14
    <2>17. Covering(s, shortfall, W, r)
        BY <2>9, <2>10, <2>11, <2>12, <2>14, <2>15, <2>16, Zenon DEF Covering
    <2> QED BY <2>6, <2>17, Zenon
<1> QED BY <1>1, <1>9, <1>10, <1>11

\* ReduceWithdrawalsForPayment: what is locked shrinks by what it covers, and it covers a
\* shortfall that is no more than what was locked.
LEMMA ReducedCovers ==
    ASSUME withdrawals \in Indexes, withdrawals.byAvailable = withdrawals.bySigner,
           IsFiniteSet(withdrawals.bySigner), OneRequest(withdrawals.bySigner),
           NEW s \in Signers, NEW shortfall \in Nat
    PROVE  /\ Covering(s, shortfall, Mine(s), ReduceWithdrawalsForPayment(s, shortfall))
           /\ shortfall <= Locked(withdrawals.bySigner, s)
                => ReduceWithdrawalsForPayment(s, shortfall).remaining = 0
<1> DEFINE base == [remaining |-> shortfall, ws |-> withdrawals]
           S == Mine(s)
<1>1. /\ S \in SUBSET withdrawals.bySigner /\ S \in SUBSET WithdrawalRecord
      /\ IsFiniteSet(S) /\ OneRequest(S) /\ \A v \in S : v.signer = s
    BY FS_Subset, Zenon DEF Mine, OneRequest, Indexes
<1>2. PICK g : ReduceWithdrawalsForPayment(s, shortfall) = g[S]
               /\ \A W \in SUBSET S : g[W] = ReduceLevel(base, g, W)
    BY ReduceFold, Zenon
<1>3. withdrawals.bySigner \in SUBSET WithdrawalRecord
    BY Zenon DEF Indexes
<1>4. \A x \in Signers : Locked(withdrawals.bySigner, x) \in Nat
    BY <1>3, LockedNat, Zenon
<1> HIDE DEF S
<1> DEFINE T == {W \in SUBSET S : Covering(s, shortfall, W, g[W])}
<1>5. Covering(s, shortfall, {}, base)
    <2>1. base \in ReduceStates
        BY Zenon DEF ReduceStates
    <2>2. \A x \in Signers : Locked(withdrawals.bySigner, x)
             = Locked(withdrawals.bySigner, x) - IF x = s THEN shortfall - shortfall ELSE 0
        BY <1>4
    <2> QED BY <2>1, <2>2 DEF Covering, SameRequest
<1>6. ASSUME NEW W \in SUBSET S, \A r \in SUBSET W : r # W => r \in T
      PROVE  W \in T
    <2>1. CASE W = {}
        <3>1. g[W] = base
            BY <1>2, <2>1, Zenon DEF ReduceLevel
        <3> HIDE DEF base
        <3> QED BY <1>5, <2>1, <3>1, Zenon
    <2>2. CASE W # {}
        <3> DEFINE w == LastRequested(W)
                   rest == W \ {w}
        <3>1. w \in W
            BY <1>1, <2>2, LastRequestedIn, FS_Subset, Zenon DEF OneRequest
        <3>2. g[W] = ReduceWithdrawal(w, g[rest])
            BY <1>2, <2>2, Zenon DEF ReduceLevel
        <3> HIDE DEF w
        <3>3. rest \in T
            BY <1>6, <3>1, Zenon
        <3>4. w \in withdrawals.bySigner /\ w.signer = s
            BY <1>1, <3>1, Zenon
        <3>5. Covering(s, shortfall, W, ReduceWithdrawal(w, g[rest]))
            BY <1>3, <3>1, <3>3, <3>4, ReduceKeepsCovering, Zenon
        <3> QED BY <3>2, <3>5, Zenon
    <2> QED BY <2>1, <2>2, Zenon
<1>7. SUBSET S \subseteq T
    <2> HIDE DEF T
    <2> QED BY <1>1, <1>6, SmallerSubsets, Zenon
<1>8. Covering(s, shortfall, S, g[S])
    BY <1>7, Zenon
<1>9. ASSUME shortfall <= Locked(withdrawals.bySigner, s), g[S].remaining # 0
      PROVE  FALSE
    <2>1. g[S].remaining \in Nat /\ g[S].remaining > 0
        BY <1>8, <1>9 DEF Covering, ReduceStates
    <2>2. {v \in g[S].ws.bySigner : v.signer = s} = {}
        BY <1>8, <2>1, Zenon DEF Covering, S, Mine
    <2>3. Locked(g[S].ws.bySigner, s) = 0
        BY <2>2, SumEmpty, Zenon DEF Locked
    <2>4. Locked(g[S].ws.bySigner, s) = Locked(withdrawals.bySigner, s) - (shortfall - g[S].remaining)
        BY <1>8, Zenon DEF Covering
    <2> QED BY <1>4, <1>9, <2>1, <2>3, <2>4
<1> QED BY <1>2, <1>8, <1>9, Zenon DEF S

-----------------------------------------------------------------------------
(* The inductive invariant                                                 *)

Books == [escrow |-> escrow, module |-> module, wallet |-> wallet, ws |-> withdrawals]

FundsTypes ==
    /\ escrow \in Accounts
    /\ withdrawals \in Indexes
    /\ wallet \in [Signers -> Nat]
    /\ module \in Nat
    /\ feeCollector \in Nat

\* A request waits at least as long as any promise made before it can settle.
RequestsDelayed == \A w \in withdrawals.bySigner : w.available >= w.requested + MinWithdrawalDelay

\* FundsBacked needs, to be inductive, that requests are told apart by signer and time,
\* that their owners have accounts, and that the parameters in force are valid.
FundsInv ==
    /\ ReplayInv
    /\ FundsTypes
    /\ InBalance(Books)
    /\ DueWithdrawalsPaid
    /\ RequestsDelayed

\* Books that meet the conditions of InBalance.
LEMMA BalancedBooks ==
    ASSUME NEW e, NEW m, NEW wl, NEW ws,
           ws.byAvailable = ws.bySigner, IsFiniteSet(ws.bySigner), OneRequest(ws.bySigner),
           \A w \in ws.bySigner : e[w.signer].found,
           \A s \in Signers : e[s].balance = e[s].available + Locked(ws.bySigner, s),
           m = Balances(e)
    PROVE  InBalance([escrow |-> e, module |-> m, wallet |-> wl, ws |-> ws])
BY Zenon DEF InBalance

\* What InBalance says of the books.
LEMMA BooksInBalance ==
    InBalance(Books) <=>
        /\ withdrawals.byAvailable = withdrawals.bySigner
        /\ IsFiniteSet(withdrawals.bySigner)
        /\ OneRequest(withdrawals.bySigner)
        /\ \A w \in withdrawals.bySigner : escrow[w.signer].found
        /\ \A s \in Signers :
              escrow[s].balance = escrow[s].available + Locked(withdrawals.bySigner, s)
        /\ module = Balances(escrow)
BY Zenon DEF InBalance, Books

\* Parameters in force and the clock.
LEMMA FundsClock ==
    ASSUME ReplayInv
    PROVE  /\ now \in Nat
           /\ params.WithdrawalDelay \in Nat /\ MinWithdrawalDelay \in Nat
           /\ MinWithdrawalDelay > 0
           /\ MinWithdrawalDelay <= params.WithdrawalDelay
           /\ params.PaymentPromiseTimeout \in Nat
           /\ params.PaymentPromiseTimeout <= MinWithdrawalDelay
<1>1. now \in Nat /\ params \in ParamRecord /\ ValidateParams(params)
    BY Zenon DEF ReplayInv, ChainTypeOK, ParamsValid
<1> QED BY <1>1, ValidParamBounds, ParamAssumption DEF MinWithdrawalDelay

\* A step that leaves the funds and the clock alone.
LEMMA UnchangedFunds ==
    ASSUME FundsInv, ReplayInv', UNCHANGED <<now, escrow, withdrawals, bankVars>>
    PROVE  FundsInv'
BY BooksInBalance, Zenon DEF FundsInv, FundsTypes, InBalance, Books, DueWithdrawalsPaid, RequestsDelayed, bankVars,
       MinWithdrawalDelay, Locked, Balances

\* Deposits raise the balance and the available part alike.
LEMMA DepositFunds ==
    ASSUME FundsInv, ReplayInv', NEW s \in Signers, NEW a \in Amounts, DepositToEscrow(s, a)
    PROVE  FundsInv'
<1>1. /\ a \in Nat /\ wallet[s] >= a /\ wallet' = [wallet EXCEPT ![s] = @ - a]
      /\ module' = module + a /\ withdrawals' = withdrawals /\ now' = now
      /\ feeCollector' = feeCollector
      /\ escrow' = [escrow EXCEPT ![s] = [found |-> TRUE, balance |-> @.balance + a,
                                          available |-> @.available + a]]
    BY FundsAssumption, Zenon DEF DepositToEscrow
<1>2. /\ escrow \in Accounts /\ withdrawals \in Indexes /\ module \in Nat
      /\ wallet \in [Signers -> Nat] /\ feeCollector \in Nat
    BY Zenon DEF FundsInv, FundsTypes
<1>3. escrow[s].balance \in Nat /\ escrow[s].available \in Nat
    BY <1>2, Zenon DEF Accounts
<1>4. /\ escrow' \in Accounts /\ escrow'[s].found
      /\ escrow'[s].balance = escrow[s].balance + a
      /\ escrow'[s].available = escrow[s].available + a
      /\ \A x \in Signers \ {s} : escrow'[x] = escrow[x]
    BY <1>1, <1>2, <1>3 DEF Accounts
<1>5. wallet' \in [Signers -> Nat] /\ module' \in Nat
    BY <1>1, <1>2
<1>6. FundsTypes'
    BY <1>1, <1>2, <1>4, <1>5, Zenon DEF FundsTypes, Accounts, Indexes
<1>7. Balances(escrow') = Balances(escrow) - escrow[s].balance + escrow'[s].balance
      /\ Balances(escrow) \in Nat /\ module = Balances(escrow)
    BY <1>2, <1>4, BalancesProperties, BooksInBalance, Zenon DEF FundsInv
<1>8. module' = Balances(escrow')
    BY <1>1, <1>3, <1>4, <1>7
<1>9. ASSUME NEW x \in Signers
      PROVE  escrow'[x].balance = escrow'[x].available + Locked(withdrawals.bySigner, x)
    <2>1. escrow[x].balance = escrow[x].available + Locked(withdrawals.bySigner, x)
          /\ Locked(withdrawals.bySigner, x) \in Nat
        BY <1>2, BooksInBalance, LockedNat, Zenon DEF FundsInv, Indexes
    <2>2. CASE x = s
        BY <1>1, <1>3, <1>4, <2>1, <2>2
    <2>3. CASE x # s
        BY <1>4, <2>1, <2>3, Zenon
    <2> QED BY <2>2, <2>3, Zenon
<1>10. \A w \in withdrawals.bySigner : escrow'[w.signer].found
    <2>1. \A w \in withdrawals.bySigner : w.signer \in Signers /\ escrow[w.signer].found
        BY <1>2, BooksInBalance, Zenon DEF FundsInv, Indexes, WithdrawalRecord
    <2> QED BY <1>4, <2>1, Zenon
<1>11. InBalance(Books)'
    <2>1. /\ withdrawals'.byAvailable = withdrawals'.bySigner /\ IsFiniteSet(withdrawals'.bySigner)
          /\ OneRequest(withdrawals'.bySigner) /\ withdrawals'.bySigner = withdrawals.bySigner
        BY <1>1, BooksInBalance, Zenon DEF FundsInv
    <2> QED BY <1>8, <1>9, <1>10, <2>1, BalancedBooks, Zenon DEF Books
<1>12. DueWithdrawalsPaid' /\ RequestsDelayed'
    BY <1>1, Zenon DEF FundsInv, DueWithdrawalsPaid, RequestsDelayed, MinWithdrawalDelay
<1> QED BY <1>6, <1>11, <1>12, Zenon DEF FundsInv

\* A request moves its amount from the available part to what is locked.
LEMMA RequestFunds ==
    ASSUME FundsInv, ReplayInv', NEW s \in Signers, NEW a \in Amounts, RequestWithdrawal(s, a)
    PROVE  FundsInv'
<1> DEFINE index == withdrawals.bySigner
           w == [signer |-> s, amount |-> a, requested |-> now, available |-> availableTimestamp]
<1>1. /\ a \in Nat \ {0} /\ escrow[s].found /\ escrow[s].available >= a
      /\ GetWithdrawal(s, now) = {}
      /\ escrow' = [escrow EXCEPT ![s].available = @ - a]
      /\ withdrawals' = SetWithdrawal(withdrawals, w)
      /\ UNCHANGED <<now, wallet, module, feeCollector>>
    BY FundsAssumption, Zenon DEF RequestWithdrawal, bankVars
<1>2. /\ escrow \in Accounts /\ withdrawals \in Indexes /\ module \in Nat
      /\ wallet \in [Signers -> Nat] /\ feeCollector \in Nat
    BY Zenon DEF FundsInv, FundsTypes
<1>3. /\ withdrawals.byAvailable = index /\ IsFiniteSet(index) /\ OneRequest(index)
      /\ index \in SUBSET WithdrawalRecord
    BY <1>2, BooksInBalance, Zenon DEF FundsInv, Indexes
<1>4. /\ w \in WithdrawalRecord /\ w.available = now + params.WithdrawalDelay
      /\ w.signer = s /\ w.requested = now /\ w.amount = a
      /\ w.available > now /\ w.available >= w.requested + MinWithdrawalDelay
    <2>1. now + params.WithdrawalDelay \in Int /\ now \in Int
          /\ now + params.WithdrawalDelay > now
          /\ now + params.WithdrawalDelay >= now + MinWithdrawalDelay
        BY FundsClock DEF FundsInv
    <2> QED BY <1>1, <2>1, Zenon DEF availableTimestamp, WithdrawalRecord
<1> HIDE DEF w
<1>5. \A v \in index : ~SameRequest(v, w)
    BY <1>1, <1>4, Zenon DEF GetWithdrawal, SameRequest
<1>6. Without(index, w) = index /\ w \notin index
    BY <1>5, Zenon DEF Without, SameRequest
<1>7. withdrawals' = [bySigner |-> index \cup {w}, byAvailable |-> index \cup {w}]
    BY <1>1, <1>3, <1>6, Zenon DEF SetWithdrawal
<1>8. /\ withdrawals'.bySigner = index \cup {w} /\ withdrawals'.byAvailable = index \cup {w}
      /\ withdrawals' \in Indexes
    BY <1>3, <1>4, <1>7, Zenon DEF Indexes
<1> HIDE DEF index
<1>9. escrow[s].balance \in Nat /\ escrow[s].available \in Nat
    BY <1>2, Zenon DEF Accounts
<1>10. /\ escrow' \in Accounts /\ escrow'[s].found
       /\ escrow'[s].available = escrow[s].available - a
       /\ \A x \in Signers : escrow'[x].balance = escrow[x].balance
       /\ \A x \in Signers \ {s} : escrow'[x] = escrow[x]
    BY <1>1, <1>2, <1>9 DEF Accounts
<1>11. FundsTypes'
    BY <1>1, <1>2, <1>8, <1>10, Zenon DEF FundsTypes, Accounts, Indexes
<1>12. module' = Balances(escrow')
    <2>1. Balances(escrow') = Balances(escrow) - escrow[s].balance + escrow'[s].balance
          /\ Balances(escrow) \in Nat /\ module = Balances(escrow)
        BY <1>2, <1>10, BalancesProperties, BooksInBalance, Zenon DEF FundsInv
    <2>2. escrow'[s].balance = escrow[s].balance
        BY <1>10, Zenon
    <2> QED BY <1>1, <1>9, <2>1, <2>2
<1>13. ASSUME NEW x \in Signers
       PROVE  escrow'[x].balance = escrow'[x].available + Locked(index \cup {w}, x)
    <2>1. escrow[x].balance = escrow[x].available + Locked(index, x)
          /\ Locked(index, x) \in Nat /\ escrow[x].balance \in Nat /\ escrow[x].available \in Nat
        BY <1>2, <1>3, BooksInBalance, LockedNat, Zenon DEF FundsInv, index, Accounts
    <2>2. Locked(index \cup {w}, x) = Locked(index, x) + IF s = x THEN a ELSE 0
        BY <1>3, <1>4, <1>6, LockedAdd, Zenon
    <2>3. escrow'[x].balance = escrow[x].balance
        BY <1>10, Zenon
    <2>4. CASE x = s
        <3>1. Locked(index \cup {w}, x) = Locked(index, x) + a
            BY <2>2, <2>4, Zenon
        <3>2. escrow'[x].available = escrow[x].available - a
            BY <1>10, <2>4, Zenon
        <3> QED BY <1>1, <2>1, <2>3, <3>1, <3>2
    <2>5. CASE x # s
        <3>1. Locked(index \cup {w}, x) = Locked(index, x) + 0
            BY <2>2, <2>5, Zenon
        <3>2. escrow'[x].available = escrow[x].available
            BY <1>10, <2>5, Zenon
        <3> QED BY <2>1, <2>3, <3>1, <3>2
    <2> QED BY <2>4, <2>5, Zenon
<1>14. \A v \in index \cup {w} : escrow'[v.signer].found
    <2>1. \A v \in index : v.signer \in Signers /\ escrow[v.signer].found
        BY <1>2, BooksInBalance, Zenon DEF FundsInv, Indexes, WithdrawalRecord, index
    <2> QED BY <1>4, <1>10, <2>1, Zenon
<1>15. IsFiniteSet(index \cup {w}) /\ OneRequest(index \cup {w})
    BY <1>3, <1>5, FS_AddElement, Zenon DEF OneRequest, SameRequest
<1>16. InBalance(Books)'
    BY <1>8, <1>12, <1>13, <1>14, <1>15, BalancedBooks, Zenon DEF Books
<1>17. DueWithdrawalsPaid'
    <2>1. \A v \in index : v.available > now
        BY <1>3, Zenon DEF FundsInv, DueWithdrawalsPaid
    <2> QED BY <1>1, <1>4, <1>8, <2>1, Zenon DEF DueWithdrawalsPaid
<1>18. RequestsDelayed'
    <2>1. \A v \in index \cup {w} : v.available >= v.requested + MinWithdrawalDelay
        BY <1>4, Zenon DEF FundsInv, RequestsDelayed, index
    <2> QED BY <1>8, <2>1, Zenon DEF RequestsDelayed, MinWithdrawalDelay
<1> QED BY <1>11, <1>16, <1>17, <1>18, Zenon DEF FundsInv

\* A payment takes what is available first and the rest from what is locked.
LEMMA SettleFunds ==
    ASSUME FundsInv, ReplayInv', NEW p \in Promises, Settle(p)
    PROVE  FundsInv'
<1> DEFINE s == p.signer
           a == p.amount
           d == availableDeduction(s, a)
           short == Shortfall(s, a)
           r == ReduceWithdrawalsForPayment(s, short)
<1>1. s \in Signers /\ a \in Nat
    BY PromiseAssumption, Zenon
<1>2. /\ escrow[s].balance >= a /\ r.remaining = 0 /\ module >= a
      /\ escrow' = [escrow EXCEPT ![s] = [found |-> @.found, balance |-> @.balance - a,
                                          available |-> @.available - d]]
      /\ withdrawals' = r.ws /\ module' = module - a /\ feeCollector' = feeCollector + a
      /\ UNCHANGED <<now, wallet>>
    BY Zenon DEF Settle, deductPaymentFromEscrow
<1>3. /\ escrow \in Accounts /\ withdrawals \in Indexes /\ module \in Nat
      /\ wallet \in [Signers -> Nat] /\ feeCollector \in Nat
    BY Zenon DEF FundsInv, FundsTypes
<1>4. escrow[s].balance \in Nat /\ escrow[s].available \in Nat
    BY <1>1, <1>3, Zenon DEF Accounts
<1>5. d \in Nat /\ d <= escrow[s].available /\ d <= a /\ short = a - d /\ short \in Nat
    BY <1>1, <1>4 DEF availableDeduction, Shortfall
<1> HIDE DEF d, short, r
<1>6. Covering(s, short, Mine(s), r)
    BY <1>1, <1>3, <1>5, BooksInBalance, ReducedCovers, Zenon DEF FundsInv, r
<1> DEFINE index == r.ws.bySigner
<1>7. /\ withdrawals' \in Indexes /\ withdrawals'.bySigner = index
      /\ withdrawals'.byAvailable = index /\ IsFiniteSet(index) /\ OneRequest(index)
    BY <1>2, <1>6, Zenon DEF Covering, ReduceStates
<1>8. \A x \in Signers : Locked(index, x) = Locked(withdrawals.bySigner, x) - IF x = s THEN short - 0 ELSE 0
    BY <1>2, <1>6, Zenon DEF Covering
<1>9. \A v \in index : \E u \in withdrawals.bySigner : SameRequest(u, v) /\ u.available = v.available
    BY <1>6, Zenon DEF Covering
<1> HIDE DEF s, a, index
<1>10. /\ escrow' \in Accounts
       /\ escrow'[s].balance = escrow[s].balance - a
       /\ escrow'[s].available = escrow[s].available - d
       /\ \A x \in Signers : escrow'[x].found = escrow[x].found
       /\ \A x \in Signers \ {s} : escrow'[x] = escrow[x]
    <2>1. escrow[s].balance - a \in Nat /\ escrow[s].available - d \in Nat
        BY <1>1, <1>2, <1>4, <1>5, SMTT(30)
    <2> QED BY <1>1, <1>2, <1>3, <2>1, Zenon DEF Accounts
<1>11. FundsTypes'
    BY <1>1, <1>2, <1>3, <1>7, <1>10, SMTT(30) DEF FundsTypes, Accounts, Indexes
<1>12. module' = Balances(escrow')
    <2>1. Balances(escrow') = Balances(escrow) - escrow[s].balance + escrow'[s].balance
          /\ Balances(escrow) \in Nat /\ module = Balances(escrow)
        BY <1>1, <1>3, <1>10, BalancesProperties, BooksInBalance, Zenon DEF FundsInv
    <2> QED BY <1>1, <1>2, <1>4, <1>10, <2>1
<1>13. ASSUME NEW x \in Signers
       PROVE  escrow'[x].balance = escrow'[x].available + Locked(index, x)
    <2>1. escrow[x].balance = escrow[x].available + Locked(withdrawals.bySigner, x)
          /\ Locked(withdrawals.bySigner, x) \in Nat
          /\ escrow[x].balance \in Nat /\ escrow[x].available \in Nat
        BY <1>3, BooksInBalance, LockedNat, Zenon DEF FundsInv, Accounts, Indexes
    <2>2. CASE x = s
        <3>1. Locked(index, x) = Locked(withdrawals.bySigner, x) - (short - 0)
            BY <1>8, <2>2, Zenon
        <3>2. escrow'[x].available = escrow[x].available - d /\ escrow'[x].balance = escrow[x].balance - a
            BY <1>10, <2>2, Zenon
        <3>3. escrow[x].balance - a = escrow[x].available - d + (Locked(withdrawals.bySigner, x) - short)
            BY <1>1, <1>5, <2>1
        <3> QED BY <1>5, <2>1, <3>1, <3>2, <3>3
    <2>3. CASE x # s
        <3>1. Locked(index, x) = Locked(withdrawals.bySigner, x) - 0
            BY <1>8, <2>3, Zenon
        <3>2. escrow'[x].available = escrow[x].available /\ escrow'[x].balance = escrow[x].balance
            BY <1>10, <2>3, Zenon
        <3> QED BY <2>1, <3>1, <3>2
    <2> QED BY <2>2, <2>3, Zenon
<1>14. \A v \in index : escrow'[v.signer].found
    <2>1. \A u \in withdrawals.bySigner : u.signer \in Signers /\ escrow[u.signer].found
        BY <1>3, BooksInBalance, Zenon DEF FundsInv, Indexes, WithdrawalRecord
    <2> QED BY <1>9, <1>10, <2>1, Zenon DEF SameRequest
<1>15. InBalance(Books)'
    BY <1>7, <1>12, <1>13, <1>14, BalancedBooks, Zenon DEF Books
<1>16. DueWithdrawalsPaid'
    <2>1. \A u \in withdrawals.bySigner : u.available > now
        BY BooksInBalance, Zenon DEF FundsInv, DueWithdrawalsPaid
    <2> QED BY <1>2, <1>7, <1>9, <2>1, Zenon DEF DueWithdrawalsPaid
<1>17. RequestsDelayed'
    BY <1>7, <1>9, Zenon DEF FundsInv, RequestsDelayed, MinWithdrawalDelay, SameRequest
<1> QED BY <1>11, <1>15, <1>16, <1>17, Zenon DEF FundsInv

\* BeginBlocker pays every due request, so none is due afterwards.
LEMMA BeginBlockFunds ==
    ASSUME FundsInv, ReplayInv', NEW t \in BlockTimes, BeginBlock(t)
    PROVE  FundsInv'
<1>1. /\ t \in Nat /\ now' = t /\ feeCollector' = feeCollector
      /\ escrow' = Paid(t).escrow /\ module' = Paid(t).module
      /\ wallet' = Paid(t).wallet /\ withdrawals' = Paid(t).ws
    BY ClockAssumption, Zenon DEF BeginBlock, processAvailableWithdrawals, Paid
<1>2. /\ Paid(t) \in PayStates
      /\ InBalance(Paid(t))
      /\ Paid(t).ws.bySigner = withdrawals.bySigner \ DueWithdrawals(t)
    BY PaidInBalance, Zenon DEF FundsInv, FundsTypes, Books
<1> DEFINE r == Paid(t)
<1> HIDE DEF r
<1>3. FundsTypes'
    BY <1>1, <1>2, Zenon DEF FundsInv, FundsTypes, PayStates, Accounts, Indexes
<1>4. InBalance(Books)'
    BY <1>1, <1>2, Zenon DEF InBalance, Books, Locked, Balances, OneRequest
<1>5. \A w \in withdrawals'.bySigner : w \in withdrawals.bySigner /\ w \notin DueWithdrawals(t)
    BY <1>1, <1>2, Zenon
<1>6. withdrawals'.byAvailable = withdrawals'.bySigner /\ withdrawals.byAvailable = withdrawals.bySigner
    BY <1>1, <1>2, BooksInBalance, Zenon DEF FundsInv, InBalance
<1>7. \A w \in withdrawals.bySigner : w.available \in Int
    BY Zenon DEF FundsInv, FundsTypes, Indexes, WithdrawalRecord
<1>8. DueWithdrawalsPaid'
    <2>1. \A w \in withdrawals'.bySigner : w.available > t
        BY <1>1, <1>5, <1>6, <1>7 DEF DueWithdrawals
    <2> QED BY <1>1, <1>6, <2>1, Zenon DEF DueWithdrawalsPaid
<1>9. RequestsDelayed'
    BY <1>5, Zenon DEF FundsInv, RequestsDelayed, MinWithdrawalDelay
<1> QED BY <1>3, <1>4, <1>8, <1>9, Zenon DEF FundsInv

\* The books open in balance.
LEMMA InitFunds == Init => FundsInv
<1> SUFFICES ASSUME Init PROVE FundsInv
    BY Zenon
<1>1. ReplayInv
    BY InitReplay, Zenon
<1>2. FundsTypes
    BY FundsAssumption, Zenon DEF Init, FundsTypes, Accounts, Indexes
<1>3. \A s \in Signers : Locked(withdrawals.bySigner, s) = 0
    <2>1. \A s \in Signers : {w \in withdrawals.bySigner : w.signer = s} = {}
        BY Zenon DEF Init
    <2> QED BY <2>1, SumEmpty, Zenon DEF Locked
<1>4. Balances(escrow) = 0
    <2> DEFINE f == [s \in Signers |-> escrow[s].balance]
    <2>1. IsFiniteSet(Signers) /\ \A s \in Signers : f[s] = 0
        BY FundsAssumption, Zenon DEF Init
    <2> HIDE DEF f
    <2>2. SumFunctionOnSet(f, Signers) = 0
        BY <2>1, SumZero, Zenon
    <2> QED BY <2>2, Zenon DEF Balances, f
<1>5. InBalance(Books)
    BY <1>3, <1>4, BooksInBalance, FS_EmptySet DEF Init, OneRequest
<1>6. DueWithdrawalsPaid /\ RequestsDelayed
    BY Zenon DEF Init, DueWithdrawalsPaid, RequestsDelayed
<1> QED BY <1>1, <1>2, <1>5, <1>6, Zenon DEF FundsInv

\* Every step keeps the books in balance.
LEMMA NextFunds == FundsInv /\ [Next]_vars => FundsInv'
<1> SUFFICES ASSUME FundsInv, [Next]_vars PROVE FundsInv'
    BY Zenon
<1>0. ReplayInv'
    BY NextReplay, Zenon DEF FundsInv
<1>1. ASSUME NEW t \in BlockTimes, BeginBlock(t) PROVE FundsInv'
    BY <1>0, <1>1, BeginBlockFunds, Zenon
<1>2. ASSUME NEW s \in Signers, NEW a \in Amounts, DepositToEscrow(s, a) PROVE FundsInv'
    BY <1>0, <1>2, DepositFunds, Zenon
<1>3. ASSUME NEW s \in Signers, NEW a \in Amounts, RequestWithdrawal(s, a) PROVE FundsInv'
    BY <1>0, <1>3, RequestFunds, Zenon
<1>4. ASSUME NEW p \in Promises, PayForFibre(p) \/ PaymentPromiseTimeout(p) PROVE FundsInv'
    BY <1>0, <1>4, SettleFunds, Zenon DEF PayForFibre, PaymentPromiseTimeout
<1>5. ASSUME NEW p \in ParamInputs, UpdateFibreParams(p) PROVE FundsInv'
    BY <1>0, <1>5, UnchangedFunds, Zenon DEF UpdateFibreParams
<1>6. ASSUME NEW h \in {0, height}, ExportImport(h) PROVE FundsInv'
    <2>1. withdrawals' = withdrawals
        <3>1. withdrawals.byAvailable = withdrawals.bySigner /\ withdrawals \in Indexes
            BY BooksInBalance, Zenon DEF FundsInv, FundsTypes
        <3> QED BY <1>6, <3>1, Zenon DEF ExportImport, Indexes
    <2> QED BY <1>0, <1>6, <2>1, UnchangedFunds, Zenon DEF ExportImport
<1>7. CASE UNCHANGED vars
    BY <1>0, <1>7, UnchangedFunds, Zenon DEF vars
<1> QED BY <1>1, <1>2, <1>3, <1>4, <1>5, <1>6, <1>7, Zenon DEF Next, Deliver, Governance

\* The invariant gives the property: a payment's shortfall is never more than what the
\* signer's requests lock.
LEMMA FundsImplies == FundsInv => FundsBacked
<1> SUFFICES ASSUME FundsInv PROVE FundsBacked
    BY Zenon
<1>1. TypeOK
    BY Zenon DEF FundsInv, ReplayInv, FundsTypes, TypeOK, Accounts, Indexes
<1>2. IndexesAgree /\ EscrowBacked /\ ModuleBacked
    BY BooksInBalance, Zenon DEF FundsInv, ReplayInv, IndexesAgree, EscrowBacked, ModuleBacked
<1>3. ASSUME NEW p \in Promises, escrow[p.signer].balance >= p.amount
      PROVE  /\ ReduceWithdrawalsForPayment(p.signer, Shortfall(p.signer, p.amount)).remaining = 0
             /\ module >= p.amount
    <2> DEFINE s == p.signer
               L == Locked(withdrawals.bySigner, s)
    <2>1. s \in Signers /\ p.amount \in Nat
        BY PromiseAssumption, Zenon
    <2>2. escrow \in Accounts /\ withdrawals \in Indexes
        BY Zenon DEF FundsInv, FundsTypes
    <2>3. escrow[s].balance \in Nat /\ escrow[s].available \in Nat /\ L \in Nat
          /\ escrow[s].balance = escrow[s].available + L
        BY <2>1, <2>2, BooksInBalance, LockedNat, Zenon DEF FundsInv, Accounts, Indexes
    <2> HIDE DEF s, L
    <2>4. Shortfall(s, p.amount) \in Nat /\ Shortfall(s, p.amount) <= L
        BY <1>3, <2>1, <2>3 DEF Shortfall, availableDeduction, s
    <2>5. ReduceWithdrawalsForPayment(s, Shortfall(s, p.amount)).remaining = 0
        BY <2>1, <2>2, <2>4, BooksInBalance, ReducedCovers, Zenon DEF FundsInv, L
    <2>6. module = Balances(escrow) /\ Balances(escrow) >= escrow[s].balance /\ Balances(escrow) \in Nat
        BY <2>1, <2>2, BalancesProperties, BooksInBalance, Zenon DEF FundsInv
    <2>7. module >= p.amount
        BY <1>3, <2>1, <2>3, <2>6 DEF s
    <2> QED BY <2>5, <2>7, Zenon DEF s
<1>4. PaymentsCovered
    BY <1>3, Zenon DEF PaymentsCovered
<1> QED BY <1>1, <1>2, <1>4, Zenon DEF FundsBacked, FundsInv

\* Invariance of FundsInv.
THEOREM FundsInvariant == Spec => []FundsInv
BY InitFunds, NextFunds, PTL DEF Spec

\* In every behaviour, whatever governance and the signers do: balances stay non-negative,
\* the indexes agree, the module account backs every escrow and every pending withdrawal,
\* BeginBlocker pays what is due, and a payment within the balance never fails.
THEOREM FundsAlwaysBacked == Spec => []FundsBacked
BY FundsInvariant, FundsImplies, PTL

\* A withdrawal is paid out only when every promise of its owner up to the request has
\* expired on the normal path, whatever the parameters were when either was made.
THEOREM PayoutsWaitForPromises == Spec => PayoutAfterNormalExpiry
<1> DEFINE A == \A w \in withdrawals.byAvailable \ withdrawals'.byAvailable, p \in Promises :
                    /\ w.available <= now'
                    /\ now' > now
                    /\ p.signer = w.signer
                    /\ p.creation <= w.requested
                    => now' >= expirationTime(p)
<1>1. FundsInv /\ FundsInv' => A
    <2> SUFFICES ASSUME FundsInv, FundsInv',
                        NEW w \in withdrawals.byAvailable, NEW p \in Promises,
                        w.available <= now', p.creation <= w.requested
                 PROVE  now' >= expirationTime(p)
        BY Zenon
    <2>1. w \in WithdrawalRecord /\ w \in withdrawals.bySigner
        BY BooksInBalance, Zenon DEF FundsInv, FundsTypes, Indexes
    <2>2. w.available \in Int /\ w.requested \in Int
        BY <2>1, Zenon DEF WithdrawalRecord
    <2>3. w.available >= w.requested + MinWithdrawalDelay
        BY <2>1, Zenon DEF FundsInv, RequestsDelayed
    <2>4. p.creation \in Int
        BY PromiseAssumption, Zenon
    <2>5. /\ MinWithdrawalDelay \in Nat /\ params.PaymentPromiseTimeout \in Nat
          /\ params.PaymentPromiseTimeout <= MinWithdrawalDelay
        BY FundsClock, Zenon DEF FundsInv
    <2>6. now' \in Nat
        BY Zenon DEF FundsInv, ReplayInv, ChainTypeOK
    <2> QED BY <2>2, <2>3, <2>4, <2>5, <2>6 DEF expirationTime
<1>2. [Next]_vars /\ FundsInv /\ FundsInv' => [A]_vars
    BY <1>1, Zenon
<1> HIDE DEF A
<1>3. Spec => [][A]_vars
    BY <1>2, FundsInvariant, PTL DEF Spec
<1> QED BY <1>3, Zenon DEF A, PayoutAfterNormalExpiry

-----------------------------------------------------------------------------
(* The budgets of the promise cache                                        *)

BudgetRecord == [found : BOOLEAN, remaining : Nat, lastSweep : Nat, lastActivity : Nat,
                 opsSinceSweep : Nat, lastFailSweepH : Nat, hashes : SUBSET Promises, swept : Nat]

CacheRecord == [budgets : [Signers -> BudgetRecord], pending : SUBSET Promises, lastEvict : Nat]

\* The budget of s at wall time w.  A swept budget may be too small for what it keeps; as
\* soon as anything is left of it, or was reserved since, it is exact.
GoodBudget(s, b, w) ==
    /\ b \in BudgetRecord
    /\ \A p \in b.hashes : p.signer = s
    /\ IsFiniteSet(b.hashes)
    /\ b.opsSinceSweep > 0 \/ b.remaining > 0 => b.remaining + TotalAmount(b.hashes) = b.swept
    /\ b.lastActivity <= w
    /\ \A p \in b.hashes : p.creation <= b.lastActivity + ClockDrift + MaxPromiseClockSkew

GoodCache(c, w) ==
    /\ c \in CacheRecord
    /\ \A s \in Signers : GoodBudget(s, c.budgets[s], w)
    /\ \A q \in Promises : q \in c.pending <=> q \in c.budgets[q.signer].hashes

\* Sums of promise amounts.
LEMMA TotalProperties ==
    ASSUME NEW S, S \subseteq Promises, IsFiniteSet(S)
    PROVE  /\ TotalAmount(S) \in Nat
           /\ \A p \in Promises \ S : TotalAmount(S \cup {p}) = TotalAmount(S) + p.amount
           /\ \A R \in SUBSET S : TotalAmount(R) <= TotalAmount(S)
<1>1. \A p \in Promises : promiseAmount[p] \in Nat /\ promiseAmount[p] = p.amount
    BY PromiseAssumption, Zenon DEF promiseAmount
<1>2. \A p \in S : promiseAmount[p] \in Nat
    BY <1>1, Zenon
<1>3. TotalAmount(S) \in Nat
    BY <1>2, SumNat, Zenon DEF TotalAmount
<1>4. ASSUME NEW p \in Promises \ S
      PROVE  TotalAmount(S \cup {p}) = TotalAmount(S) + p.amount
    <2>1. \A x \in S \cup {p} : promiseAmount[x] \in Int
        BY <1>1
    <2>2. SumFunctionOnSet(promiseAmount, S \cup {p}) = SumFunctionOnSet(promiseAmount, S) + promiseAmount[p]
        BY <2>1, SumAdd, Zenon
    <2> QED BY <1>1, <2>2, Zenon DEF TotalAmount
<1>5. ASSUME NEW R \in SUBSET S PROVE TotalAmount(R) <= TotalAmount(S)
    BY <1>2, SumMonotone, Zenon DEF TotalAmount
<1> QED BY <1>3, <1>4, <1>5, Zenon

\* An empty cache.
LEMMA EmptyGood == ASSUME NEW w \in Nat PROVE GoodCache(EmptyCache, w)
<1>1. \A s \in Signers : EmptyCache.budgets[s] = NoBudget
    BY Zenon DEF EmptyCache
<1>2. NoBudget \in BudgetRecord
    BY Zenon DEF NoBudget, BudgetRecord
<1>3. EmptyCache \in CacheRecord
    BY <1>2, Zenon DEF EmptyCache, CacheRecord
<1>4. \A s \in Signers : GoodBudget(s, NoBudget, w)
    BY <1>2, FS_EmptySet DEF GoodBudget, NoBudget
<1>5. \A q \in Promises : q \notin EmptyCache.pending /\ q \notin EmptyCache.budgets[q.signer].hashes
    BY <1>1, PromiseAssumption, Zenon DEF EmptyCache, NoBudget
<1> QED BY <1>1, <1>3, <1>4, <1>5, Zenon DEF GoodCache

\* Time passes.
LEMMA LaterGood == ASSUME NEW c, NEW v \in Nat, NEW w \in Nat, v <= w, GoodCache(c, v) PROVE GoodCache(c, w)
<1>1. \A s \in Signers : c.budgets[s].lastActivity \in Nat
    BY Zenon DEF GoodCache, GoodBudget, BudgetRecord
<1>2. \A s \in Signers : c.budgets[s].lastActivity <= w
    BY <1>1 DEF GoodCache, GoodBudget
<1> QED BY <1>2, Zenon DEF GoodCache, GoodBudget

\* Replacing one budget.
LEMMA WithBudgetGood ==
    ASSUME NEW c, NEW w, GoodCache(c, w), NEW s \in Signers, NEW b, GoodBudget(s, b, w),
           NEW pending \in SUBSET Promises,
           \A q \in Promises : q.signer # s => (q \in pending <=> q \in c.pending),
           \A q \in Promises : q.signer = s => (q \in pending <=> q \in b.hashes)
    PROVE  /\ GoodCache(WithBudget(c, s, b, pending), w)
           /\ WithBudget(c, s, b, pending).pending = pending
           /\ WithBudget(c, s, b, pending).budgets[s] = b
<1> DEFINE d == WithBudget(c, s, b, pending)
<1>1. c \in CacheRecord /\ b \in BudgetRecord
    BY Zenon DEF GoodCache, GoodBudget
<1>2. /\ d \in CacheRecord /\ d.pending = pending /\ d.budgets[s] = b
      /\ \A x \in Signers \ {s} : d.budgets[x] = c.budgets[x]
    BY <1>1, Zenon DEF WithBudget, CacheRecord
<1> HIDE DEF d
<1>3. \A x \in Signers : GoodBudget(x, d.budgets[x], w)
    BY <1>2, Zenon DEF GoodCache
<1>4. ASSUME NEW q \in Promises PROVE q \in d.pending <=> q \in d.budgets[q.signer].hashes
    <2>1. q.signer \in Signers
        BY PromiseAssumption, Zenon
    <2>2. CASE q.signer = s
        BY <1>2, <2>2, Zenon
    <2>3. CASE q.signer # s
        BY <1>2, <2>1, <2>3, Zenon DEF GoodCache
    <2> QED BY <2>2, <2>3, Zenon
<1>5. GoodCache(d, w)
    BY <1>2, <1>3, <1>4, Zenon DEF GoodCache
<1> QED BY <1>2, <1>5, Zenon DEF d

\* Eviction drops only budgets so long idle that what they hold is past any delay.
LEMMA EvictGood ==
    ASSUME NEW c, wall \in Nat, GoodCache(c, wall)
    PROVE  /\ GoodCache(EvictIfDue(c), wall)
           /\ EvictIfDue(c).pending \subseteq c.pending
           /\ \A q \in c.pending \ EvictIfDue(c).pending :
                  q.creation + MaxWithdrawalDelay <= wall - ClockDrift
<1>1. CASE ~(wall - c.lastEvict > promiseCacheEvictInterval)
    BY <1>1, Zenon DEF EvictIfDue
<1>2. CASE wall - c.lastEvict > promiseCacheEvictInterval
    <2> DEFINE idle == {s \in Signers : /\ c.budgets[s].found
                                        /\ wall - c.budgets[s].lastActivity > evictThreshold}
               d == [budgets |-> [s \in Signers |-> IF s \in idle THEN NoBudget ELSE c.budgets[s]],
                     pending |-> c.pending \ UNION {c.budgets[s].hashes : s \in idle},
                     lastEvict |-> wall]
    <2>1. EvictIfDue(c) = d
        BY <1>2, Zenon DEF EvictIfDue, evictIdleLocked
    <2>2. NoBudget \in BudgetRecord /\ c \in CacheRecord
        BY Zenon DEF NoBudget, BudgetRecord, GoodCache
    <2> HIDE DEF idle
    <2>3. /\ d \in CacheRecord /\ d.pending = c.pending \ UNION {c.budgets[s].hashes : s \in idle}
          /\ \A s \in Signers : d.budgets[s] = IF s \in idle THEN NoBudget ELSE c.budgets[s]
        BY <2>2, Zenon DEF CacheRecord
    <2> HIDE DEF d
    <2>4. \A s \in Signers : GoodBudget(s, NoBudget, wall)
        <3>1. /\ NoBudget.hashes = {} /\ NoBudget.opsSinceSweep = 0 /\ NoBudget.remaining = 0
              /\ NoBudget.lastActivity = 0
            BY Zenon DEF NoBudget
        <3>2. ~(0 > 0) /\ 0 <= wall
            OBVIOUS
        <3> QED BY <2>2, <3>1, <3>2, FS_EmptySet, ZenonT(30) DEF GoodBudget
    <2>5. \A s \in Signers : GoodBudget(s, d.budgets[s], wall)
        BY <2>3, <2>4, Zenon DEF GoodCache
    <2>6. idle \subseteq Signers
        BY Zenon DEF idle
    <2>7. ASSUME NEW q \in Promises
          PROVE  /\ q \in d.pending <=> q \in d.budgets[q.signer].hashes
                 /\ q \in c.pending \ d.pending => q.signer \in idle /\ q \in c.budgets[q.signer].hashes
        <3>1. q.signer \in Signers /\ (q \in c.pending <=> q \in c.budgets[q.signer].hashes)
            BY PromiseAssumption, Zenon DEF GoodCache
        <3>2. \A s \in Signers : q \in c.budgets[s].hashes => s = q.signer
            BY Zenon DEF GoodCache, GoodBudget
        <3>3. q \in d.pending <=> q \in c.pending /\ q.signer \notin idle
            BY <2>3, <2>6, <3>1, <3>2, SMTT(30)
        <3>4. CASE q.signer \in idle
            BY <2>3, <3>1, <3>3, <3>4, SMTT(30) DEF NoBudget
        <3>5. CASE q.signer \notin idle
            BY <2>3, <3>1, <3>3, <3>5, Zenon
        <3> QED BY <3>4, <3>5, Zenon
    <2>8. GoodCache(d, wall)
        BY <2>3, <2>5, <2>7, Zenon DEF GoodCache
    <2>9. ASSUME NEW q \in c.pending \ d.pending
          PROVE  q.creation + MaxWithdrawalDelay <= wall - ClockDrift
        <3>1. q \in Promises
            BY <2>2, Zenon DEF CacheRecord
        <3> DEFINE b == c.budgets[q.signer]
        <3>2. q.signer \in idle /\ q \in b.hashes /\ q.signer \in Signers
            BY <2>6, <2>7, <3>1, Zenon
        <3>3. wall - b.lastActivity > MaxWithdrawalDelay + promiseCacheEvictBuffer
            BY <3>2, Zenon DEF idle, evictThreshold
        <3>4. b.lastActivity \in Nat /\ q.creation <= b.lastActivity + ClockDrift + MaxPromiseClockSkew
            BY <3>2, Zenon DEF GoodCache, GoodBudget, BudgetRecord
        <3>5. q.creation \in Int
            BY <3>1, PromiseAssumption, Zenon
        <3> HIDE DEF b
        <3> QED BY <3>3, <3>4, <3>5, CacheAssumption, ClockAssumption, ParamAssumption, SMTT(30)
    <2> QED BY <2>1, <2>3, <2>8, <2>9, Zenon
<1> QED BY <1>1, <1>2, Zenon

\* d is c after a sweep of s: what it drops is settled or stale.
SweptFrom(c, d, s) ==
    /\ GoodCache(d, wall)
    /\ d.pending \subseteq c.pending
    /\ \A q \in c.pending \ d.pending : IsPaymentPromiseProcessed(q) \/ ~(q.creation > staleBefore)
    /\ d.budgets[s].swept = escrow[s].available

\* A sweep reads the available balance and forgets what is settled or stale.
LEMMA SweepGood ==
    ASSUME NEW c, wall \in Nat, GoodCache(c, wall), NEW s \in Signers, escrow[s].available \in Nat
    PROVE  SweptFrom(c, sweep(c, s), s)
<1> DEFINE b == c.budgets[s]
           kept == Kept(b)
           d == [b EXCEPT !.found = TRUE, !.remaining = remainingBudget(s, kept),
                          !.lastSweep = wall, !.lastActivity = wall, !.opsSinceSweep = 0,
                          !.hashes = kept, !.swept = escrow[s].available]
           pending == c.pending \ (b.hashes \ kept)
<1>1. sweep(c, s) = WithBudget(c, s, d, pending)
    BY Zenon DEF sweep
<1>2. /\ b \in BudgetRecord /\ IsFiniteSet(b.hashes) /\ b.hashes \subseteq Promises
      /\ b.lastActivity \in Nat /\ b.lastActivity <= wall
      /\ \A p \in b.hashes : p.signer = s /\ p.creation <= b.lastActivity + ClockDrift + MaxPromiseClockSkew
    BY Zenon DEF GoodCache, GoodBudget, BudgetRecord
<1>3. kept \in SUBSET b.hashes /\ IsFiniteSet(kept) /\ kept \subseteq Promises
    BY <1>2, FS_Subset, Zenon DEF Kept
<1>4. TotalAmount(kept) \in Nat
    BY <1>3, TotalProperties, Zenon
<1>5. /\ remainingBudget(s, kept) \in Nat
      /\ remainingBudget(s, kept) > 0 => remainingBudget(s, kept) + TotalAmount(kept) = escrow[s].available
    <2> HIDE DEF kept
    <2> QED BY <1>4 DEF remainingBudget
<1> HIDE DEF kept, b
<1>6. /\ d \in BudgetRecord /\ d.hashes = kept /\ d.swept = escrow[s].available
      /\ d.remaining = remainingBudget(s, kept) /\ d.lastActivity = wall /\ d.opsSinceSweep = 0
    BY <1>2, <1>3, <1>5, Zenon DEF BudgetRecord
<1> HIDE DEF d
<1>7. \A p \in kept : p.signer = s /\ p.creation <= wall + ClockDrift + MaxPromiseClockSkew
    <2> SUFFICES ASSUME NEW p \in kept
                 PROVE  p.signer = s /\ p.creation <= wall + ClockDrift + MaxPromiseClockSkew
        BY Zenon
    <2>1. p.signer = s /\ p.creation <= b.lastActivity + ClockDrift + MaxPromiseClockSkew
          /\ p.creation \in Int
        BY <1>2, <1>3, PromiseAssumption, Zenon
    <2> QED BY <1>2, <2>1, CacheAssumption, ParamAssumption, SMTT(30)
<1>8. GoodBudget(s, d, wall)
    BY <1>3, <1>5, <1>6, <1>7, SMTT(30) DEF GoodBudget
<1>9. \A q \in Promises : q \in c.pending <=> q \in c.budgets[q.signer].hashes
    BY Zenon DEF GoodCache
<1>10. /\ \A q \in Promises : q.signer # s => (q \in pending <=> q \in c.pending)
       /\ \A q \in Promises : q.signer = s => (q \in pending <=> q \in d.hashes)
       /\ pending \in SUBSET Promises
    <2>1. c.pending \subseteq Promises
        BY Zenon DEF GoodCache, CacheRecord
    <2>2. \A q \in b.hashes : q.signer = s
        BY <1>2, Zenon
    <2>3. \A q \in Promises : q.signer = s => (q \in c.pending <=> q \in b.hashes)
        BY <1>9, ZenonT(30) DEF b
    <2>4. \A q \in Promises : q.signer # s => (q \in pending <=> q \in c.pending)
        BY <2>2, ZenonT(30)
    <2>5. \A q \in Promises : q.signer = s => (q \in pending <=> q \in d.hashes)
        BY <1>3, <1>6, <2>3, ZenonT(30)
    <2>6. pending \in SUBSET Promises
        BY <2>1, ZenonT(30)
    <2> HIDE DEF pending
    <2> QED BY <2>4, <2>5, <2>6, Zenon
<1>11. /\ GoodCache(sweep(c, s), wall) /\ sweep(c, s).pending = pending
       /\ sweep(c, s).budgets[s] = d
    <2> HIDE DEF pending
    <2> QED BY <1>1, <1>8, <1>10, WithBudgetGood, SMTT(30)
<1>12. \A q \in c.pending \ pending : IsPaymentPromiseProcessed(q) \/ ~(q.creation > staleBefore)
    BY Zenon DEF kept, Kept
<1> QED BY <1>6, <1>11, <1>12, Zenon DEF SweptFrom

\* The sweep of a failed reservation also notes the height.
LEMMA FailSweepGood ==
    ASSUME NEW c, wall \in Nat, height \in Nat, GoodCache(c, wall), NEW s \in Signers,
           escrow[s].available \in Nat
    PROVE  SweptFrom(c, failSweep(c, s), s)
<1> DEFINE d == sweep(c, s)
           b == d.budgets[s]
           e == [b EXCEPT !.lastFailSweepH = height]
<1>1. SweptFrom(c, d, s)
    BY SweepGood, Zenon
<1>2. failSweep(c, s) = WithBudget(d, s, e, d.pending)
    BY Zenon DEF failSweep
<1> HIDE DEF d
<1>3. /\ GoodBudget(s, b, wall) /\ d.pending \in SUBSET Promises
      /\ \A q \in Promises : q \in d.pending <=> q \in d.budgets[q.signer].hashes
    BY <1>1, Zenon DEF SweptFrom, GoodCache, CacheRecord
<1>4. e \in BudgetRecord /\ e.hashes = b.hashes /\ e.remaining = b.remaining /\ e.swept = b.swept
      /\ e.opsSinceSweep = b.opsSinceSweep /\ e.lastActivity = b.lastActivity
    BY <1>3, Zenon DEF GoodBudget, BudgetRecord
<1> HIDE DEF e
<1>5. GoodBudget(s, e, wall)
    BY <1>3, <1>4, Zenon DEF GoodBudget
<1>6. /\ GoodCache(failSweep(c, s), wall) /\ failSweep(c, s).pending = d.pending
      /\ failSweep(c, s).budgets[s] = e
    <2>1. \A q \in Promises : q.signer = s => (q \in d.pending <=> q \in e.hashes)
        BY <1>3, <1>4, Zenon
    <2>2. GoodCache(d, wall)
        BY <1>1, Zenon DEF SweptFrom
    <2> QED BY <1>2, <1>3, <1>5, <2>1, <2>2, WithBudgetGood, SMTT(30)
<1> QED BY <1>1, <1>4, <1>6, Zenon DEF SweptFrom

\* A reservation that fits keeps the budget exact.
LEMMA ReserveGood ==
    ASSUME NEW c, wall \in Nat, GoodCache(c, wall), NEW p \in Promises, p \notin c.pending,
           Fits(c, p), p.creation <= wall + ClockDrift + MaxPromiseClockSkew
    PROVE  /\ GoodCache(reserve(c, p), wall)
           /\ reserve(c, p).pending = c.pending \cup {p}
           /\ reserve(c, p).budgets[p.signer].hashes = c.budgets[p.signer].hashes \cup {p}
           /\ IsFiniteSet(reserve(c, p).budgets[p.signer].hashes)
           /\ TotalAmount(reserve(c, p).budgets[p.signer].hashes) <= c.budgets[p.signer].swept
<1> DEFINE s == p.signer
           b == c.budgets[s]
           H == b.hashes \cup {p}
           d == [b EXCEPT !.remaining = b.remaining - p.amount,
                          !.opsSinceSweep = b.opsSinceSweep + 1,
                          !.lastActivity = wall, !.hashes = b.hashes \cup {p}]
<1>1. s \in Signers /\ p.amount \in Nat \ {0} /\ p.creation \in Int
    BY PromiseAssumption, Zenon
<1>2. GoodBudget(s, b, wall) /\ b \in BudgetRecord /\ p \notin b.hashes
    BY <1>1, Zenon DEF GoodCache, GoodBudget
<1>3. reserve(c, p) = WithBudget(c, s, d, c.pending \cup {p})
    BY Zenon DEF reserve
<1>4. b.remaining >= p.amount
    BY Zenon DEF Fits
<1> HIDE DEF b, s
<1>5. b.remaining \in Nat /\ b.opsSinceSweep \in Nat /\ b.lastActivity \in Nat /\ b.swept \in Nat
      /\ b.hashes \subseteq Promises /\ IsFiniteSet(b.hashes)
    BY <1>2, Zenon DEF GoodBudget, BudgetRecord
<1>6. b.remaining - p.amount \in Nat /\ b.remaining > 0 /\ b.opsSinceSweep + 1 \in Nat
    BY <1>1, <1>4, <1>5, SMTT(30)
<1>7. b.remaining + TotalAmount(b.hashes) = b.swept
    BY <1>2, <1>6, Zenon DEF GoodBudget
<1>8. TotalAmount(H) = TotalAmount(b.hashes) + p.amount /\ TotalAmount(b.hashes) \in Nat
    BY <1>2, <1>5, TotalProperties, Zenon
<1>9. IsFiniteSet(H) /\ H \in SUBSET Promises
    BY <1>5, FS_AddElement, Zenon
<1>10. /\ d \in BudgetRecord /\ d.hashes = H /\ d.swept = b.swept
       /\ d.remaining = b.remaining - p.amount /\ d.lastActivity = wall
    BY <1>2, <1>5, <1>6, <1>9, Zenon DEF BudgetRecord
<1> HIDE DEF d, H
<1>11. d.remaining + TotalAmount(d.hashes) = d.swept /\ TotalAmount(H) <= b.swept
    BY <1>1, <1>5, <1>6, <1>7, <1>8, <1>10, SMTT(30)
<1>12. \A q \in H : q.signer = s /\ q.creation <= wall + ClockDrift + MaxPromiseClockSkew
    <2> SUFFICES ASSUME NEW q \in b.hashes
                 PROVE  q.signer = s /\ q.creation <= wall + ClockDrift + MaxPromiseClockSkew
        BY Zenon DEF s, H
    <2>1. q.signer = s /\ q.creation <= b.lastActivity + ClockDrift + MaxPromiseClockSkew
          /\ q.creation \in Int /\ b.lastActivity <= wall
        BY <1>2, <1>5, PromiseAssumption, Zenon DEF GoodBudget
    <2> QED BY <1>5, <2>1, CacheAssumption, ParamAssumption
<1>13. GoodBudget(s, d, wall)
    BY <1>9, <1>10, <1>11, <1>12, SMTT(30) DEF GoodBudget
<1>14. /\ \A q \in Promises : q.signer # s => (q \in c.pending \cup {p} <=> q \in c.pending)
       /\ \A q \in Promises : q.signer = s => (q \in c.pending \cup {p} <=> q \in d.hashes)
       /\ c.pending \cup {p} \in SUBSET Promises
    BY <1>10, Zenon DEF GoodCache, CacheRecord, s, b, H
<1>15. /\ GoodCache(reserve(c, p), wall) /\ reserve(c, p).pending = c.pending \cup {p}
       /\ reserve(c, p).budgets[s] = d
    <2> DEFINE new == c.pending \cup {p}
    <2>1. /\ new \in SUBSET Promises
          /\ \A q \in Promises : q.signer # s => (q \in new <=> q \in c.pending)
          /\ \A q \in Promises : q.signer = s => (q \in new <=> q \in d.hashes)
        BY <1>14, Zenon
    <2>2. reserve(c, p) = WithBudget(c, s, d, new)
        BY <1>3, Zenon
    <2> HIDE DEF new
    <2>3. /\ GoodCache(WithBudget(c, s, d, new), wall)
          /\ WithBudget(c, s, d, new).pending = new
          /\ WithBudget(c, s, d, new).budgets[s] = d
        BY <1>1, <1>13, <2>1, WithBudgetGood, SMTT(30)
    <2> QED BY <2>2, <2>3, Zenon DEF new
<1>16. /\ reserve(c, p).budgets[s].hashes = H
       /\ IsFiniteSet(H) /\ TotalAmount(H) <= b.swept
    BY <1>9, <1>10, <1>11, <1>15, Zenon
<1>17. reserve(c, p).budgets[p.signer].hashes = H
    BY <1>16, Zenon DEF s
<1>18. H = c.budgets[p.signer].hashes \cup {p} /\ b.swept = c.budgets[p.signer].swept
    BY Zenon DEF H, b, s
<1> QED BY <1>15, <1>16, <1>17, <1>18, ZenonT(30)

\* Reserve: the cache stays exact; what it drops can no longer settle; at most p is new; and
\* p is covered by the available balance if the cache swept.
LEMMA ReserveProperties ==
    ASSUME NEW p \in Promises, wall \in Nat, height \in Nat, GoodCache(cache, wall),
           escrow[p.signer].available \in Nat,
           p.creation <= wall + ClockDrift + MaxPromiseClockSkew
    PROVE  /\ GoodCache(Reserve(p), wall)
           /\ \A q \in cache.pending \ Reserve(p).pending :
                 \/ q.creation + MaxWithdrawalDelay <= wall - ClockDrift
                 \/ IsPaymentPromiseProcessed(q)
                 \/ ~(q.creation > staleBefore)
           /\ Reserve(p).pending \subseteq cache.pending \cup {p}
           /\ \/ p \in cache.pending
              \/ p \notin Reserve(p).pending
              \/ ~(SweepFirst(EvictIfDue(cache), p) \/ ~Fits(EvictIfDue(cache), p))
              \/ TotalAmount(Reserve(p).budgets[p.signer].hashes) <= escrow[p.signer].available
<1> DEFINE s == p.signer
           c0 == EvictIfDue(cache)
           c1 == IF SweepFirst(c0, p) THEN sweep(c0, s) ELSE c0
           c2 == failSweep(c1, s)
           Gone(q) == \/ q.creation + MaxWithdrawalDelay <= wall - ClockDrift
                      \/ IsPaymentPromiseProcessed(q)
                      \/ ~(q.creation > staleBefore)
           Through(c) == /\ GoodCache(c, wall)
                         /\ c.pending \subseteq cache.pending
                         /\ \A q \in cache.pending \ c.pending : Gone(q)
<1>1. s \in Signers
    BY PromiseAssumption, Zenon
<1>2. Through(c0)
    BY EvictGood, Zenon
<1> HIDE DEF c0
<1>3. Through(c1) /\ (SweepFirst(c0, p) => c1.budgets[s].swept = escrow[s].available)
    <2>1. CASE SweepFirst(c0, p)
        <3>1. SweptFrom(c0, c1, s)
            BY <1>1, <1>2, <2>1, SweepGood, Zenon
        <3> HIDE DEF c1, Gone
        <3>2. \A q \in c0.pending \ c1.pending : Gone(q)
            BY <3>1, Zenon DEF SweptFrom, Gone
        <3> QED BY <1>2, <3>1, <3>2, Zenon DEF SweptFrom
    <2>2. CASE ~SweepFirst(c0, p)
        BY <1>2, <2>2, Zenon
    <2> QED BY <2>1, <2>2, Zenon
<1>4. ~SweepFirst(c0, p) => c1 = c0
    BY Zenon
<1>5. Reserve(p) = CASE p \in c0.pending -> c0
                     [] p \notin c0.pending /\ Fits(c1, p) -> reserve(c1, p)
                     [] p \notin c0.pending /\ ~Fits(c1, p) /\ ~FailSweepAllowed(c1, p) -> c1
                     [] OTHER -> IF Fits(c2, p) THEN reserve(c2, p) ELSE c2
    BY Zenon DEF Reserve, c0
<1>6. c1.pending \subseteq c0.pending
    <2>1. CASE SweepFirst(c0, p)
        BY <1>1, <1>2, <2>1, SweepGood, Zenon DEF SweptFrom
    <2> QED BY <1>4, <2>1, Zenon
<1> HIDE DEF c1
<1>7. SweptFrom(c1, c2, s)
    BY <1>1, <1>3, FailSweepGood, Zenon
<1> HIDE DEF c2, Gone
<1>8. Through(c2) /\ c2.budgets[s].swept = escrow[s].available /\ c2.pending \subseteq c1.pending
    <2>1. \A q \in c1.pending \ c2.pending : Gone(q)
        BY <1>7, ZenonT(30) DEF SweptFrom, Gone
    <2> QED BY <1>3, <1>7, <2>1, Zenon DEF SweptFrom
\* What holds of a cache to which p was added.
<1> DEFINE Added(c) == /\ GoodCache(Reserve(p), wall)
                       /\ Reserve(p).pending = c.pending \cup {p}
                       /\ TotalAmount(Reserve(p).budgets[s].hashes) <= c.budgets[s].swept
<1>9. ASSUME NEW c, Through(c), c.pending \subseteq c0.pending, p \notin c0.pending, Fits(c, p),
             Reserve(p) = reserve(c, p)
      PROVE  Added(c)
    <2>1. GoodCache(c, wall) /\ p \notin c.pending
        BY <1>9, Zenon
    <2>2. /\ GoodCache(reserve(c, p), wall)
          /\ reserve(c, p).pending = c.pending \cup {p}
          /\ TotalAmount(reserve(c, p).budgets[s].hashes) <= c.budgets[s].swept
        BY <1>9, <2>1, ReserveGood, ZenonT(30)
    <2> QED BY <1>9, <2>2, ZenonT(30)
<1> DEFINE Dropped == \A q \in cache.pending \ Reserve(p).pending : Gone(q)
           OneNew == Reserve(p).pending \subseteq cache.pending \cup {p}
           Covered == \/ p \in cache.pending
                      \/ p \notin Reserve(p).pending
                      \/ ~(SweepFirst(c0, p) \/ ~Fits(c0, p))
                      \/ TotalAmount(Reserve(p).budgets[s].hashes) <= escrow[s].available
           Reserved == GoodCache(Reserve(p), wall) /\ Dropped /\ OneNew /\ Covered
<1> SUFFICES Reserved
    BY ZenonT(30) DEF Gone, c0
\* Adding p keeps what Through says of the cache it is added to.
<1>10. ASSUME NEW c, Through(c), Added(c) PROVE Dropped /\ OneNew
    <2>1. Dropped
        BY <1>10, ZenonT(30)
    <2>2. OneNew
        BY <1>10, ZenonT(30)
    <2> QED BY <2>1, <2>2, Zenon
<1>11. CASE p \in c0.pending
    <2>1. Reserve(p) = c0 /\ p \in cache.pending
        BY <1>2, <1>5, <1>11, Zenon
    <2>2. GoodCache(Reserve(p), wall) /\ Dropped
        BY <1>2, <2>1, ZenonT(30)
    <2>3. OneNew
        BY <1>2, <2>1, ZenonT(30)
    <2> HIDE DEF Dropped, OneNew
    <2> QED BY <2>1, <2>2, <2>3, Zenon
<1>12. CASE p \notin c0.pending /\ Fits(c1, p)
    <2>1. Reserve(p) = reserve(c1, p)
        BY <1>5, <1>12, Zenon
    <2> HIDE DEF Through, Added, Dropped, OneNew
    <2>2. Added(c1)
        BY <1>3, <1>6, <1>9, <1>12, <2>1, ZenonT(30)
    <2>3. (SweepFirst(c0, p) \/ ~Fits(c0, p)) => c1.budgets[s].swept = escrow[s].available
        BY <1>3, <1>4, <1>12, ZenonT(30)
    <2>4. Dropped /\ OneNew
        BY <1>3, <1>10, <2>2, ZenonT(30)
    <2>5. /\ GoodCache(Reserve(p), wall)
          /\ TotalAmount(Reserve(p).budgets[s].hashes) <= c1.budgets[s].swept
        BY <2>2, Zenon DEF Added
    <2>6. Covered
        BY <2>3, <2>5, ZenonT(30)
    <2> HIDE DEF Covered
    <2> QED BY <2>4, <2>5, <2>6, Zenon
<1>13. CASE p \notin c0.pending /\ ~Fits(c1, p) /\ ~FailSweepAllowed(c1, p)
    <2>1. Reserve(p) = c1
        BY <1>5, <1>13, Zenon
    <2>2. GoodCache(Reserve(p), wall) /\ Dropped
        BY <1>3, <2>1, ZenonT(30)
    <2>3. OneNew
        BY <1>3, <2>1, ZenonT(30)
    <2>4. p \notin Reserve(p).pending
        BY <1>6, <1>13, <2>1, ZenonT(30)
    <2> HIDE DEF Dropped, OneNew
    <2> QED BY <2>2, <2>3, <2>4, Zenon
<1>14. CASE p \notin c0.pending /\ ~Fits(c1, p) /\ FailSweepAllowed(c1, p)
    <2>1. Reserve(p) = IF Fits(c2, p) THEN reserve(c2, p) ELSE c2
        BY <1>5, <1>14, Zenon
    <2>2. c2.pending \subseteq c0.pending
        BY <1>6, <1>8, ZenonT(30)
    <2>3. CASE Fits(c2, p)
        <3>1. Reserve(p) = reserve(c2, p)
            BY <2>1, <2>3, Zenon
        <3> HIDE DEF Through, Added, Dropped, OneNew
        <3>2. Added(c2)
            BY <1>8, <1>9, <1>14, <2>2, <2>3, <3>1, ZenonT(30)
        <3>3. Dropped /\ OneNew
            BY <1>8, <1>10, <3>2, ZenonT(30)
        <3>4. /\ GoodCache(Reserve(p), wall)
              /\ TotalAmount(Reserve(p).budgets[s].hashes) <= c2.budgets[s].swept
            BY <3>2, Zenon DEF Added
        <3>5. TotalAmount(Reserve(p).budgets[s].hashes) <= escrow[s].available
            BY <1>8, <3>4, ZenonT(30)
        <3> QED BY <3>3, <3>4, <3>5, Zenon
    <2>4. CASE ~Fits(c2, p)
        <3>1. Reserve(p) = c2
            BY <2>1, <2>4, Zenon
        <3>2. GoodCache(Reserve(p), wall) /\ Dropped
            BY <1>8, <3>1, ZenonT(30)
        <3>3. OneNew
            BY <1>8, <3>1, ZenonT(30)
        <3>4. p \notin Reserve(p).pending
            BY <1>14, <2>2, <3>1, ZenonT(30)
        <3> HIDE DEF Dropped, OneNew
        <3> QED BY <3>2, <3>3, <3>4, Zenon
    <2> QED BY <2>3, <2>4, Zenon
<1> HIDE DEF Reserved
<1> QED BY <1>11, <1>12, <1>13, <1>14, Zenon

-----------------------------------------------------------------------------
(* The inductive invariant                                                 *)

\* A processed-payment record stands for a settlement.
RecordsSettled == \A r \in processed.byHash : settlements[r.promise] > 0

\* p can settle no more: it is at or below the freshness floor, or between blocks and the
\* next BeginBlock raises the floor past it, whichever of the two clocks says so.
Doomed(p) ==
    \/ p.creation <= floor
    \/ /\ stage = "commit"
       /\ \/ p.creation <= now - params.WithdrawalDelay
          \/ p.creation + MaxWithdrawalDelay <= wall - ClockDrift

CacheInv ==
    /\ FundsInv
    /\ RecordsSettled
    /\ wall \in Nat
    /\ now <= wall + ClockDrift
    /\ GoodCache(cache, wall)
    /\ dropped \subseteq Promises
    /\ \A p \in dropped : settlements[p] = 0 /\ Doomed(p)

\* Types that the steps below need.
LEMMA CacheInvTypes ==
    ASSUME CacheInv
    PROVE  /\ ReplayInv /\ stage \in {"deliver", "end", "commit"} /\ now \in Nat /\ height \in Nat
           /\ floor \in Int /\ settlements \in [Promises -> Nat]
           /\ params.WithdrawalDelay \in Nat /\ params.WithdrawalDelay <= MaxWithdrawalDelay
           /\ MaxWithdrawalDelay \in Nat /\ ClockDrift \in Nat /\ MaxPromiseClockSkew \in Nat
           /\ \A s \in Signers : escrow[s].available \in Nat
<1>1. ReplayInv /\ FundsTypes
    BY Zenon DEF CacheInv, FundsInv
<1>2. \A s \in Signers : escrow[s].available \in Nat
    BY <1>1, Zenon DEF FundsTypes, Accounts
<1>3. params.WithdrawalDelay \in Nat /\ params.WithdrawalDelay <= MaxWithdrawalDelay
    BY <1>1, ValidParamBounds, Zenon DEF ReplayInv, ChainTypeOK, ParamsValid
<1> QED BY <1>1, <1>2, <1>3, ClockAssumption, CacheAssumption, ParamAssumption, Zenon
        DEF ReplayInv, ChainTypeOK

\* The start.
LEMMA InitCache == CacheInit => CacheInv
<1> SUFFICES ASSUME CacheInit PROVE CacheInv
    BY Zenon
<1>1. FundsInv
    BY InitFunds, Zenon DEF CacheInit
<1>2. wall \in Nat /\ now <= wall + ClockDrift
    BY ClockAssumption, CacheAssumption DEF CacheInit, Init
<1>3. GoodCache(cache, wall)
    BY <1>2, EmptyGood, Zenon DEF CacheInit
<1>4. RecordsSettled /\ dropped = {}
    BY Zenon DEF CacheInit, Init, RecordsSettled
<1> QED BY <1>1, <1>2, <1>3, <1>4, Zenon DEF CacheInv

\* The block ends and is committed; the clock may move on.
LEMMA CloseBlockCache ==
    ASSUME CacheInv, CloseBlock, wall' \in Nat, wall' >= wall
    PROVE  /\ FundsInv' /\ RecordsSettled' /\ now' <= wall' + ClockDrift /\ stage' = "commit"
           /\ \A p \in dropped : settlements'[p] = 0 /\ Doomed(p)'
<1>1. /\ stage' = "commit"
      /\ UNCHANGED <<now, height, params, escrow, withdrawals, floor, processed, settlements, bankVars>>
    BY Zenon DEF CloseBlock, promiseVars
<1>2. ReplayInv'
    BY <1>1, CacheInvTypes, UnchangedReplay, Zenon DEF promiseVars
<1>3. FundsInv'
    BY <1>1, <1>2, UnchangedFunds, Zenon DEF CacheInv
<1>4. RecordsSettled'
    BY <1>1, Zenon DEF CacheInv, RecordsSettled
<1>5. now' <= wall' + ClockDrift
    BY <1>1, CacheInvTypes DEF CacheInv
<1>6. ASSUME NEW p \in dropped PROVE settlements'[p] = 0 /\ Doomed(p)'
    <2>1. settlements[p] = 0 /\ Doomed(p) /\ p.creation \in Int
        BY PromiseAssumption, Zenon DEF CacheInv
    <2>2. Doomed(p)'
        <3>1. CASE p.creation <= floor
            BY <1>1, <3>1, Zenon DEF Doomed
        <3>2. CASE p.creation <= now - params.WithdrawalDelay
            BY <1>1, <3>2, Zenon DEF Doomed
        <3>3. CASE p.creation + MaxWithdrawalDelay <= wall - ClockDrift
            <4>1. p.creation + MaxWithdrawalDelay <= wall' - ClockDrift
                BY <2>1, <3>3, CacheInvTypes DEF CacheInv
            <4> QED BY <1>1, <4>1, Zenon DEF Doomed
        <3> QED BY <2>1, <3>1, <3>2, <3>3, Zenon DEF Doomed
    <2> QED BY <1>1, <2>1, <2>2, Zenon
<1> QED BY <1>1, <1>3, <1>4, <1>5, <1>6, Zenon

\* A query: what it drops is doomed.
LEMMA ValidateCache ==
    ASSUME CacheInv, NEW p \in Promises, ValidatePaymentPromise(p)
    PROVE  CacheInv'
<1>1. /\ CloseBlock /\ wall' = wall /\ cache' = Reserve(p)
      /\ dropped' = dropped \cup {q \in cache.pending \ cache'.pending : settlements[q] = 0}
      /\ p.creation <= now + MaxPromiseClockSkew
    BY Zenon DEF ValidatePaymentPromise, validatePaymentPromiseStatefulInternal
<1>2. /\ wall \in Nat /\ GoodCache(cache, wall) /\ p.signer \in Signers /\ p.creation \in Int
      /\ now <= wall + ClockDrift
    BY PromiseAssumption, Zenon DEF CacheInv
<1>3. /\ FundsInv' /\ RecordsSettled' /\ now' <= wall' + ClockDrift /\ stage' = "commit"
      /\ \A q \in dropped : settlements'[q] = 0 /\ Doomed(q)'
    BY <1>1, <1>2, CloseBlockCache, SMTT(30)
<1>4. p.creation <= wall + ClockDrift + MaxPromiseClockSkew
    BY <1>1, <1>2, CacheInvTypes, SMTT(30)
<1>5. /\ GoodCache(Reserve(p), wall)
      /\ \A q \in cache.pending \ Reserve(p).pending :
            \/ q.creation + MaxWithdrawalDelay <= wall - ClockDrift
            \/ IsPaymentPromiseProcessed(q)
            \/ ~(q.creation > staleBefore)
    BY <1>2, <1>4, CacheInvTypes, ReserveProperties, Zenon
<1>6. ASSUME NEW q \in cache.pending \ cache'.pending, settlements[q] = 0
      PROVE  q \in Promises /\ settlements'[q] = 0 /\ Doomed(q)'
    <2>1. q \in Promises /\ q.creation \in Int
        BY <1>2, PromiseAssumption, Zenon DEF GoodCache, CacheRecord
    <2>2. UNCHANGED <<now, params, settlements>>
        BY <1>1, Zenon DEF CloseBlock, promiseVars
    <2>3. ~IsPaymentPromiseProcessed(q)
        BY <1>6 DEF CacheInv, RecordsSettled, IsPaymentPromiseProcessed
    <2>4. \/ q.creation + MaxWithdrawalDelay <= wall - ClockDrift
          \/ q.creation <= now - params.WithdrawalDelay
        <3>1. \/ q.creation + MaxWithdrawalDelay <= wall - ClockDrift
              \/ ~(q.creation > now - params.WithdrawalDelay)
            BY <1>1, <1>5, <1>6, <2>3, Zenon DEF staleBefore
        <3> QED BY <2>1, <3>1, CacheInvTypes
    <2> QED BY <1>1, <1>3, <1>6, <2>1, <2>2, <2>4, Zenon DEF Doomed
<1>7. dropped' \subseteq Promises /\ \A q \in dropped' : settlements'[q] = 0 /\ Doomed(q)'
    <2>1. dropped \subseteq Promises
        BY Zenon DEF CacheInv
    <2> QED BY <1>1, <1>3, <1>6, <2>1, Zenon
<1>8. GoodCache(cache', wall') /\ wall' \in Nat
    BY <1>1, <1>2, <1>5, Zenon
<1> QED BY <1>3, <1>7, <1>8, Zenon DEF CacheInv

\* The chain moves while the cache stands still.
LEMMA ChainCache ==
    ASSUME CacheInv, FundsInv', UNCHANGED cacheVars, now' <= wall + ClockDrift, RecordsSettled',
           \A p \in dropped : settlements'[p] = 0 /\ Doomed(p)'
    PROVE  CacheInv'
BY Zenon DEF CacheInv, cacheVars

\* BeginBlock raises the floor past everything that was doomed between blocks.
LEMMA BeginBlockCache ==
    ASSUME CacheInv, FundsInv', NEW t \in BlockTimes \cap (wall - ClockDrift .. wall + ClockDrift),
           BeginBlock(t), UNCHANGED cacheVars
    PROVE  CacheInv'
<1>1. /\ t \in Nat /\ t > now /\ now' = t /\ settlements' = settlements /\ params' = params
      /\ floor' = Later(t - params.WithdrawalDelay, floor)
      /\ processed'.byHash \subseteq processed.byHash
    BY ClockAssumption, Zenon DEF BeginBlock, updatePromiseFreshnessFloor, pruneProcessedPayments
<1>2. wall - ClockDrift <= t /\ t <= wall + ClockDrift
    OBVIOUS
<1>3. /\ floor \in Int /\ now \in Nat /\ wall \in Nat /\ ClockDrift \in Nat
      /\ params.WithdrawalDelay \in Nat /\ params.WithdrawalDelay <= MaxWithdrawalDelay
      /\ MaxWithdrawalDelay \in Nat
    BY CacheInvTypes, Zenon DEF CacheInv
<1>4. floor' \in Int /\ floor' >= t - params.WithdrawalDelay /\ floor' >= floor
    <2>1. t - params.WithdrawalDelay \in Int
        BY <1>1, <1>3
    <2> QED BY <1>1, <1>3, <2>1, LaterProperties, Zenon
<1>5. RecordsSettled'
    BY <1>1, Zenon DEF CacheInv, RecordsSettled
<1>6. ASSUME NEW p \in dropped PROVE settlements'[p] = 0 /\ Doomed(p)'
    <2>1. settlements[p] = 0 /\ Doomed(p) /\ p.creation \in Int
        BY PromiseAssumption, Zenon DEF CacheInv
    <2>2. p.creation <= floor'
        <3>1. CASE p.creation <= floor
            BY <1>3, <1>4, <2>1, <3>1, SMTT(30)
        <3>2. CASE p.creation <= now - params.WithdrawalDelay
            BY <1>1, <1>3, <1>4, <2>1, <3>2, SMTT(30)
        <3>3. CASE p.creation + MaxWithdrawalDelay <= wall - ClockDrift
            BY <1>1, <1>2, <1>3, <1>4, <2>1, <3>3, SMTT(30)
        <3> QED BY <2>1, <3>1, <3>2, <3>3, Zenon DEF Doomed
    <2> QED BY <1>1, <2>1, <2>2, Zenon DEF Doomed
<1> QED BY <1>1, <1>2, <1>5, <1>6, ChainCache, Zenon

\* What was dropped cannot settle while messages run: it is not fresh.
LEMMA SettleCache ==
    ASSUME CacheInv, FundsInv', NEW p \in Promises, Settle(p), Fresh(p), UNCHANGED cacheVars
    PROVE  CacheInv'
<1>1. /\ stage = "deliver" /\ UNCHANGED <<now, floor, params, stage>>
      /\ settlements' = [settlements EXCEPT ![p] = @ + 1]
      /\ processed'.byHash = processed.byHash \cup {[promise |-> p, at |-> now]}
    BY Zenon DEF Settle, SetProcessedPayment
<1>2. /\ floor \in Int /\ now \in Nat /\ params.WithdrawalDelay \in Nat
      /\ settlements \in [Promises -> Nat] /\ dropped \subseteq Promises
    BY CacheInvTypes, Zenon DEF CacheInv
<1>3. p.creation \in Int /\ p.creation > floor
    <2>1. p.creation > Later(now - params.WithdrawalDelay, floor) /\ p.creation \in Int
        BY PromiseAssumption, Zenon DEF Fresh, minAllowedTime
    <2>2. now - params.WithdrawalDelay \in Int
        BY <1>2
    <2>3. Later(now - params.WithdrawalDelay, floor) \in Int
          /\ Later(now - params.WithdrawalDelay, floor) >= floor
        BY <1>2, <2>2, LaterProperties, Zenon
    <2> QED BY <1>2, <2>1, <2>3
<1>4. ASSUME NEW q \in dropped PROVE settlements'[q] = 0 /\ Doomed(q)'
    <2>1. settlements[q] = 0 /\ q.creation <= floor
        BY <1>1, Zenon DEF CacheInv, Doomed
    <2>2. q # p
        BY <1>2, <1>3, <2>1
    <2> QED BY <1>1, <1>2, <2>1, <2>2, Zenon DEF Doomed
<1>5. RecordsSettled'
    <2> SUFFICES ASSUME NEW r \in processed'.byHash PROVE settlements'[r.promise] > 0
        BY Zenon DEF RecordsSettled
    <2>1. CASE r \in processed.byHash
        <3>1. r.promise \in Promises /\ settlements[r.promise] > 0
            BY <2>1, CacheInvTypes, ZenonT(30) DEF CacheInv, RecordsSettled, ReplayInv, ChainTypeOK, ProcessedRecord
        <3> QED BY <1>1, <1>2, <3>1
    <2>2. CASE r = [promise |-> p, at |-> now]
        BY <1>1, <1>2, <2>2
    <2> QED BY <1>1, <2>1, <2>2, Zenon
<1>6. now' <= wall + ClockDrift
    BY <1>1, Zenon DEF CacheInv
<1> QED BY <1>4, <1>5, <1>6, ChainCache, Zenon

\* Every step of the chain and of the validator keeps the invariant.
LEMMA NextCache == CacheInv /\ [CacheNext]_allVars => CacheInv'
<1> SUFFICES ASSUME CacheInv, [CacheNext]_allVars PROVE CacheInv'
    BY Zenon
<1>0. FundsInv
    BY Zenon DEF CacheInv
<1>1. ASSUME UNCHANGED <<now, stage, floor, params, processed, settlements, cacheVars>>, FundsInv'
      PROVE  CacheInv'
    <2>1. RecordsSettled' /\ now' <= wall + ClockDrift
        BY <1>1, Zenon DEF CacheInv, RecordsSettled
    <2>2. \A p \in dropped : settlements'[p] = 0 /\ Doomed(p)'
        BY <1>1, Zenon DEF CacheInv, Doomed, cacheVars
    <2> QED BY <1>1, <2>1, <2>2, ChainCache, Zenon
<1>2. ASSUME ChainStep PROVE CacheInv'
    <2>1. Next /\ UNCHANGED cacheVars
        BY <1>2, Zenon DEF ChainStep, Next
    <2>2. FundsInv'
        BY <1>0, <2>1, NextFunds, Zenon
    <2>3. ASSUME NEW t \in BlockTimes \cap (wall - ClockDrift .. wall + ClockDrift), BeginBlock(t)
          PROVE  CacheInv'
        BY <2>1, <2>2, <2>3, BeginBlockCache, Zenon
    <2>4. ASSUME NEW s \in Signers, NEW a \in Amounts, DepositToEscrow(s, a) \/ RequestWithdrawal(s, a)
          PROVE  CacheInv'
        BY <1>1, <2>1, <2>2, <2>4, Zenon DEF DepositToEscrow, RequestWithdrawal, promiseVars
    <2>5. ASSUME NEW p \in Promises, PayForFibre(p) \/ PaymentPromiseTimeout(p) PROVE CacheInv'
        <3>1. Settle(p) /\ Fresh(p)
            BY <2>5, Zenon DEF PayForFibre, PaymentPromiseTimeout, validatePaymentPromiseStatefulInternal
        <3> QED BY <2>1, <2>2, <3>1, SettleCache, Zenon
    <2>6. ASSUME NEW p \in ParamInputs, UpdateFibreParams(p) PROVE CacheInv'
        <3>1. stage # "commit" /\ UNCHANGED <<now, floor, processed, settlements>>
            BY <2>6, Zenon DEF UpdateFibreParams, promiseVars
        <3>2. \A q \in dropped : settlements'[q] = 0 /\ Doomed(q)'
            BY <3>1, Zenon DEF CacheInv, Doomed
        <3>3. RecordsSettled' /\ now' <= wall + ClockDrift
            BY <3>1, Zenon DEF CacheInv, RecordsSettled
        <3> QED BY <2>1, <2>2, <3>2, <3>3, ChainCache, Zenon
    <2> QED BY <1>2, <2>3, <2>4, <2>5, <2>6, Zenon DEF ChainStep, Deliver, Governance
<1>3. ASSUME NEW p \in Promises, ValidatePaymentPromise(p) PROVE CacheInv'
    BY <1>3, ValidateCache, Zenon
<1>4. ASSUME NEW w \in WallTimes, Tick(w) PROVE CacheInv'
    <2>1. wall' \in Nat /\ wall' >= wall /\ wall \in Nat /\ CloseBlock /\ UNCHANGED <<cache, dropped>>
        BY <1>4, CacheAssumption DEF Tick, CacheInv
    <2>2. GoodCache(cache, wall')
        BY <2>1, LaterGood, Zenon DEF CacheInv
    <2>3. /\ FundsInv' /\ RecordsSettled' /\ now' <= wall' + ClockDrift
          /\ \A p \in dropped : settlements'[p] = 0 /\ Doomed(p)'
        BY <2>1, CloseBlockCache, Zenon
    <2> QED BY <2>1, <2>2, <2>3, Zenon DEF CacheInv
<1>5. CASE Restart
    <2>1. wall' = wall /\ wall \in Nat /\ CloseBlock /\ cache' = EmptyCache /\ dropped' = dropped
        BY <1>5, Zenon DEF Restart, CacheInv
    <2>2. GoodCache(cache', wall')
        BY <2>1, EmptyGood, Zenon
    <2>3. /\ FundsInv' /\ RecordsSettled' /\ now' <= wall' + ClockDrift
          /\ \A p \in dropped : settlements'[p] = 0 /\ Doomed(p)'
        BY <2>1, CloseBlockCache
    <2> QED BY <2>1, <2>2, <2>3, Zenon DEF CacheInv
<1>6. CASE UNCHANGED allVars
    <2>1. UNCHANGED vars /\ UNCHANGED cacheVars
        BY <1>6, Zenon DEF allVars
    <2>2. FundsInv'
        BY <1>0, <2>1, NextFunds, Zenon
    <2> QED BY <1>1, <2>1, <2>2, Zenon DEF vars, promiseVars
<1> QED BY <1>2, <1>3, <1>4, <1>5, <1>6, Zenon DEF CacheNext

\* The invariant holds throughout.
THEOREM CacheInvariant == CacheSpec => []CacheInv
BY InitCache, NextCache, PTL DEF CacheSpec

\* The budget of a signer is exactly what the last sweep read minus what is reserved, and
\* the pending set is the union of the budgets, through queries, sweeps, evictions and
\* restarts of a validator, whatever the chain does meanwhile.
THEOREM BudgetsBalance == CacheSpec => []BudgetBalanced
<1>1. CacheInv => BudgetBalanced
    <2> SUFFICES ASSUME CacheInv PROVE BudgetBalanced
        BY Zenon
    <2>1. cache \in CacheRecord /\ \A s \in Signers : GoodBudget(s, cache.budgets[s], wall)
        BY ZenonT(30) DEF CacheInv, GoodCache
    <2>2. CacheTypeOK
        <3>1. cache.pending \subseteq Promises /\ cache.lastEvict \in Nat
            BY <2>1, Zenon DEF CacheRecord
        <3>2. ASSUME NEW s \in Signers, NEW b, b = cache.budgets[s]
              PROVE  /\ b.found \in BOOLEAN
                     /\ {b.remaining, b.lastSweep, b.lastActivity, b.swept,
                         b.opsSinceSweep, b.lastFailSweepH} \subseteq Nat
                     /\ b.hashes \subseteq {p \in Promises : p.signer = s}
            <4>1. b \in BudgetRecord /\ \A p \in b.hashes : p.signer = s
                BY <2>1, <3>2, Zenon DEF GoodBudget
            <4>2. /\ b.found \in BOOLEAN /\ b.remaining \in Nat /\ b.lastSweep \in Nat
                  /\ b.lastActivity \in Nat /\ b.swept \in Nat /\ b.opsSinceSweep \in Nat
                  /\ b.lastFailSweepH \in Nat /\ b.hashes \subseteq Promises
                BY <4>1, Zenon DEF BudgetRecord
            <4> QED BY <4>1, <4>2, Zenon
        <3> QED BY <3>1, <3>2, ZenonT(30) DEF CacheInv, CacheTypeOK
    <2>3. cache.pending = UNION {cache.budgets[s].hashes : s \in Signers}
        <3>1. \A q \in Promises : q.signer \in Signers /\ (q \in cache.pending <=> q \in cache.budgets[q.signer].hashes)
            BY PromiseAssumption, Zenon DEF CacheInv, GoodCache
        <3>2. \A s \in Signers : \A q \in cache.budgets[s].hashes : q \in Promises /\ q.signer = s
            BY <2>1, Zenon DEF GoodBudget, BudgetRecord
        <3>3. cache.pending \subseteq Promises
            BY <2>1, Zenon DEF CacheRecord
        <3> QED BY <3>1, <3>2, <3>3
    <2>4. \A s \in Signers : cache.budgets[s].opsSinceSweep > 0 =>
              cache.budgets[s].remaining + TotalAmount(cache.budgets[s].hashes) = cache.budgets[s].swept
        BY <2>1, Zenon DEF GoodBudget
    <2> QED BY <2>2, <2>3, <2>4, Zenon DEF BudgetBalanced
<1> QED BY <1>1, CacheInvariant, PTL

\* A reservation that a sweep or an eviction drops unsettled never settles afterwards,
\* although the cache evicts by the wall clock, the chain judges by block time, and
\* governance moves the withdrawal delay in between.
THEOREM DroppedStayUnsettled == CacheSpec => []DroppedNeverSettles
<1>1. CacheInv => DroppedNeverSettles
    BY Zenon DEF CacheInv, DroppedNeverSettles
<1> QED BY <1>1, CacheInvariant, PTL

\* A promise admitted by a query that swept leaves the signer's reservations covered by the
\* available balance on chain.
THEOREM SweptAdmissionsCovered == CacheSpec => SweptAdmissionCovered
<1> DEFINE A == \A p \in cache'.pending \ cache.pending :
                    SweepFirst(EvictIfDue(cache), p) \/ ~Fits(EvictIfDue(cache), p)
                    => TotalAmount(ReservedBy(p.signer)') <= escrow[p.signer].available
<1>1. ASSUME CacheInv, CacheInv', CacheNext PROVE A
    <2>1. ASSUME cache' = cache \/ cache' = EmptyCache PROVE A
        <3>1. cache'.pending \ cache.pending = {}
            BY <2>1 DEF EmptyCache
        <3> QED BY <3>1, Zenon
    <2>2. ASSUME NEW p \in Promises, ValidatePaymentPromise(p) PROVE A
        <3> SUFFICES ASSUME NEW q \in cache'.pending \ cache.pending,
                            SweepFirst(EvictIfDue(cache), q) \/ ~Fits(EvictIfDue(cache), q)
                     PROVE  TotalAmount(ReservedBy(q.signer)') <= escrow[q.signer].available
            BY Zenon
        <3>1. /\ cache' = Reserve(p) /\ p.creation <= now + MaxPromiseClockSkew
              /\ wall \in Nat /\ GoodCache(cache, wall) /\ p.signer \in Signers /\ p.creation \in Int
              /\ now <= wall + ClockDrift
            BY <1>1, <2>2, PromiseAssumption, Zenon
               DEF ValidatePaymentPromise, validatePaymentPromiseStatefulInternal, CacheInv
        <3>2. p.creation <= wall + ClockDrift + MaxPromiseClockSkew
            BY <1>1, <3>1, CacheInvTypes
        <3>3. /\ Reserve(p).pending \subseteq cache.pending \cup {p}
              /\ \/ p \in cache.pending
                 \/ p \notin Reserve(p).pending
                 \/ ~(SweepFirst(EvictIfDue(cache), p) \/ ~Fits(EvictIfDue(cache), p))
                 \/ TotalAmount(Reserve(p).budgets[p.signer].hashes) <= escrow[p.signer].available
            BY <1>1, <3>1, <3>2, CacheInvTypes, ReserveProperties, Zenon
        <3>4. q = p
            BY <3>1, <3>3, ZenonT(30)
        <3> DEFINE H == cache'.budgets[p.signer].hashes
                   R == ReservedBy(p.signer)'
        <3>5. TotalAmount(H) <= escrow[p.signer].available
            BY <3>1, <3>3, <3>4, Zenon
        <3>6. H \subseteq Promises /\ IsFiniteSet(H)
            BY <1>1, <3>1, Zenon DEF CacheInv, GoodCache, GoodBudget, BudgetRecord
        <3>7. R \in SUBSET H
            BY Zenon DEF ReservedBy, Settleable
        <3>8. escrow[p.signer].available \in Nat
            BY <1>1, <3>1, CacheInvTypes, Zenon
        <3> HIDE DEF H, R
        <3>9. TotalAmount(R) <= TotalAmount(H) /\ TotalAmount(H) \in Nat /\ TotalAmount(R) \in Nat
            BY <3>6, <3>7, TotalProperties, FS_Subset, ZenonT(30)
        <3>10. TotalAmount(R) <= escrow[p.signer].available
            BY <3>5, <3>8, <3>9, SMTT(30)
        <3> QED BY <3>4, <3>10, Zenon DEF R
    <2> QED BY <1>1, <2>1, <2>2, Zenon DEF CacheNext, ChainStep, Tick, Restart, cacheVars
<1>2. [CacheNext]_allVars /\ CacheInv /\ CacheInv' => [A]_allVars
    BY <1>1, Zenon
<1> HIDE DEF A
<1>3. CacheSpec => [][A]_allVars
    BY <1>2, CacheInvariant, PTL DEF CacheSpec
<1> QED BY <1>3, Zenon DEF A, SweptAdmissionCovered
=============================================================================
