------------------------- MODULE FibrePromiseCache -------------------------
(***************************************************************************)
(* One validator's LocalPromiseCache beside the chain of FibreEscrow.  The *)
(* ValidatePaymentPromise query validates a promise against the committed  *)
(* chain state and reserves its amount in memory, under one mutex, so the  *)
(* whole query is a step.  The cache reads the wall clock, the chain keeps *)
(* block time; a block is timed within ClockDrift of the wall clock.       *)
(***************************************************************************)
EXTENDS FibreEscrow

CONSTANTS
    WallTimes,                  \* wall-clock readings
    ClockDrift,
    promiseCacheStaleAfter,
    promiseCacheEvictBuffer,
    promiseCacheEvictInterval

ASSUME CacheAssumption ==
    /\ WallTimes \subseteq Nat
    /\ {ClockDrift, promiseCacheStaleAfter, promiseCacheEvictBuffer,
        promiseCacheEvictInterval} \subseteq Nat
    /\ promiseCacheEvictBuffer >= MaxPromiseClockSkew + 2 * ClockDrift

VARIABLES
    wall,
    cache,          \* [budgets, pending, lastEvict], see NoBudget
    dropped         \* history: reservations dropped before they settled

cacheVars == <<wall, cache, dropped>>
allVars == <<vars, cacheVars>>

\* swept is history: the AvailableBalance the last sweep read.
NoBudget == [found |-> FALSE, remaining |-> 0, lastSweep |-> 0, lastActivity |-> 0,
             opsSinceSweep |-> 0, lastFailSweepH |-> 0, hashes |-> {}, swept |-> 0]

EmptyCache == [budgets |-> [s \in Signers |-> NoBudget], pending |-> {}, lastEvict |-> 0]

promiseAmount == [p \in Promises |-> p.amount]
TotalAmount(S) == SumFunctionOnSet(promiseAmount, S)

-----------------------------------------------------------------------------
(* The cache's operations, each on a cache value                           *)

evictThreshold_timeout == MaxPaymentPromiseTimeout + promiseCacheEvictBuffer

evictThreshold == MaxWithdrawalDelay + promiseCacheEvictBuffer

evictIdleLocked(c) ==
    LET idle == {s \in Signers : /\ c.budgets[s].found
                                 /\ wall - c.budgets[s].lastActivity > evictThreshold}
    IN  [budgets |-> [s \in Signers |-> IF s \in idle THEN NoBudget ELSE c.budgets[s]],
         pending |-> c.pending \ UNION {c.budgets[s].hashes : s \in idle},
         lastEvict |-> wall]

EvictIfDue(c) ==
    IF wall - c.lastEvict > promiseCacheEvictInterval THEN evictIdleLocked(c) ELSE c

isStale(b) == b.opsSinceSweep > 0 /\ wall - b.lastSweep > promiseCacheStaleAfter

staleBefore == now - params.WithdrawalDelay

\* The reservations a sweep keeps: not processed, and still able to settle.
Kept(b) == {p \in b.hashes : ~IsPaymentPromiseProcessed(p) /\ p.creation > staleBefore}

remainingBudget_uncommitted(s, kept) == escrow[s].available

remainingBudget(s, kept) ==
    LET left == escrow[s].available - TotalAmount(kept)
    IN  IF left < 0 THEN 0 ELSE left

\* The cache with the budget of s replaced.
WithBudget(c, s, b, pending) ==
    [budgets |-> [c.budgets EXCEPT ![s] = b], pending |-> pending, lastEvict |-> c.lastEvict]

sweep(c, s) ==
    LET b == c.budgets[s]
    IN  WithBudget(c, s, [b EXCEPT !.found = TRUE,
                                   !.remaining = remainingBudget(s, Kept(b)),
                                   !.lastSweep = wall,
                                   !.lastActivity = wall,
                                   !.opsSinceSweep = 0,
                                   !.hashes = Kept(b),
                                   !.swept = escrow[s].available],
                   c.pending \ (b.hashes \ Kept(b)))

\* The sweep of a reservation that did not fit, once per height.
failSweep(c, s) ==
    LET swept == sweep(c, s)
    IN  WithBudget(swept, s, [swept.budgets[s] EXCEPT !.lastFailSweepH = height], swept.pending)

reserve_undebited(c, p) ==
    LET b == c.budgets[p.signer]
    IN  WithBudget(c, p.signer, [b EXCEPT !.opsSinceSweep = b.opsSinceSweep + 1,
                                          !.lastActivity = wall,
                                          !.hashes = b.hashes \cup {p}],
                   c.pending \cup {p})

reserve(c, p) ==
    LET b == c.budgets[p.signer]
    IN  WithBudget(c, p.signer, [b EXCEPT !.remaining = b.remaining - p.amount,
                                          !.opsSinceSweep = b.opsSinceSweep + 1,
                                          !.lastActivity = wall,
                                          !.hashes = b.hashes \cup {p}],
                   c.pending \cup {p})

Fits(c, p) == c.budgets[p.signer].remaining >= p.amount

SweepFirst(c, p) == ~c.budgets[p.signer].found \/ isStale(c.budgets[p.signer])

FailSweepAllowed(c, p) == c.budgets[p.signer].lastFailSweepH < height

\* The cache after Reserve of p; the promise is admitted when it ends up pending.
Reserve(p) ==
    LET c0 == EvictIfDue(cache)
        c1 == IF SweepFirst(c0, p) THEN sweep(c0, p.signer) ELSE c0
        c2 == failSweep(c1, p.signer)
    IN  CASE p \in c0.pending -> c0
          [] p \notin c0.pending /\ Fits(c1, p) -> reserve(c1, p)
          [] p \notin c0.pending /\ ~Fits(c1, p) /\ ~FailSweepAllowed(c1, p) -> c1
          [] OTHER -> IF Fits(c2, p) THEN reserve(c2, p) ELSE c2

-----------------------------------------------------------------------------
(* Steps.  The query and the clock run on committed state: the block whose *)
(* messages were being delivered is over.                                  *)

CloseBlock ==
    /\ stage' = "commit"
    /\ UNCHANGED <<now, height, params, escrow, withdrawals, promiseVars, bankVars>>

ValidatePaymentPromise(p) ==
    /\ validatePaymentPromiseStatefulInternal(p, FALSE)
    /\ CloseBlock
    /\ cache' = Reserve(p)
    /\ dropped' = dropped \cup {q \in cache.pending \ cache'.pending : settlements[q] = 0}
    /\ UNCHANGED wall

\* The cache is memory only: a restarted node starts with an empty one.
Restart ==
    /\ CloseBlock
    /\ cache' = EmptyCache
    /\ UNCHANGED <<wall, dropped>>

Tick(w) ==
    /\ w > wall
    /\ wall' = w
    /\ CloseBlock
    /\ UNCHANGED <<cache, dropped>>

CacheInit ==
    /\ Init
    /\ wall = GenesisTime
    /\ cache = EmptyCache
    /\ dropped = {}

ChainStep ==
    /\ \/ \E t \in BlockTimes \cap (wall - ClockDrift .. wall + ClockDrift) : BeginBlock(t)
       \/ Deliver
       \/ Governance
    /\ UNCHANGED cacheVars

CacheNext ==
    \/ ChainStep
    \/ \E p \in Promises : ValidatePaymentPromise(p)
    \/ \E w \in WallTimes : Tick(w)
    \/ Restart

CacheSpec == CacheInit /\ [][CacheNext]_allVars

-----------------------------------------------------------------------------
(* Properties                                                              *)

CacheTypeOK ==
    /\ wall \in Nat
    /\ cache.pending \subseteq Promises
    /\ cache.lastEvict \in Nat
    /\ dropped \subseteq Promises
    /\ \A s \in Signers : LET b == cache.budgets[s]
                          IN  /\ b.found \in BOOLEAN
                              /\ {b.remaining, b.lastSweep, b.lastActivity, b.swept,
                                  b.opsSinceSweep, b.lastFailSweepH} \subseteq Nat
                              /\ b.hashes \subseteq {p \in Promises : p.signer = s}

\* After any reservation the budget is exactly what the last sweep read minus
\* what is reserved: no reservation is counted twice or forgotten by repeated
\* queries, sweeps, evictions or restarts, and pending is the union of hashes.
BudgetBalanced ==
    /\ CacheTypeOK
    /\ cache.pending = UNION {cache.budgets[s].hashes : s \in Signers}
    /\ \A s \in Signers : LET b == cache.budgets[s]
                          IN  b.opsSinceSweep > 0 => b.remaining + TotalAmount(b.hashes) = b.swept

\* A reservation that a sweep or an eviction drops unsettled can never settle
\* afterwards, so dropping it frees no budget that is still needed.
DroppedNeverSettles == \A p \in dropped : settlements[p] = 0

Settleable(S) == {p \in S : ~IsPaymentPromiseProcessed(p) /\ Fresh(p)}

ReservedBy(s) == Settleable(cache.budgets[s].hashes)

\* A promise admitted by a query that swept first leaves the signer's reserved
\* promises covered by the AvailableBalance on chain.
SweptAdmissionCovered ==
    [][\A p \in cache'.pending \ cache.pending :
          SweepFirst(EvictIfDue(cache), p) \/ ~Fits(EvictIfDue(cache), p)
          => TotalAmount(ReservedBy(p.signer)') <= escrow[p.signer].available]_allVars

\* Whatever was swept when, an admitted promise leaves the signer's reserved
\* promises covered by the escrow balance: no more are admitted than can settle.
AdmissionCovered ==
    [][\A p \in cache'.pending \ cache.pending :
          TotalAmount(ReservedBy(p.signer)') <= escrow[p.signer].balance]_allVars
============================================================================
