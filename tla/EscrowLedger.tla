---------------------------- MODULE EscrowLedger ----------------------------
(***************************************************************************)
(* The client-side escrow ledger of one signer: concurrent Puts that seed, *)
(* debit and credit one local balance, refills that deposit on chain, and  *)
(* the chain that settles signed promises in its own time.  A step ends at *)
(* every lock, atomic access and RPC.  The client may be restarted; its    *)
(* balance is in memory only, the promises it signed are not.              *)
(***************************************************************************)
EXTENDS Naturals, FiniteSets, Functions

CONSTANTS
    Puts,               \* Put calls
    amount,             \* the settlement cost of each Put's blob
    Async,              \* goroutines of refillAsync
    LowWatermark, HighWatermark,
    InitialEscrow,      \* what the escrow holds on chain at first
    Configs             \* clients to consider: whether StartupGracePeriod is set (grace), and
                        \* the bounds on restarts and on failing queries and deposits

ASSUME LedgerAssumption ==
    /\ amount \in [Puts -> Nat \ {0}]
    /\ {LowWatermark, HighWatermark, InitialEscrow} \subseteq Nat
    /\ Configs \subseteq [grace : BOOLEAN, restarts : Nat, failures : Nat]
    /\ Puts \cap Async = {}
    /\ IsFiniteSet(Puts) /\ "nobody" \notin Puts

VARIABLES
    chain,              \* the escrow's available balance on chain
    unsettled,          \* amounts of signed promises the chain has not debited, by Put
    legacy,             \* history: what was unsettled when the client last restarted
    config,             \* the client's, from Configs
    inGrace,
    early,              \* history: a Put that was not seeded in the grace window polls after it
    balance, seeded,    \* the ledger
    seeder,             \* holder of seedMu and the balance it read, or NoSeeder
    refill,             \* per caller: the step of its refill, the deposit computed
    refilling,
    put,                \* per Put: pc
    failures, restarts

graceVars == <<config, inGrace, early>>
ledgerVars == <<balance, seeded, seeder>>
chainVars == <<chain, unsettled, legacy>>
boundVars == <<failures, restarts>>
vars == <<chainVars, graceVars, ledgerVars, refill, refilling, put, boundVars>>

NoSeeder == [by |-> "nobody"]
NoRefill == [pc |-> "none"]
Callers == Puts \cup Async

TotalAmount(S) == SumFunctionOnSet(amount, S)

To(p, pc) == put' = [put EXCEPT ![p] = pc]

-----------------------------------------------------------------------------
(* ensureSeeded                                                            *)

StartPut(p) ==
    /\ put[p] = "idle"
    /\ To(p, IF seeded \/ inGrace THEN "admit" ELSE "seed")
    /\ UNCHANGED <<chainVars, graceVars, ledgerVars, refill, refilling, boundVars>>

\* Under seedMu: a late caller finds the ledger seeded, the first one queries the chain.
SeedQuery(p) ==
    /\ put[p] = "seed" /\ seeder = NoSeeder
    /\ IF seeded
         THEN To(p, "admit") /\ UNCHANGED seeder
         ELSE seeder' = [by |-> p, bal |-> chain] /\ UNCHANGED put
    /\ UNCHANGED <<chainVars, graceVars, balance, seeded, refill, refilling, boundVars>>

SeedSet(p) ==
    /\ seeder.by = p
    /\ balance' = seeder.bal
    /\ seeded' = TRUE
    /\ seeder' = NoSeeder
    /\ To(p, "admit")
    /\ UNCHANGED <<chainVars, graceVars, refill, refilling, boundVars>>

SeedFails(p) ==
    /\ seeder.by = p /\ failures < config.failures
    /\ failures' = failures + 1
    /\ seeder' = NoSeeder
    /\ To(p, "failed")
    /\ UNCHANGED <<chainVars, graceVars, balance, seeded, refill, refilling, restarts>>

-----------------------------------------------------------------------------
(* admit, waitForBudget and the refill they trigger                        *)

Fits(p) == balance >= amount[p]

\* A goroutine of refillAsync, when one is free; a busy one means a refill is under way.
RefillAsync(low) ==
    \/ /\ low /\ \E a \in Async : /\ refill[a] = NoRefill
                                  /\ refill' = [refill EXCEPT ![a] = [pc |-> "start"]]
    \/ /\ ~low \/ \A a \in Async : refill[a] # NoRefill
       /\ UNCHANGED refill

Admit(p) ==
    /\ put[p] = "admit"
    /\ IF Fits(p)
         THEN /\ balance' = balance - amount[p]
              /\ To(p, "admitted")
              /\ RefillAsync(balance' < LowWatermark)
         ELSE To(p, "budget") /\ UNCHANGED <<balance, refill>>
    /\ UNCHANGED <<chainVars, graceVars, seeded, seeder, refilling, boundVars>>

\* waitForBudget refuses what no refill can cover, and any Put in the grace window.
WaitForBudget(p) ==
    /\ put[p] = "budget"
    /\ IF HighWatermark < amount[p] \/ inGrace
         THEN To(p, "failed") /\ UNCHANGED early
         ELSE To(p, "poll") /\ early' = (early \/ ~seeded)
    /\ UNCHANGED <<chainVars, config, inGrace, ledgerVars, refill, refilling, boundVars>>

\* One admit of the polling loop; after a failed one the loop refills, after the next
\* it sleeps.
Poll(p) ==
    /\ put[p] \in {"poll", "repoll", "sleep"}
    /\ IF Fits(p)
         THEN /\ balance' = balance - amount[p]
              /\ To(p, "admitted")
              /\ UNCHANGED refill
         ELSE /\ UNCHANGED balance
              /\ \/ put[p] = "repoll" /\ To(p, "sleep") /\ UNCHANGED refill
                 \/ /\ put[p] # "repoll" /\ To(p, "refill")
                    /\ refill' = [refill EXCEPT ![p] = [pc |-> "start"]]
    /\ UNCHANGED <<chainVars, graceVars, seeded, seeder, refilling, boundVars>>

\* The refill the Put called is over.
Refilled(p) ==
    /\ put[p] = "refill" /\ refill[p] = NoRefill
    /\ To(p, "repoll")
    /\ UNCHANGED <<chainVars, graceVars, ledgerVars, refill, refilling, boundVars>>

\* The caller's context ends while it sleeps.
GiveUp(p) ==
    /\ put[p] = "sleep"
    /\ To(p, "failed")
    /\ UNCHANGED <<chainVars, graceVars, ledgerVars, refill, refilling, boundVars>>

\* The grace window and the single-flight flag.
RefillEnter(c) ==
    /\ refill[c].pc = "start"
    /\ IF inGrace \/ refilling
         THEN refill' = [refill EXCEPT ![c] = NoRefill] /\ UNCHANGED refilling
         ELSE refill' = [refill EXCEPT ![c] = [pc |-> "compute"]] /\ refilling' = TRUE
    /\ UNCHANGED <<chainVars, graceVars, ledgerVars, put, boundVars>>

RefillCompute(c) ==
    /\ refill[c].pc = "compute"
    /\ IF balance < HighWatermark
         THEN /\ refill' = [refill EXCEPT ![c] = [pc |-> "deposit",
                                                  amount |-> HighWatermark - balance]]
              /\ UNCHANGED refilling
         ELSE refill' = [refill EXCEPT ![c] = NoRefill] /\ refilling' = FALSE
    /\ UNCHANGED <<chainVars, graceVars, ledgerVars, put, boundVars>>

RefillDeposit(c) ==
    /\ refill[c].pc = "deposit"
    /\ chain' = chain + refill[c].amount
    /\ refill' = [refill EXCEPT ![c].pc = "apply"]
    /\ UNCHANGED <<unsettled, legacy, graceVars, ledgerVars, refilling, put, boundVars>>

RefillFails_flagKept(c) ==
    /\ refill[c].pc = "deposit" /\ failures < config.failures
    /\ failures' = failures + 1
    /\ chain' \in {chain, chain + refill[c].amount}
    /\ refill' = [refill EXCEPT ![c] = NoRefill]
    /\ UNCHANGED <<unsettled, legacy, graceVars, ledgerVars, refilling, put, restarts>>

\* The deposit is reported failed: it never reached a block, or its answer was lost.
RefillFails(c) ==
    /\ refill[c].pc = "deposit" /\ failures < config.failures
    /\ failures' = failures + 1
    /\ chain' \in {chain, chain + refill[c].amount}
    /\ refill' = [refill EXCEPT ![c] = NoRefill]
    /\ refilling' = FALSE
    /\ UNCHANGED <<unsettled, legacy, graceVars, ledgerVars, put, restarts>>

RefillApply(c) ==
    /\ refill[c].pc = "apply"
    /\ balance' = balance + refill[c].amount
    /\ refill' = [refill EXCEPT ![c] = NoRefill]
    /\ refilling' = FALSE
    /\ UNCHANGED <<chainVars, graceVars, seeded, seeder, put, boundVars>>

-----------------------------------------------------------------------------
(* The rest of Put                                                         *)

\* Upload signs the promise and is about to send it: the reservation is committed.
Dispatch(p) ==
    /\ put[p] = "admitted"
    /\ unsettled' = unsettled \cup {p}
    /\ To(p, "dispatched")
    /\ UNCHANGED <<chain, legacy, graceVars, ledgerVars, refill, refilling, boundVars>>

Abort_afterSigning(p) ==
    /\ put[p] \in {"admitted", "dispatched"}
    /\ balance' = balance + amount[p]
    /\ To(p, "failed")
    /\ UNCHANGED <<chainVars, graceVars, seeded, seeder, refill, refilling, boundVars>>

\* Upload fails before that: the deferred abort returns the amount.
Abort(p) ==
    /\ put[p] = "admitted"
    /\ balance' = balance + amount[p]
    /\ To(p, "failed")
    /\ UNCHANGED <<chainVars, graceVars, seeded, seeder, refill, refilling, boundVars>>

\* The fan-out, the broadcast and the confirmation succeed or fail; abort is a no-op.
FinishPut(p) ==
    /\ put[p] = "dispatched"
    /\ To(p, "done")
    /\ UNCHANGED <<chainVars, graceVars, ledgerVars, refill, refilling, boundVars>>

-----------------------------------------------------------------------------
(* The chain, the clock and the process                                    *)

\* MsgPayForFibre or, later, MsgPaymentPromiseTimeout debits the escrow.
Settle(p) ==
    /\ p \in unsettled /\ amount[p] <= chain
    /\ chain' = chain - amount[p]
    /\ unsettled' = unsettled \ {p}
    /\ UNCHANGED <<legacy, graceVars, ledgerVars, refill, refilling, put, boundVars>>

EndGrace ==
    /\ inGrace
    /\ inGrace' = FALSE
    /\ UNCHANGED <<chainVars, config, early, ledgerVars, refill, refilling, put, boundVars>>

\* A new process: Puts under way are gone, a new ledger starts unseeded.
Restart ==
    /\ restarts < config.restarts
    /\ restarts' = restarts + 1
    /\ legacy' = unsettled
    /\ inGrace' = config.grace /\ early' = FALSE
    /\ balance' = 0 /\ seeded' = FALSE /\ seeder' = NoSeeder
    /\ refill' = [c \in Callers |-> NoRefill] /\ refilling' = FALSE
    /\ put' = [p \in Puts |-> IF put[p] = "idle" THEN "idle" ELSE "gone"]
    /\ UNCHANGED <<chain, unsettled, config, failures>>

Init ==
    /\ chain = InitialEscrow /\ unsettled = {} /\ legacy = {}
    /\ config \in Configs /\ inGrace = config.grace /\ early = FALSE
    /\ balance = 0 /\ seeded = FALSE /\ seeder = NoSeeder
    /\ refill = [c \in Callers |-> NoRefill] /\ refilling = FALSE
    /\ put = [p \in Puts |-> "idle"]
    /\ failures = 0 /\ restarts = 0

RefillStep(c) == RefillEnter(c) \/ RefillCompute(c) \/ RefillDeposit(c) \/ RefillApply(c)

PutStep(p) ==
    \/ SeedQuery(p)
    \/ SeedSet(p)
    \/ Admit(p)
    \/ WaitForBudget(p)
    \/ Poll(p)
    \/ Refilled(p)
    \/ Dispatch(p)
    \/ FinishPut(p)

Next ==
    \/ \E p \in Puts : \/ StartPut(p)
                       \/ PutStep(p)
                       \/ SeedFails(p)
                       \/ GiveUp(p)
                       \/ Abort(p)
                       \/ Settle(p)
    \/ \E c \in Callers : RefillStep(c) \/ RefillFails(c)
    \/ EndGrace
    \/ Restart

\* Goroutines are scheduled and RPCs answered.  Nothing is assumed of the caller's
\* context: a polling Put may have no deadline.
Fairness ==
    /\ \A p \in Puts : WF_vars(PutStep(p))
    /\ \A c \in Callers : WF_vars(RefillStep(c))

Spec == Init /\ [][Next]_vars /\ Fairness

-----------------------------------------------------------------------------
(* Properties                                                              *)

Reserved == TotalAmount({p \in Puts : put[p] = "admitted"})

LedgerTypeOK ==
    /\ {chain, balance} \subseteq Nat
    /\ unsettled \subseteq Puts
    /\ put \in [Puts -> {"idle", "seed", "admit", "budget", "poll", "refill", "repoll",
                         "sleep", "admitted", "dispatched", "done", "failed", "gone"}]
    /\ Cardinality({c \in Callers : refill[c].pc \in {"compute", "deposit", "apply"}})
         = IF refilling THEN 1 ELSE 0

\* The local balance, what running Puts have reserved and every promise the chain has yet
\* to debit are covered by the escrow on chain; only promises that were unsettled at the
\* last restart can be missing from the account.  Concurrent Puts never overcommit it,
\* unless one passed ensureSeeded in the grace window and was still there when it ended.
LedgerCovered ==
    /\ LedgerTypeOK
    /\ early \/ balance + Reserved + TotalAmount(unsettled) <= chain + TotalAmount(legacy)

\* Every Put that starts admission returns: admit refuses, or a refill lands, however
\* often deposits fail and other Puts take the budget first.
PutReturns ==
    \A p \in Puts : put[p] # "idle" ~> put[p] \in {"done", "failed", "gone"}

\* "it can never be overstated, so concurrent uploads can never collectively overcommit
\* the escrow" (escrowLedger).
NeverOverstated == balance + Reserved + TotalAmount(unsettled) <= chain
=============================================================================
