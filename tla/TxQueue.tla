------------------------------ MODULE TxQueue -------------------------------
(***************************************************************************)
(* pkg/user's parallel transaction queue: start prepares one account per   *)
(* worker, workers take jobs from a bounded channel and answer each on the *)
(* job's own result channel, until the context of the queue is cancelled.  *)
(*                                                                         *)
(* SetupTxClient builds a client and starts its queue; nothing but the     *)
(* context stops it.  A start that failed is followed by another set-up,   *)
(* which finds the keyring and the chain as the last one left them; so is  *)
(* a program that ended.  Accounts are numbered in keyring order.          *)
(***************************************************************************)
EXTENDS Naturals, Sequences, FiniteSets, FiniteSetsExt

CONSTANTS
    Owned,          \* the user's own accounts in the keyring
    WorkerAccounts, \* worker id -> account named parallel-worker-<id>
    Options,        \* what set-ups may pass: an account and how it is named
    Jobs,           \* blobs submitted with QueueBlob
    defaultParallelQueueSize,
    ParallelQueueSize,      \* what WithParallelQueueSize asks for
    MaxStarts,              \* bound on the set-ups explored
    Cancellable             \* whether the context may be cancelled

Helpers == DOMAIN WorkerAccounts

Workers == {0} \cup Helpers

Accounts == Owned \cup {WorkerAccounts[w] : w \in Helpers}

ASSUME QueueAssumption ==
    /\ Accounts \subseteq Nat \ {0} /\ Owned # {}
    /\ 0 \notin Helpers
    /\ Options # {}
    /\ \A o \in Options : o.named \in {"no", "account", "address"}
    /\ \A o \in Options : o.named # "no" => o.account \in Owned
    /\ defaultParallelQueueSize \in Nat \ {0}
    /\ ParallelQueueSize \in Nat
    /\ Cancellable \in BOOLEAN

VARIABLES
    phase,          \* "none", "new", "funding", "loading", "started", "failed"
    starts,         \* set-ups so far
    default,        \* client.defaultAccount
    primary,        \* workers[0].accountName
    option,         \* how this set-up named its account
    granters,       \* history: the default accounts of the set-ups so far
    done,           \* whether p.ctx is cancelled
    keyring,
    onChain,        \* accounts that exist on chain
    grants,         \* fee grants <<granter, grantee>> on chain
    visible,        \* the accounts that queries of the node return
    loaded,         \* accounts in the signer
    need,           \* needFunding: the workers this start has to fund
    capacity,       \* of the channel
    jobQueue,       \* the channel's buffer
    job,            \* per job: "idle", "queued", "working", "answered" or "lost"
    working,        \* the job each worker has taken, or NoJob
    alive           \* workers whose goroutine runs

chainVars == <<onChain, grants, visible>>
clientVars == <<starts, default, primary, option, granters>>
startVars == <<clientVars, phase, keyring, loaded, need, capacity>>
jobVars == <<jobQueue, job, working>>
vars == <<startVars, chainVars, jobVars, done, alive>>

NoJob == "no job"

AccountOf(w) == IF w = 0 THEN primary ELSE WorkerAccounts[w]

isStarted == phase = "started"

-----------------------------------------------------------------------------
(* Set-up                                                                  *)

\* A query for an account finds it once its creation is visible; a query
\* right after the funding is repeated a few times.
queryAccountWithRetry(a) == a \in visible

\* loadWorkerAccount adds an account that is found to the signer.
loadWorkerAccount(ws) == {WorkerAccounts[w] : w \in ws} \cap visible

\* newTxQueue gives worker 0 the default account of the moment WithTxWorkers is
\* applied.  WithDefaultAccount corrects it in either order, but not so
\* WithDefaultAddress, which comes after WithTxWorkers here.
ApplyOption(o) ==
    /\ option' = o.named
    /\ default' = IF o.named = "no" THEN Min(keyring) ELSE o.account
    /\ primary' = IF o.named = "account" THEN o.account ELSE Min(keyring)
    /\ granters' = granters \cup {default'}

\* SetupTxClient loads the accounts that exist on chain; NewTxClient takes the
\* first key of the keyring as default unless an option names another.
SetupTxClient ==
    /\ phase \in {"none", "failed"} \/ (isStarted /\ done /\ alive = {})
    /\ starts < MaxStarts
    /\ starts' = starts + 1
    /\ \E o \in Options : ApplyOption(o)
    /\ loaded' = keyring \cap visible
    /\ phase' = "new"
    /\ capacity' = ParallelQueueSize
    /\ done' = FALSE /\ need' = {}
    /\ jobQueue' = <<>>
    /\ job' = [j \in Jobs |-> IF job[j] = "queued" THEN "lost" ELSE job[j]]
    /\ UNCHANGED <<keyring, chainVars, working, alive>>

initializeWorkerAccounts_keyed ==
    /\ phase = "new"
    /\ keyring' = keyring \cup {WorkerAccounts[w] : w \in Helpers}
    /\ need' = {w \in Helpers : WorkerAccounts[w] \notin keyring}
    /\ phase' = IF need' = {} THEN "loading" ELSE "funding"
    /\ UNCHANGED <<clientVars, loaded, capacity, chainVars, jobVars, done, alive>>

\* A key for every helper; whatever the chain knows is loaded, the rest has
\* to be funded.
initializeWorkerAccounts ==
    /\ phase = "new"
    /\ keyring' = keyring \cup {WorkerAccounts[w] : w \in Helpers}
    /\ loaded' = loaded \cup loadWorkerAccount(Helpers)
    /\ need' = {w \in Helpers : WorkerAccounts[w] \notin loaded'}
    /\ phase' = IF need' = {} THEN "loading" ELSE "funding"
    /\ UNCHANGED <<clientVars, capacity, chainVars, jobVars, done, alive>>

Grants(ws) == {<<default, WorkerAccounts[w]>> : w \in ws}

\* fundAndGrantWorkerAccounts submits one transaction with the sends and the
\* grants that are missing.  It fails as a whole, as it must when the default
\* account is not in the signer, or is committed, perhaps without the client
\* learning of it.
fundAndGrantWorkerAccounts ==
    /\ phase = "funding"
    /\ \/ /\ default \in loaded
          /\ onChain' = onChain \cup {WorkerAccounts[w] : w \in need}
          /\ grants' = grants \cup Grants(need)
          /\ phase' \in {"loading", "failed"}
       \/ phase' = "failed" /\ UNCHANGED <<onChain, grants>>
    /\ UNCHANGED <<clientVars, keyring, loaded, need, capacity, visible, jobVars,
                   done, alive>>

\* The committed state becomes visible to queries a little later.
StateVisible ==
    /\ visible # onChain
    /\ visible' = onChain
    /\ UNCHANGED <<startVars, onChain, grants, jobVars, done, alive>>

\* The end of start: queryAccountWithRetry adds the funded accounts to the
\* signer, or gives up on one that is still not found; then the job queue is
\* made anew and the workers are launched.
start ==
    /\ phase = "loading"
    /\ LET found == {w \in need : queryAccountWithRetry(WorkerAccounts[w])}
       IN  /\ loaded' = loaded \cup {WorkerAccounts[w] : w \in found}
           /\ phase' = IF found = need THEN "started" ELSE "failed"
    /\ IF phase' = "started"
       THEN capacity' = defaultParallelQueueSize /\ alive' = Workers
       ELSE UNCHANGED <<capacity, alive>>
    /\ UNCHANGED <<clientVars, keyring, need, chainVars, jobVars, done>>

-----------------------------------------------------------------------------
(* Jobs                                                                    *)

\* QueueBlob answers at once when the queue is not started; submitJob puts
\* the job in the channel, or answers that the queue has stopped.  When both
\* are possible select takes either.
QueueBlob(j) ==
    /\ job[j] = "idle" /\ phase # "none"
    /\ \/ /\ ~isStarted \/ done
          /\ job' = [job EXCEPT ![j] = "answered"]
          /\ UNCHANGED jobQueue
       \/ /\ isStarted /\ Len(jobQueue) < capacity
          /\ jobQueue' = Append(jobQueue, j)
          /\ job' = [job EXCEPT ![j] = "queued"]
    /\ UNCHANGED <<startVars, chainVars, working, done, alive>>

\* A worker's loop takes the next job, or leaves when the context is done.
TakeJob(w) ==
    /\ w \in alive /\ working[w] = NoJob
    /\ jobQueue # <<>>
    /\ working' = [working EXCEPT ![w] = Head(jobQueue)]
    /\ job' = [job EXCEPT ![Head(jobQueue)] = "working"]
    /\ jobQueue' = Tail(jobQueue)
    /\ UNCHANGED <<startVars, chainVars, done, alive>>

LeaveLoop(w) ==
    /\ w \in alive /\ working[w] = NoJob
    /\ done
    /\ alive' = alive \ {w}
    /\ UNCHANGED <<startVars, chainVars, jobVars, done>>

processJob_silent(w) ==
    /\ working[w] # NoJob
    /\ working' = [working EXCEPT ![w] = NoJob]
    /\ UNCHANGED <<startVars, chainVars, job, jobQueue, done, alive>>

\* processJob answers: with an error for a context that is done or a blob it
\* cannot re-sign, else with what SubmitPayForBlobWithAccount returned.
processJob(w) ==
    /\ working[w] # NoJob
    /\ job' = [job EXCEPT ![working[w]] = "answered"]
    /\ working' = [working EXCEPT ![w] = NoJob]
    /\ UNCHANGED <<startVars, chainVars, jobQueue, done, alive>>

CancelContext ==
    /\ Cancellable /\ isStarted /\ ~done
    /\ done' = TRUE
    /\ UNCHANGED <<startVars, chainVars, jobVars, alive>>

-----------------------------------------------------------------------------
Init ==
    /\ phase = "none" /\ starts = 0 /\ done = FALSE
    /\ default = Min(Owned) /\ primary = Min(Owned)
    /\ option = "no" /\ granters = {}
    /\ keyring = Owned /\ onChain = Owned /\ visible = Owned
    /\ grants = {} /\ loaded = {} /\ need = {}
    /\ capacity = 0 /\ jobQueue = <<>>
    /\ job = [j \in Jobs |-> "idle"]
    /\ working = [w \in Workers |-> NoJob]
    /\ alive = {}

WorkerStep(w) == TakeJob(w) \/ LeaveLoop(w) \/ processJob(w)

Next ==
    \/ SetupTxClient \/ initializeWorkerAccounts \/ fundAndGrantWorkerAccounts
    \/ StateVisible \/ start \/ CancelContext
    \/ \E j \in Jobs : QueueBlob(j)
    \/ \E w \in Workers : WorkerStep(w)

Spec == Init /\ [][Next]_vars

\* The goroutines of the workers are scheduled, and a submission returns.
FairSpec == Spec /\ \A w \in Workers : WF_vars(WorkerStep(w))

-----------------------------------------------------------------------------
(* Properties                                                              *)

\* The types of the queue's state; the signer holds only accounts a query
\* returned, and the channel never exceeds its capacity.
QueueTypeOK ==
    /\ keyring \subseteq Accounts /\ onChain \subseteq Accounts
    /\ visible \subseteq onChain /\ loaded \subseteq visible
    /\ {default, primary} \cup granters \subseteq keyring
    /\ grants \subseteq Accounts \X Accounts
    /\ need \subseteq Helpers /\ alive \subseteq Workers
    /\ Len(jobQueue) <= capacity
    /\ working \in [Workers -> Jobs \cup {NoJob}]

\* Once started, whatever the set-ups before left behind: every worker can sign,
\* since its account is loaded; the account processJob names as fee granter has
\* granted every helper an allowance, unless a set-up with another default
\* account funded it, and then that one has; and a set-up that named its
\* account with WithDefaultAccount has no two workers on one account.
WorkersReady ==
    /\ QueueTypeOK
    /\ isStarted =>
        /\ \A w \in Workers : AccountOf(w) \in loaded
        /\ \A w \in Helpers :
            \/ Grants({w}) \subseteq grants
            \/ \E g \in granters \ {default} : <<g, WorkerAccounts[w]>> \in grants
        /\ option = "account" =>
            /\ primary = default
            /\ \A v, w \in Workers : AccountOf(v) = AccountOf(w) => v = w

\* "the main account pays for transaction fees", whatever set-ups came before.
MainAccountPays == isStarted => Grants(Helpers) \subseteq grants

\* A job accepted by the queue gets its result, unless the context ends: what
\* is in the channel then is left there.
QueuedJobAnswered == \A j \in Jobs : job[j] = "queued" ~> job[j] = "answered" \/ done
=============================================================================
