---------------------------- MODULE FibreServer ----------------------------
(***************************************************************************)
(* The storage side of a Fibre validator: concurrent UploadShard handlers, *)
(* DownloadShard readers and the prune loop over one Store (shard files    *)
(* plus a pebble index written with NoSync) and one occupancy counter.     *)
(* Every file operation, index commit and atomic access is a step of its   *)
(* own; a crash loses the process and any unflushed suffix of the index.   *)
(***************************************************************************)
EXTENDS Integers, Sequences, FiniteSets, FiniteSetsExt, Functions

CONSTANTS
    Handlers,           \* concurrent UploadShard calls
    Readers,            \* concurrent DownloadShard calls
    Promises,           \* [id, com, stripe, size, creation]
    ParamSchedule,      \* the values governance gives [timeout, retention], in order
    Budgets,            \* budgets recomputeBudget can derive; 0 is no limit
    TicksPerMinute,
    MaxTime,
    MaxFailures         \* bound on crashes, failing removals and failing commits

ASSUME ServerAssumption ==
    /\ {TicksPerMinute, MaxTime, MaxFailures} \subseteq Nat
    /\ TicksPerMinute > 0
    /\ Budgets \subseteq Nat
    /\ Promises \subseteq [id : Nat, com : Nat, stripe : Nat, size : Nat \ {0}, creation : Nat]
    /\ ParamSchedule \in Seq([timeout : Nat, retention : Nat]) /\ ParamSchedule # <<>>

VARIABLES
    now,
    era,                \* index into ParamSchedule of the parameters in force
    up,                 \* the process is running
    db,                 \* the index: [pp, shard, prune]
    survivors,          \* index states a crash may fall back to
    files,              \* promises with a file under shards/
    staging,            \* handlers with a file under staging/
    used, budget,       \* occupancy
    handler,            \* per upload: pc, promise, prune time, budget read
    reader,             \* per download: pc, markers left, marker to drop
    pruner,             \* the prune loop: pc, keys left, batch, bytes freed
    crashes, faults,
    signed,             \* history: promises signed by this validator
    recorded,           \* history: every <<prune minute, promise>> ever committed
    drift               \* history: occupancy was thrown off, see OccupancyExact

storeVars == <<db, survivors, files, staging>>
occVars == <<used, budget>>
envVars == <<now, era, up, crashes, faults>>
vars == <<envVars, storeVars, occVars, handler, reader, pruner, signed, recorded, drift>>

Minute(t) == t \div TicksPerMinute

params == ParamSchedule[era]

TotalSize(S) == SumFunctionOnSet([p \in S |-> p.size], S)

IdleHandler == [pc |-> "idle"]
IdleReader == [pc |-> "idle"]
IdlePruner == [pc |-> "idle"]

EmptyIndex == [pp |-> {}, shard |-> {}, prune |-> {}]

-----------------------------------------------------------------------------
(* The store                                                               *)

FailuresLeft == crashes + faults < MaxFailures

\* A NoSync commit: the new state is visible at once, durable only later.  (With no
\* crash left to come the older states no longer matter.)
Commit(d) ==
    /\ db' = d
    /\ survivors' = IF FailuresLeft THEN survivors \cup {d} ELSE {d}

PutBatch_unindexed(p, pruneAt) ==
    [pp |-> db.pp \cup {p}, shard |-> db.shard \cup {p}, prune |-> db.prune]

\* The metadata batch of a Put; the prune key keeps the minute of pruneAt only.
PutBatch(p, pruneAt) ==
    [pp |-> db.pp \cup {p},
     shard |-> db.shard \cup {p},
     prune |-> db.prune \cup {<<Minute(pruneAt), p>>}]

PruneBatch(keys) ==
    LET gone == {k[2] : k \in keys}
    IN  [pp |-> db.pp \ gone, shard |-> db.shard \ gone, prune |-> db.prune \ keys]

Has(p) == p \in db.shard /\ p \in files

PruneKeys_early == {k \in db.prune : k[1] <= Minute(now)}

PruneKeys == {k \in db.prune : k[1] < Minute(now)}

-----------------------------------------------------------------------------
(* UploadShard                                                             *)

expiresAt(p) == p.creation + params.timeout

shardPruneAt(p) == Max({expiresAt(p), p.creation + params.retention})

Goto(u, pc) == handler' = [handler EXCEPT ![u].pc = pc]

Return(u) == handler' = [handler EXCEPT ![u] = IdleHandler]

\* The chain accepts the promise now; assignment and proofs are in order.
VerifyPromise(u, p) ==
    /\ up /\ handler[u].pc = "idle"
    /\ p.creation <= now /\ now < expiresAt(p)
    /\ handler' = [handler EXCEPT ![u] = [pc |-> "verified", p |-> p,
                                          pruneAt |-> shardPruneAt(p), budget |-> 0]]
    /\ UNCHANGED <<envVars, storeVars, occVars, reader, pruner, signed, recorded, drift>>

Locked(s) == \E u \in Handlers : /\ handler[u].pc \notin {"idle", "verified"}
                                 /\ handler[u].p.stripe = s

uploadLock(u) == handler[u].pc = "verified" /\ ~Locked(handler[u].p.stripe)

\* Take the stripe's mutex and look the shard up; a duplicate only signs.
LockAndHas(u) ==
    /\ uploadLock(u)
    /\ handler' = [handler EXCEPT ![u].pc = IF Has(handler[u].p) THEN "sign" ELSE "reserve",
                                  ![u].budget = budget]
    /\ UNCHANGED <<envVars, storeVars, occVars, reader, pruner, signed, recorded, drift>>

\* An admitted upload goes on to write its file under staging/.
Staged(u, admitted) ==
    /\ staging' = IF admitted THEN staging \cup {u} ELSE staging
    /\ Goto(u, IF admitted THEN "publish" ELSE "over")

\* The atomic Add, compared with the budget loaded before it.
ReserveAdd_checkFirst(u) ==
    LET n == handler[u].p.size
        b == handler[u].budget
    IN  /\ handler[u].pc = "reserve"
        /\ used' = used + n
        /\ Staged(u, b = 0 \/ used <= b)
        /\ UNCHANGED <<envVars, db, survivors, files, budget, reader, pruner, signed,
                       recorded, drift>>

ReserveAdd(u) ==
    LET n == handler[u].p.size
        b == handler[u].budget
    IN  /\ handler[u].pc = "reserve"
        /\ used' = used + n
        /\ Staged(u, b = 0 \/ used + n <= b)
        /\ UNCHANGED <<envVars, db, survivors, files, budget, reader, pruner, signed,
                       recorded, drift>>

\* The reservation did not fit: undo it and answer ResourceExhausted.
ReserveUndo(u) ==
    /\ handler[u].pc = "over"
    /\ used' = used - handler[u].p.size
    /\ Return(u)
    /\ UNCHANGED <<envVars, storeVars, budget, reader, pruner, signed, recorded, drift>>

\* The client is gone, or a write failed, before the rename.
AbortPut_unreleased(u) ==
    /\ handler[u].pc = "publish"
    /\ staging' = staging \ {u}
    /\ Return(u)
    /\ UNCHANGED <<envVars, db, survivors, files, occVars, reader, pruner, signed,
                   recorded, drift>>

AbortPut(u) ==
    /\ handler[u].pc = "publish"
    /\ staging' = staging \ {u}
    /\ used' = used - handler[u].p.size
    /\ Return(u)
    /\ UNCHANGED <<envVars, db, survivors, files, budget, reader, pruner, signed,
                   recorded, drift>>

Publish(u) ==
    /\ handler[u].pc = "publish"
    /\ files' = files \cup {handler[u].p}
    /\ staging' = staging \ {u}
    /\ drift' = (drift \/ handler[u].p \in files)
    /\ Goto(u, "commit")
    /\ UNCHANGED <<envVars, db, survivors, occVars, reader, pruner, signed, recorded>>

CommitPut(u) ==
    /\ handler[u].pc = "commit"
    /\ Commit(PutBatch(handler[u].p, handler[u].pruneAt))
    /\ recorded' = recorded \cup {<<Minute(handler[u].pruneAt), handler[u].p>>}
    /\ Goto(u, "sign")
    /\ UNCHANGED <<envVars, files, staging, occVars, reader, pruner, signed, drift>>

\* The commit fails: the file goes too unless an older marker claims it, and
\* the handler releases its reservation in either case.
CommitPutFails(u) ==
    LET p == handler[u].p
    IN  /\ handler[u].pc = "commit" /\ FailuresLeft
        /\ faults' = faults + 1
        /\ files' = IF p \in db.shard THEN files ELSE files \ {p}
        /\ drift' = (drift \/ (p \in db.shard /\ p \in files) \/ p \notin files)
        /\ used' = used - p.size
        /\ Return(u)
        /\ UNCHANGED <<now, era, up, crashes, db, survivors, staging, budget, reader,
                       pruner, signed, recorded>>

SignPromise(u) ==
    /\ handler[u].pc = "sign"
    /\ signed' = signed \cup {handler[u].p}
    /\ Return(u)
    /\ UNCHANGED <<envVars, storeVars, occVars, reader, pruner, recorded, drift>>

\* The signer refuses or is unreachable.
SignFails(u) ==
    /\ handler[u].pc = "sign"
    /\ Return(u)
    /\ UNCHANGED <<envVars, storeVars, occVars, reader, pruner, signed, recorded, drift>>

-----------------------------------------------------------------------------
(* DownloadShard returns the first shard of the commitment, in key order,  *)
(* whose file is there.  A reader that finds it changes nothing.           *)

First(S) == CHOOSE p \in S : \A q \in S : p.id <= q.id

\* Look at the next marker of the iterator's snapshot.
Look(todo) ==
    IF todo = {} \/ First(todo) \in files THEN IdleReader
    ELSE [pc |-> "drop", todo |-> todo \ {First(todo)}, p |-> First(todo)]

GetMissing(r, c) ==
    LET found == Look({p \in db.shard : p.com = c})
    IN  /\ up /\ reader[r].pc = "idle"
        /\ found # IdleReader
        /\ reader' = [reader EXCEPT ![r] = found]
        /\ UNCHANGED <<envVars, storeVars, occVars, handler, pruner, signed, recorded,
                       drift>>

\* The file was missing: delete its marker and go on to the next one.
GetDropMarker(r) ==
    /\ reader[r].pc = "drop"
    /\ Commit([db EXCEPT !.shard = @ \ {reader[r].p}])
    /\ reader' = [reader EXCEPT ![r] = Look(@.todo)]
    /\ UNCHANGED <<envVars, files, staging, occVars, handler, pruner, signed, recorded,
                   drift>>

-----------------------------------------------------------------------------
(* The prune loop                                                          *)

\* A tick: PruneBefore iterates over a snapshot of the prune index up to the cutoff.
\* When nothing is due it changes nothing, and the budget is next.
PruneStart ==
    /\ up /\ pruner.pc = "idle"
    /\ pruner' = IF PruneKeys = {} THEN [pc |-> "budget"]
                 ELSE [pc |-> "stat", todo |-> PruneKeys, batch |-> {}, freed |-> 0]
    /\ UNCHANGED <<envVars, storeVars, occVars, handler, reader, signed, recorded, drift>>

PruneStat(k) ==
    /\ pruner.pc = "stat" /\ k \in pruner.todo
    /\ pruner' = [pc |-> "remove", todo |-> pruner.todo \ {k}, batch |-> pruner.batch,
                  freed |-> pruner.freed, key |-> k, seen |-> k[2] \in files]
    /\ UNCHANGED <<envVars, storeVars, occVars, handler, reader, signed, recorded, drift>>

PruneRemove ==
    LET p == pruner.key[2]
    IN  /\ pruner.pc = "remove"
        /\ files' = files \ {p}
        /\ drift' = (drift \/ pruner.seen # (p \in files))
        /\ pruner' = [pc |-> "stat", todo |-> pruner.todo,
                      batch |-> pruner.batch \cup {pruner.key},
                      freed |-> pruner.freed + IF pruner.seen THEN p.size ELSE 0]
        /\ UNCHANGED <<envVars, db, survivors, staging, occVars, handler, reader, signed,
                       recorded>>

PruneCommit ==
    /\ pruner.pc = "stat" /\ pruner.todo = {}
    /\ Commit(PruneBatch(pruner.batch))
    /\ pruner' = [pc |-> "release", freed |-> pruner.freed]
    /\ UNCHANGED <<envVars, files, staging, occVars, handler, reader, signed, recorded,
                   drift>>

\* A removal or the commit fails: the batch is dropped, what was freed is reported.
PruneFails ==
    /\ pruner.pc \in {"stat", "remove"} /\ FailuresLeft
    /\ faults' = faults + 1
    /\ pruner' = [pc |-> "release", freed |-> pruner.freed]
    /\ UNCHANGED <<now, era, up, crashes, storeVars, occVars, handler, reader, signed,
                   recorded, drift>>

PruneRelease ==
    /\ pruner.pc = "release"
    /\ used' = used - pruner.freed
    /\ pruner' = [pc |-> "budget"]
    /\ UNCHANGED <<envVars, storeVars, budget, handler, reader, signed, recorded, drift>>

RecomputeBudget_stops ==
    /\ pruner.pc = "budget"
    /\ budget' \in Budgets \cup {budget}
    /\ pruner' = IF budget' = budget THEN [pc |-> "stopped"] ELSE IdlePruner
    /\ UNCHANGED <<envVars, storeVars, used, handler, reader, signed, recorded, drift>>

\* The budget is derived again, or kept when it cannot be.
RecomputeBudget ==
    /\ pruner.pc = "budget"
    /\ budget' \in Budgets \cup {budget}
    /\ pruner' = IdlePruner
    /\ UNCHANGED <<envVars, storeVars, used, handler, reader, signed, recorded, drift>>

-----------------------------------------------------------------------------
(* The process and its surroundings                                        *)

Crash ==
    /\ up /\ FailuresLeft
    /\ up' = FALSE /\ crashes' = crashes + 1
    /\ \E d \in survivors : db' = d /\ survivors' = {d}
    /\ used' = 0 /\ budget' = 0
    /\ handler' = [u \in Handlers |-> IdleHandler]
    /\ reader' = [r \in Readers |-> IdleReader]
    /\ pruner' = IdlePruner
    /\ drift' = FALSE
    /\ UNCHANGED <<now, era, faults, files, staging, signed, recorded>>

\* Start: reconcile the staging directory, seed the counter, derive the budget.
Restart ==
    /\ ~up /\ up' = TRUE
    /\ staging' = {}
    /\ used' = TotalSize(files)
    /\ budget' \in Budgets
    /\ UNCHANGED <<now, era, crashes, faults, db, survivors, files, handler, reader,
                   pruner, signed, recorded, drift>>

\* A block: time passes, and governance may have the next parameters enacted.  pebble
\* writes its log in the background, so what it holds is durable by now.
Tick ==
    /\ now < MaxTime
    /\ now' = now + 1
    /\ era' \in {era, era + 1} \cap DOMAIN ParamSchedule
    /\ survivors' = {db}
    /\ UNCHANGED <<up, crashes, faults, db, files, staging, occVars, handler, reader,
                   pruner,
                   signed, recorded, drift>>

-----------------------------------------------------------------------------

Init ==
    /\ now = 0 /\ era = 1
    /\ up = TRUE
    /\ db = EmptyIndex /\ survivors = {EmptyIndex}
    /\ files = {} /\ staging = {}
    /\ used = 0 /\ budget \in Budgets
    /\ handler = [u \in Handlers |-> IdleHandler]
    /\ reader = [r \in Readers |-> IdleReader]
    /\ pruner = IdlePruner
    /\ crashes = 0 /\ faults = 0
    /\ signed = {} /\ recorded = {} /\ drift = FALSE

UploadStep(u) ==
    \/ LockAndHas(u)
    \/ ReserveAdd(u)
    \/ ReserveUndo(u)
    \/ Publish(u)
    \/ CommitPut(u)
    \/ SignPromise(u)

UploadFault(u) == AbortPut(u) \/ CommitPutFails(u) \/ SignFails(u)

PruneStep ==
    \/ PruneStart
    \/ \E k \in db.prune : PruneStat(k)
    \/ PruneRemove
    \/ PruneCommit
    \/ PruneRelease
    \/ RecomputeBudget

Next ==
    \/ \E u \in Handlers, p \in Promises : VerifyPromise(u, p)
    \/ \E u \in Handlers : UploadStep(u) \/ UploadFault(u)
    \/ \E r \in Readers, p \in Promises : GetMissing(r, p.com)
    \/ \E r \in Readers : GetDropMarker(r)
    \/ PruneStep
    \/ PruneFails
    \/ Crash
    \/ Restart
    \/ Tick

\* The runtime schedules every goroutine, the ticker of the prune loop fires, a
\* crashed server is started again, and time passes.
Fairness ==
    /\ \A u \in Handlers : WF_vars(UploadStep(u))
    /\ WF_vars(PruneStep)
    /\ WF_vars(Restart)
    /\ WF_vars(Tick)

Spec == Init /\ [][Next]_vars /\ Fairness

-----------------------------------------------------------------------------
(* Properties                                                              *)

Indexed(p) == \E k \in db.prune : k[2] = p

Publishing(p) == \E u \in Handlers : handler[u].pc = "commit" /\ handler[u].p = p

\* A file no prune key leads to, and none is about to: PruneBefore never removes it.
Orphan(p) == p \in files /\ ~Indexed(p) /\ ~Publishing(p)

Due(p) == \E k \in PruneKeys : k[2] = p

\* The uploads between reserve and rename, or between a failing reserve and its undoing.
Reserving == {u \in Handlers : handler[u].pc \in {"over", "publish"}}

InFlight == SumFunctionOnSet([u \in Reserving |-> handler[u].p.size], Reserving)

Unreleased == IF pruner.pc \in {"stat", "remove", "release"} THEN pruner.freed ELSE 0

\* The index and the directory hold promises, and a marker comes with its promise record.
\* The counter is signed: once it has drifted, a prune can take it below zero.
ServerTypeOK ==
    /\ now \in 0..MaxTime /\ era \in 1..Len(ParamSchedule)
    /\ db.shard \subseteq db.pp /\ db.pp \subseteq Promises
    /\ files \subseteq Promises /\ signed \subseteq Promises
    /\ used \in Int /\ budget \in Budgets \cup {0}

\* occupancy.used is exactly the bytes on disk, plus those of uploads between reserve
\* and rename, plus those pruned but not yet released.  The counter drifts only when a
\* rename lands on an orphan file, when a failing commit and the pruner disagree about
\* who removed the file, or when the file changes between the pruner's Stat and Remove.
OccupancyExact ==
    /\ ServerTypeOK
    /\ up /\ ~drift => used = TotalSize(files) + InFlight + Unreleased

\* reserve never lets an upload through that takes the bytes on disk and in flight above
\* the budget it was checked against, however many handlers reserve at once.
BudgetHonoured ==
    [][\A u \in Handlers :
          handler[u].pc = "reserve" /\ handler'[u].pc = "publish" /\ handler[u].budget > 0 /\ ~drift
            => (TotalSize(files) + InFlight)' <= handler[u].budget]_vars

\* Uploads, downloads and prunes over the split store keep what ShardVault promises for
\* the signed shards: marker and file stay together until a prune minute that was ever
\* recorded for the promise has passed.  An earlier minute counts even when a later one was
\* recorded since: when governance moves the prune time of a promise that is stored again,
\* the pruner may still remove the new file for the old key, and a reader that saw the old
\* file missing deletes the new marker (Store.Get).
Vault == INSTANCE ShardVault WITH
            epoch <- crashes,
            kept <- {p \in signed : Has(p)},
            due <- [p \in Promises |-> {k[1] : k \in {j \in recorded : j[2] = p}}]

KeepsShards == Vault!VaultSpec

\* A shard file falls out of the prune index only in a crash, through a failing write, or
\* when its promise is stored again while the pruner is removing it.
OrphansExplained ==
    [][\A p \in Promises :
          ~Orphan(p) /\ Orphan(p)' => ~up' \/ faults' > faults \/ Due(p)]_vars

\* No shard file stays due for ever: it is removed, or a prune that found it due has
\* dropped its key, as happens to a file stored while the pruner was at it.
ExpiredReclaimed == \A p \in Promises : []<>~(p \in files /\ Due(p))

\* "never returns before expiresAt, so a shard is not pruned while its payment promise
\* is still valid" (shardPruneAt).
PrunedAfterExpiry ==
    [][\A p \in Promises : p \in files \ files' /\ Due(p) => now >= expiresAt(p)]_vars

\* "A crash between rename and commit leaves a phantom marker that Get cleans lazily and
\* PruneBefore sweeps at pruneAt" (Store.Put): nothing is left that no prune removes.
CrashLeftoverSwept == \A p \in Promises : ~Orphan(p)
=============================================================================
