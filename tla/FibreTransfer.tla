---------------------------- MODULE FibreTransfer ---------------------------
(***************************************************************************)
(* The Fibre client's data path: how a blob's rows are assigned to         *)
(* validators, the fan-out of Client.Upload with the reference count of    *)
(* the blob's pooled rows, the signature set, and the session of           *)
(* Client.Download that collects rows until the blob can be rebuilt.       *)
(* Validators are the positions of the validator set, ordered by power.    *)
(* Rows are positions in the order the commitment shuffles them into.      *)
(***************************************************************************)
EXTENDS Naturals, Sequences, FiniteSets, FiniteSetsExt

CONSTANTS
    PowerSets,              \* voting powers of the validator sets to consider
    TransferSets,           \* those of them on which transfers are run
    OriginalRows, TotalRows, MinRows,
    MaxRetries              \* maxUploadRetries

ASSUME TransferAssumption ==
    /\ TransferSets \subseteq PowerSets
    /\ \A p \in PowerSets : /\ p = [i \in 1..Len(p) |-> p[i]]
                            /\ Len(p) \in Nat \ {0}
                            /\ \A i \in 1..Len(p) : p[i] \in Nat \ {0}
    /\ {OriginalRows, TotalRows, MinRows} \subseteq Nat \ {0}
    /\ 3 * OriginalRows <= TotalRows        \* LivenessThreshold > EncodingRatio
    /\ MaxRetries \in Nat

VARIABLES
    power,          \* the validator set
    upload,         \* Upload's caller: "idle", "waiting", "ok", "error"
    job,            \* per validator: [pc, tries] of its uploadTo goroutine
    responses,      \* goroutines that have finished
    sigsCollected,  \* whether sigsCollectedCh is closed
    signers,        \* validators in the signature set
    holders,        \* validators that stored their shard
    refCount, userReleased,
    cancelled,      \* the upload context
    offline,        \* holders that do not answer the download
    down,           \* the download session [pc, order, cursor, inflight, token, cancelled]
    worker,         \* per validator: its downloadFrom goroutine
    seen, rows      \* the reconstructor's bitset; rows in the session's buffer

blobVars == <<refCount, userReleased>>
jobVars == <<job, responses, sigsCollected, signers, holders>>
uploadVars == <<upload, jobVars, blobVars, cancelled>>
downloadVars == <<offline, down, worker, seen, rows>>
vars == <<power, uploadVars, downloadVars>>

Validators == DOMAIN power
Power(V) == SumFunctionOnSet(power, V)
TotalVotingPower == Power(Validators)
CeilDiv(a, b) == (a + b - 1) \div b
AtLeast(a, b) == IF a < b THEN b ELSE a
AtMost(a, b) == IF a > b THEN b ELSE a

-----------------------------------------------------------------------------
(* Set.Assign and Set.Select, with LivenessThreshold 1/3                   *)

AssignedRows_floor(v) ==
    AtMost(AtLeast((3 * OriginalRows * power[v]) \div TotalVotingPower, MinRows),
           OriginalRows)

AssignedRows(v) ==
    AtMost(AtLeast(CeilDiv(3 * OriginalRows * power[v], TotalVotingPower), MinRows),
           OriginalRows)

rowsPerValidator == [v \in Validators |-> AssignedRows(v)]
AssignedTo(V) == SumFunctionOnSet(rowsPerValidator, V)
Offset(v) == AssignedTo(1..(v - 1))

\* Consecutive positions from the validator's offset, wrapping around.
Assign(v) == {(Offset(v) + j) % TotalRows : j \in 0..(AssignedRows(v) - 1)}
AssignAll(V) == UNION {Assign(v) : v \in V}

minStake == CeilDiv(MinRows * TotalVotingPower, 3 * OriginalRows)

flooredStake == [v \in Validators |-> AtLeast(power[v], minStake)]

\* Validators whose accumulated stake, with the floor, stays within the total.
BeforeSplit == {v \in Validators : SumFunctionOnSet(flooredStake, 1..v) <= TotalVotingPower}

\* Each group in an order of its own, drawn at random.
Orderings(V) == Bijection(1..Cardinality(V), V)

Orders ==
    {first \o second : first \in Orderings(BeforeSplit),
                       second \in Orderings(Validators \ BeforeSplit)}

\* The validators in such an order, each with the rows to expect from it.
Select ==
    {[i \in Validators |-> [val |-> order[i], ExpectedRows |-> AssignedRows(order[i])]] :
        order \in Orders}

\* Whether the floor made the assignment wrap onto rows given out before.
Wraps == AssignedTo(Validators) > TotalRows

-----------------------------------------------------------------------------
(* The blob's references                                                   *)

Retain(n) == refCount' = refCount + n
Release(n) == refCount' = refCount - n

\* Free is idempotent, and may come while the upload runs.
Free ==
    /\ ~userReleased
    /\ userReleased' = TRUE
    /\ Release(1)
    /\ UNCHANGED <<power, upload, jobVars, cancelled, downloadVars>>

-----------------------------------------------------------------------------
(* Client.Upload                                                           *)

NoJob == [pc |-> "none", tries |-> 0]
Running(v) == job[v].pc \in {"send", "backoff", "answered", "finish"}
responsesExhausted == responses = Cardinality(Validators)
minRequiredVotingPower == (TotalVotingPower * 2) \div 3
HasEnough(V) == Power(V) >= minRequiredVotingPower
To(v, pc) == job' = [job EXCEPT ![v].pc = pc]

\* Upload and uploadShards each retain the blob; a released blob is refused.
StartUpload ==
    /\ upload = "idle" /\ power \in TransferSets
    /\ IF refCount = 0
         THEN upload' = "error" /\ UNCHANGED <<refCount, job>>
         ELSE /\ upload' = "waiting"
              /\ Retain(2)
              /\ job' = [v \in Validators |-> [pc |-> "send", tries |-> 0]]
    /\ UNCHANGED <<power, responses, sigsCollected, signers, holders, userReleased,
                   cancelled, downloadVars>>

\* One UploadShard request (a transport failure is sent again to a fresh connection
\* inside it).  It is answered; or it fails, stored or not; or the validator is out of
\* room and the request is tried again later, a bounded number of times.
SendShard(v) ==
    /\ job[v].pc = "send"
    /\ \/ holders' = holders \cup {v} /\ To(v, "answered")
       \/ holders' \in {holders, holders \cup {v}} /\ To(v, "finish")
       \/ job[v].tries < MaxRetries /\ To(v, "backoff") /\ UNCHANGED holders
    /\ UNCHANGED <<power, upload, responses, sigsCollected, signers, blobVars, cancelled,
                   downloadVars>>

\* The retry delay ends, or the context or the client does first.
Backoff(v) ==
    /\ job[v].pc = "backoff"
    /\ \/ job' = [job EXCEPT ![v] = [pc |-> "send", tries |-> job[v].tries + 1]]
       \/ cancelled /\ To(v, "finish")
    /\ UNCHANGED <<power, upload, responses, sigsCollected, signers, holders, blobVars,
                   cancelled, downloadVars>>

\* A goroutine that starts or sends under a cancelled context gives up.
GiveUp(v) ==
    /\ job[v].pc = "send" /\ cancelled
    /\ To(v, "finish")
    /\ UNCHANGED <<power, upload, responses, sigsCollected, signers, holders, blobVars,
                   cancelled, downloadVars>>

\* parseSignature and SignatureSet.Add; the first to see a quorum closes the channel.
AddSignature(v) ==
    /\ job[v].pc = "answered"
    /\ \/ /\ signers' = signers \cup {v}
          /\ sigsCollected' = (sigsCollected \/ HasEnough(signers'))
       \/ UNCHANGED <<signers, sigsCollected>>
    /\ To(v, "finish")
    /\ UNCHANGED <<power, upload, responses, holders, blobVars, cancelled, downloadVars>>

Finish_eachReleases(v) ==
    /\ job[v].pc = "finish"
    /\ To(v, "done")
    /\ responses' = responses + 1
    /\ Release(IF refCount > 0 THEN 1 ELSE 0)
    /\ UNCHANGED <<power, upload, sigsCollected, signers, holders, userReleased, cancelled,
                   downloadVars>>

\* The deferred function: the last goroutine releases the fan-out's reference.
Finish(v) ==
    /\ job[v].pc = "finish"
    /\ To(v, "done")
    /\ responses' = responses + 1
    /\ Release(IF responses' = Cardinality(Validators) THEN 1 ELSE 0)
    /\ UNCHANGED <<power, upload, sigsCollected, signers, holders, userReleased, cancelled,
                   downloadVars>>

\* The select of uploadShards, then Signatures, then Upload's deferred release.
ReturnUpload ==
    /\ upload = "waiting"
    /\ \/ /\ sigsCollected
          /\ upload' = "ok"
       \/ /\ responsesExhausted
          /\ upload' = IF ~cancelled /\ HasEnough(signers) THEN "ok" ELSE "error"
    /\ Release(1)
    /\ UNCHANGED <<power, jobVars, userReleased, cancelled, downloadVars>>

\* The caller cancels its context, or the client stops.
Cancel ==
    /\ upload = "waiting" /\ ~cancelled
    /\ cancelled' = TRUE
    /\ UNCHANGED <<power, upload, jobVars, blobVars, downloadVars>>

-----------------------------------------------------------------------------
(* Client.Download                                                         *)

NoDownload == [pc |-> "idle"]

Want == IF Cardinality(seen) >= OriginalRows THEN 0 ELSE OriginalRows - Cardinality(seen)

Selected == down.order
Step(pc) == down' = [down EXCEPT !.pc = pc]
Busy(v) == worker[v].pc \notin {"none", "done"}

\* Another client's download, once the uploader is done with the blob and its goroutine
\* state is gone.  Some holders are gone by then; the selection is drawn.
StartDownload ==
    /\ upload = "ok" /\ refCount = 0 /\ down = NoDownload
    /\ job' = [v \in Validators |-> NoJob]
    /\ sigsCollected' = FALSE /\ cancelled' = FALSE
    /\ offline' \in SUBSET holders
    /\ \E order \in Select :
          down' = [pc |-> "loop", order |-> order, cursor |-> 1, inflight |-> 0,
                   token |-> FALSE, cancelled |-> FALSE]
    /\ worker' = [v \in Validators |-> [pc |-> "none"]]
    /\ UNCHANGED <<power, upload, responses, signers, holders, blobVars, seen, rows>>

Ready ==
    /\ down.pc = "loop"
    /\ Step(IF /\ down.inflight = 0
               /\ Want = 0 \/ down.cursor > Len(Selected)
              THEN "blob" ELSE "pick")
    /\ UNCHANGED <<power, uploadVars, offline, worker, seen, rows>>

\* Reserve the next validator's rows and start its worker, or park.
Pick ==
    /\ down.pc = "pick"
    /\ IF down.cursor > Len(Selected) \/ Want <= down.inflight
         THEN Step("park") /\ UNCHANGED worker
         ELSE LET from == Selected[down.cursor] IN
              /\ down' = [down EXCEPT !.pc = "loop", !.cursor = @ + 1,
                                      !.inflight = @ + from.ExpectedRows]
              /\ worker' = [worker EXCEPT ![from.val] = [pc |-> "fetch"]]
    /\ UNCHANGED <<power, uploadVars, offline, seen, rows>>

\* The select: a worker's signal, or the end of the context.
Park ==
    /\ down.pc = "park"
    /\ \/ down.token /\ down' = [down EXCEPT !.pc = "loop", !.token = FALSE]
       \/ down.cancelled /\ Step("blob")
    /\ UNCHANGED <<power, uploadVars, offline, worker, seen, rows>>

\* The request, then Reconstructor.Add: the rows not seen before are this worker's.
Fetch(v) ==
    /\ down # NoDownload /\ worker[v].pc = "fetch"
    /\ IF v \in holders \ offline
         THEN /\ worker' = [worker EXCEPT ![v] = [pc |-> "store", novel |-> Assign(v) \ seen]]
              /\ seen' = seen \cup Assign(v)
         ELSE worker' = [worker EXCEPT ![v] = [pc |-> "release"]] /\ UNCHANGED seen
    /\ UNCHANGED <<power, uploadVars, offline, down, rows>>

StoreRows(v) ==
    /\ down # NoDownload /\ worker[v].pc = "store"
    /\ rows' = rows \cup worker[v].novel
    /\ worker' = [worker EXCEPT ![v] = [pc |-> "release"]]
    /\ UNCHANGED <<power, uploadVars, offline, down, seen>>

\* release: the reservation is returned first, the wait group and the signal follow.
ReleaseRows(v) ==
    /\ down # NoDownload /\ worker[v].pc = "release"
    /\ \E from \in Range(Selected) :
          from.val = v /\ down' = [down EXCEPT !.inflight = @ - from.ExpectedRows]
    /\ worker' = [worker EXCEPT ![v] = [pc |-> "signal"]]
    /\ UNCHANGED <<power, uploadVars, offline, seen, rows>>

SignalMain_whenParked(v) ==
    /\ down # NoDownload /\ worker[v].pc = "signal"
    /\ down' = [down EXCEPT !.token = @ \/ down.pc = "park"]
    /\ worker' = [worker EXCEPT ![v] = [pc |-> "done"]]
    /\ UNCHANGED <<power, uploadVars, offline, seen, rows>>

SignalMain(v) ==
    /\ down # NoDownload /\ worker[v].pc = "signal"
    /\ down' = [down EXCEPT !.token = TRUE]
    /\ worker' = [worker EXCEPT ![v] = [pc |-> "done"]]
    /\ UNCHANGED <<power, uploadVars, offline, seen, rows>>

CancelDownload ==
    /\ down.pc \in {"loop", "pick", "park", "blob"} /\ ~down.cancelled
    /\ down' = [down EXCEPT !.cancelled = TRUE]
    /\ UNCHANGED <<power, uploadVars, offline, worker, seen, rows>>

Outcome ==
    CASE down.cancelled                                               -> "cancelled"
      [] ~down.cancelled /\ Want > 0 /\ seen = {}                     -> "ErrNotFound"
      [] ~down.cancelled /\ Want > 0 /\ seen # {}                     -> "ErrNotEnoughShards"
      [] ~down.cancelled /\ Want = 0 /\ Cardinality(rows) >= OriginalRows -> "downloaded"
      [] ~down.cancelled /\ Want = 0 /\ Cardinality(rows) < OriginalRows  -> "undecodable"

Blob_noWait ==
    /\ down.pc = "blob"
    /\ Step(Outcome)
    /\ UNCHANGED <<power, uploadVars, offline, worker, seen, rows>>

\* download.Blob: wait for the workers, then decode the buffer or free its slab.
Blob ==
    /\ down.pc = "blob"
    /\ \A v \in Validators : ~Busy(v)
    /\ Step(Outcome)
    /\ UNCHANGED <<power, uploadVars, offline, worker, seen, rows>>

-----------------------------------------------------------------------------
Init ==
    /\ power \in PowerSets
    /\ upload = "idle" /\ job = [v \in Validators |-> NoJob]
    /\ responses = 0 /\ sigsCollected = FALSE /\ signers = {} /\ holders = {}
    /\ refCount = 1 /\ userReleased = FALSE
    /\ cancelled = FALSE
    /\ offline = {} /\ down = NoDownload /\ worker = <<>>
    /\ seen = {} /\ rows = {}

JobStep(v) == SendShard(v) \/ Backoff(v) \/ GiveUp(v) \/ AddSignature(v) \/ Finish(v)
WorkerStep(v) == Fetch(v) \/ StoreRows(v) \/ ReleaseRows(v) \/ SignalMain(v)
MainStep == Ready \/ Pick \/ Park \/ Blob

Next ==
    \/ StartUpload \/ ReturnUpload \/ Cancel \/ Free
    \/ StartDownload \/ MainStep \/ CancelDownload
    \/ \E v \in Validators : JobStep(v) \/ WorkerStep(v)

\* Goroutines run; requests end, if only by RPCTimeout; callers free their blob.
Fairness ==
    /\ WF_vars(ReturnUpload) /\ WF_vars(Free) /\ WF_vars(MainStep)
    /\ \A i \in 1..Max({Len(p) : p \in TransferSets}) :
          /\ WF_vars(i \in Validators /\ JobStep(i))
          /\ WF_vars(i \in Validators /\ WorkerStep(i))

Spec == Init /\ [][Next]_vars /\ Fairness
-----------------------------------------------------------------------------
(* Properties                                                              *)

DownloadResults ==
    {"downloaded", "undecodable", "ErrNotFound", "ErrNotEnoughShards", "cancelled"}

TransferTypeOK ==
    /\ upload \in {"idle", "waiting", "ok", "error"}
    /\ signers \subseteq holders /\ holders \subseteq Validators
    /\ rows \subseteq seen
    /\ refCount \in 0..3

\* While any goroutine of the fan-out may read the blob's pooled rows they are not
\* returned to the pool, even when the caller has its result and has called Free; and
\* when the last owner is gone they are returned (Blob.release, uploadShards).
BlobLifetime ==
    /\ TransferTypeOK
    /\ (\E v \in Validators : Running(v)) => refCount > 0
    /\ (/\ upload \in {"ok", "error"} /\ userReleased
        /\ \A v \in Validators : ~Running(v)) => refCount = 0

\* A successful Upload leaves the blob retrievable: a download that reaches signers with a
\* third of the power gets it, unless the row floor made the assignment wrap.  A download
\* that counted enough rows has them in its buffer when it decodes, and no worker writes
\* to the buffer once Download has returned it or given it back.
Retrievable ==
    /\ down.pc # "undecodable"
    /\ down.pc \in DownloadResults => \A v \in Validators : ~Busy(v)
    /\ (/\ down.pc \in DownloadResults \ {"cancelled"}
        /\ 3 * Power(signers \ offline) >= TotalVotingPower
        /\ ~Wraps) => down.pc = "downloaded"

\* Whatever fails, a started Upload returns and its blob is released in the end, and a
\* started Download ends with a blob or an error: no wake-up is lost.
TransfersEnd ==
    /\ upload = "waiting" ~> upload \in {"ok", "error"} /\ refCount = 0
    /\ down # NoDownload ~> down.pc \in DownloadResults

\* "LivenessThreshold is the fraction of validators needed for reconstruction" and
\* "33% stake should have originalRows": a third of the voting power, however it is
\* spread, is assigned enough different rows to rebuild the blob.
ThirdReconstructs ==
    \A V \in SUBSET Validators :
        3 * Power(V) >= TotalVotingPower => Cardinality(AssignAll(V)) >= OriginalRows

\* It is, when the row floor does not make the assignment wrap; and, wrapping or not, the
\* validators Select puts first have no row in common ("non-overlapping").  It is stated of
\* the states before an upload, as the validator set of a transfer does not change.
RowsSpread ==
    upload = "idle" =>
        /\ ~Wraps => ThirdReconstructs
        /\ \A v, w \in BeforeSplit : v # w => Assign(v) \cap Assign(w) = {}
=============================================================================
