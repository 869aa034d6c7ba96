------------------------ MODULE FibreTransferProofs -------------------------
(***************************************************************************)
(* The data path of the Fibre client for every validator set: the pooled   *)
(* rows of a blob outlive the goroutines that read them and no owner leaks *)
(* them; the rows are spread so that a third of the voting power can       *)
(* rebuild the blob; and a download that reaches that much of the signers  *)
(* rebuilds it.                                                            *)
(***************************************************************************)
EXTENDS FibreTransfer, SumTheorems, TLAPS

JobPcs == {"none", "send", "backoff", "answered", "finish", "done"}
Done == {v \in Validators : job[v].pc = "done"}
Unstarted == \A v \in Validators : job[v].pc = "none"
Started == \A v \in Validators : job[v].pc # "none"
One(b) == IF b THEN 1 ELSE 0

\* The count is the number of owners: the caller until Free, Upload until it returns, and
\* the fan-out until its last goroutine ends, which the responses it counts tell.
Owners ==
    /\ Unstarted \/ Started
    /\ Unstarted => upload # "waiting" /\ refCount = One(~userReleased)
    /\ Started => /\ responses = Cardinality(Done)
                  /\ refCount = One(~userReleased) + One(upload = "waiting")
                                  + One(\E v \in Validators : Running(v))

\* Signatures come from validators that hold their shard.
SignersHold ==
    /\ signers \subseteq holders /\ holders \subseteq Validators
    /\ \A v \in Validators : job[v].pc = "answered" => v \in holders

\* What a worker is about to write has been counted.
RowsSeen ==
    /\ rows \subseteq seen
    /\ down # NoDownload =>
          /\ worker = [v \in Validators |-> worker[v]]
          /\ \A v \in Validators : worker[v].pc = "store" => worker[v].novel \subseteq seen

JobsTyped ==
    /\ power \in PowerSets
    /\ upload \in {"idle", "waiting", "ok", "error"}
    /\ job \in [Validators -> [pc : JobPcs, tries : Nat]]
    /\ userReleased \in BOOLEAN
    /\ upload = "idle" => responses = 0 /\ Unstarted

\* The inductive invariant behind BlobLifetime.
BlobInv == JobsTyped /\ Owners /\ SignersHold /\ RowsSeen

\* A validator set is finite and has a member.
LEMMA ValidatorsFinite ==
    ASSUME power \in PowerSets
    PROVE  /\ IsFiniteSet(Validators) /\ Cardinality(Validators) \in Nat
           /\ Validators # {} /\ Validators = 1..Len(power)
<1>1. Len(power) \in Nat \ {0} /\ Validators = 1..Len(power)
    BY TransferAssumption, Zenon DEF Validators
<1>2. IsFiniteSet(1..Len(power))
    BY <1>1, FS_Interval
<1>3. 1 \in Validators
    BY <1>1
<1> QED BY <1>1, <1>2, <1>3, FS_CardinalityType, Zenon

\* A blob starts with one owner, its caller.
LEMMA BlobInit == Init => BlobInv
<1> SUFFICES ASSUME Init PROVE BlobInv
    BY Zenon
<1>1. JobsTyped
    BY Zenon DEF Init, JobsTyped, JobPcs, NoJob, Unstarted
<1>2. Unstarted /\ ~Started
    BY ValidatorsFinite, Zenon DEF Init, NoJob, Unstarted, Started
<1>3. Owners
    BY <1>2, Zenon DEF Init, Owners, One
<1>4. SignersHold
    BY <1>2, Zenon DEF Init, SignersHold, Unstarted
<1>5. RowsSeen
    BY Zenon DEF Init, RowsSeen
<1> QED BY <1>1, <1>3, <1>4, <1>5, Zenon DEF BlobInv

\* The set of finished goroutines, and when it is everybody.
LEMMA DoneCounts ==
    ASSUME BlobInv
    PROVE  /\ IsFiniteSet(Done) /\ Cardinality(Done) \in Nat
           /\ Started => (Done = Validators <=> ~\E v \in Validators : Running(v))
<1>1. IsFiniteSet(Validators) /\ Done \subseteq Validators
    BY ValidatorsFinite, Zenon DEF BlobInv, JobsTyped, Done
<1>2. IsFiniteSet(Done) /\ Cardinality(Done) \in Nat
    BY <1>1, FS_Subset, FS_CardinalityType, Zenon
<1>3. \A v \in Validators : job[v].pc \in JobPcs
    BY Zenon DEF BlobInv, JobsTyped
<1>4. Started => (Done = Validators <=> ~\E v \in Validators : Running(v))
    BY <1>3, Zenon DEF Started, Done, Running, JobPcs
<1> QED BY <1>2, <1>4, Zenon

\* A step of one goroutine other than its last leaves the owners as they are.
LEMMA GoroutineStep ==
    ASSUME BlobInv, NEW v \in Validators, NEW pc \in {"send", "backoff", "answered", "finish"},
           NEW n \in Nat, Running(v), job' = [job EXCEPT ![v] = [pc |-> pc, tries |-> n]],
           UNCHANGED <<power, upload, responses, refCount, userReleased>>
    PROVE  JobsTyped' /\ Owners'
<1> USE DEF JobPcs
<1>1. /\ Validators' = Validators /\ job \in [Validators -> [pc : JobPcs, tries : Nat]]
      /\ job' \in [Validators -> [pc : JobPcs, tries : Nat]]
      /\ job'[v].pc = pc
      /\ \A w \in Validators \ {v} : job'[w] = job[w]
    BY Zenon DEF BlobInv, JobsTyped, Validators
<1>2. Started /\ upload # "idle"
    BY Zenon DEF BlobInv, JobsTyped, Owners, Unstarted, Started, Running
<1>3. Started' /\ ~Unstarted'
    BY <1>1, <1>2, Zenon DEF Started, Unstarted
<1>4. Done' = Done
    BY <1>1, Zenon DEF Done, Running
<1>5. (\E w \in Validators : Running(w)) /\ (\E w \in Validators : Running(w))'
    BY <1>1, Zenon DEF Running
<1>6. JobsTyped'
    BY <1>1, <1>2, Zenon DEF BlobInv, JobsTyped
<1>7. Owners'
    BY <1>2, <1>3, <1>4, <1>5, Zenon DEF BlobInv, Owners, One
<1> QED BY <1>6, <1>7, Zenon

\* The last step of a goroutine: the count drops when, and only when, it was the last.
LEMMA FinishStep ==
    ASSUME BlobInv, NEW v \in Validators, Finish(v)
    PROVE  JobsTyped' /\ Owners'
<1> USE DEF JobPcs
<1>1. /\ Validators' = Validators /\ job \in [Validators -> [pc : JobPcs, tries : Nat]]
      /\ job' = [job EXCEPT ![v].pc = "done"]
      /\ job[v].pc = "finish"
    BY Zenon DEF BlobInv, JobsTyped, Validators, Finish, To
<1>2. /\ job' \in [Validators -> [pc : JobPcs, tries : Nat]]
      /\ job'[v].pc = "done"
      /\ \A w \in Validators \ {v} : job'[w] = job[w]
    BY <1>1, Zenon
<1>3. Started /\ upload # "idle"
    BY <1>1, Zenon DEF BlobInv, JobsTyped, Owners, Unstarted, Started
<1>4. Started' /\ ~Unstarted'
    BY <1>1, <1>2, <1>3, Zenon DEF Started, Unstarted
<1>5. Done' = Done \cup {v} /\ v \notin Done
    BY <1>1, <1>2, Zenon DEF Done
<1>6. /\ IsFiniteSet(Done) /\ Cardinality(Done) \in Nat
      /\ Cardinality(Done') = Cardinality(Done) + 1
    BY <1>5, DoneCounts, FS_AddElement, Zenon
<1>7. responses = Cardinality(Done) /\ responses' = Cardinality(Done')
    BY <1>3, <1>6, Zenon DEF BlobInv, Owners, Finish
<1>8. responses' = Cardinality(Validators) <=> Done' = Validators
    <2>1. power \in PowerSets
        BY Zenon DEF BlobInv, JobsTyped
    <2>2. IsFiniteSet(Validators)
        BY <2>1, ValidatorsFinite, Zenon
    <2>3. Done' \in SUBSET Validators
        BY <1>5, Zenon DEF Done
    <2>4. Cardinality(Validators) = Cardinality(Done') => Validators = Done'
        BY <2>2, <2>3, FS_Subset, Zenon
    <2> QED BY <1>7, <2>4, Zenon
<1>9. Done' = Validators <=> ~(\E w \in Validators : Running(w))'
    BY <1>1, <1>2, <1>4, Zenon DEF Started, Done, Running
<1>10. JobsTyped'
    BY <1>1, <1>2, <1>3, Zenon DEF BlobInv, JobsTyped, Finish
<1>11. refCount = One(~userReleased) + One(upload = "waiting") + 1
    BY <1>1, <1>3, Zenon DEF BlobInv, Owners, One, Running
<1>12. refCount' = refCount - (IF Done' = Validators THEN 1 ELSE 0)
    BY <1>8, Zenon DEF Finish, Release
<1>13. refCount' = One(~userReleased) + One(upload = "waiting")
                     + One((\E w \in Validators : Running(w))')
    BY <1>9, <1>11, <1>12 DEF One
<1>14. UNCHANGED <<upload, userReleased>>
    BY Zenon DEF Finish
<1>15. Owners'
    BY <1>4, <1>7, <1>13, <1>14, Zenon DEF Owners, One
<1> QED BY <1>10, <1>15, Zenon

\* The goroutines of the fan-out.
LEMMA JobSteps ==
    ASSUME BlobInv, NEW v \in Validators, JobStep(v)
    PROVE  BlobInv'
<1>1. /\ job \in [Validators -> [pc : JobPcs, tries : Nat]] /\ job[v].tries \in Nat
      /\ Validators' = Validators
    BY Zenon DEF BlobInv, JobsTyped, JobStep, SendShard, Backoff, GiveUp, AddSignature, Finish,
           Validators
<1>2. RowsSeen'
    <2>1. UNCHANGED <<down, worker, seen, rows>>
        BY Zenon DEF JobStep, SendShard, Backoff, GiveUp, AddSignature, Finish, downloadVars
    <2> QED BY <1>1, <2>1, Zenon DEF BlobInv, RowsSeen, NoDownload
<1>3. ASSUME NEW pc, To(v, pc)
      PROVE  job' = [job EXCEPT ![v] = [pc |-> pc, tries |-> job[v].tries]]
    <2>1. [job[v] EXCEPT !.pc = pc] = [pc |-> pc, tries |-> job[v].tries]
        BY <1>1
    <2> QED BY <1>3, <2>1, Zenon DEF To
<1>4. CASE SendShard(v)
    <2>1. PICK pc \in {"answered", "finish", "backoff"} :
              /\ To(v, pc)
              /\ holders' \in {holders, holders \cup {v}}
              /\ pc = "answered" => holders' = holders \cup {v}
        BY <1>4, Zenon DEF SendShard
    <2>2. JobsTyped' /\ Owners'
        BY <1>1, <1>3, <1>4, <2>1, GoroutineStep DEF SendShard, Running, blobVars
    <2>3. SignersHold'
        BY <1>1, <1>3, <1>4, <2>1 DEF BlobInv, SignersHold, SendShard
    <2> QED BY <1>2, <2>2, <2>3, Zenon DEF BlobInv
<1>5. CASE Backoff(v)
    <2>1. PICK pc \in {"send", "finish"}, n \in Nat :
              job' = [job EXCEPT ![v] = [pc |-> pc, tries |-> n]]
        BY <1>1, <1>3, <1>5 DEF Backoff
    <2>2. JobsTyped' /\ Owners'
        BY <1>1, <1>5, <2>1, GoroutineStep, Zenon DEF Backoff, Running, blobVars
    <2>3. SignersHold'
        BY <1>1, <1>5, <2>1, Zenon DEF BlobInv, SignersHold, Backoff
    <2> QED BY <1>2, <2>2, <2>3, Zenon DEF BlobInv
<1>6. CASE GiveUp(v)
    <2>1. JobsTyped' /\ Owners'
        BY <1>1, <1>3, <1>6, GoroutineStep, Zenon DEF GiveUp, Running, blobVars
    <2>2. SignersHold'
        BY <1>1, <1>3, <1>6 DEF BlobInv, SignersHold, GiveUp
    <2> QED BY <1>2, <2>1, <2>2, Zenon DEF BlobInv
<1>7. CASE AddSignature(v)
    <2>1. JobsTyped' /\ Owners'
        BY <1>1, <1>3, <1>7, GoroutineStep DEF AddSignature, Running, blobVars
    <2>2. v \in holders /\ signers' \subseteq signers \cup {v} /\ UNCHANGED holders
        BY <1>7, Zenon DEF BlobInv, SignersHold, AddSignature
    <2>3. SignersHold'
        BY <1>1, <1>3, <1>7, <2>2, Zenon DEF BlobInv, SignersHold, AddSignature
    <2> QED BY <1>2, <2>1, <2>3, Zenon DEF BlobInv
<1>8. CASE Finish(v)
    <2>1. SignersHold'
        BY <1>1, <1>3, <1>8 DEF BlobInv, SignersHold, Finish
    <2> QED BY <1>2, <1>8, <2>1, FinishStep, Zenon DEF BlobInv
<1> QED BY <1>4, <1>5, <1>6, <1>7, <1>8, Zenon DEF JobStep

\* Upload itself and the blob's owner.
LEMMA CallerSteps ==
    ASSUME BlobInv, StartUpload \/ ReturnUpload \/ Cancel \/ Free
    PROVE  BlobInv'
<1>1. /\ power \in PowerSets /\ Validators' = Validators
      /\ job \in [Validators -> [pc : JobPcs, tries : Nat]]
    BY Zenon DEF BlobInv, JobsTyped, StartUpload, ReturnUpload, Cancel, Free, Validators
<1>2. Validators # {}
    BY <1>1, ValidatorsFinite, Zenon
<1>3. RowsSeen'
    BY <1>1, Zenon DEF BlobInv, RowsSeen, StartUpload, ReturnUpload, Cancel, Free, downloadVars
<1>4. ASSUME UNCHANGED job
      PROVE  /\ Done' = Done /\ Unstarted' = Unstarted /\ Started' = Started
             /\ (\E v \in Validators : Running(v))' = (\E v \in Validators : Running(v))
    BY <1>1, <1>4, Zenon DEF Done, Unstarted, Started, Running
<1>5. CASE StartUpload /\ refCount = 0
    BY <1>1, <1>3, <1>4, <1>5
    DEF StartUpload, BlobInv, JobsTyped, Owners, SignersHold, One
<1>6. CASE StartUpload /\ refCount # 0
    <2>1. /\ job' = [v \in Validators |-> [pc |-> "send", tries |-> 0]]
          /\ upload' = "waiting" /\ refCount' = refCount + 2 /\ upload = "idle"
          /\ UNCHANGED <<power, responses, signers, holders, userReleased>>
        BY <1>6, Zenon DEF StartUpload, Retain
    <2>2. Started' /\ ~Unstarted' /\ (\E v \in Validators : Running(v))' /\ Done' = {}
        BY <1>1, <1>2, <2>1, Zenon DEF Started, Unstarted, Running, Done
    <2>3. refCount = 1 /\ ~userReleased /\ responses = 0
        BY <1>6, <2>1, Zenon DEF BlobInv, JobsTyped, Owners, One
    <2>4. Owners'
        BY <2>1, <2>2, <2>3, FS_EmptySet DEF Owners, One
    <2>5. JobsTyped'
        BY <1>1, <2>1, Zenon DEF BlobInv, JobsTyped, JobPcs
    <2>6. SignersHold'
        BY <1>1, <2>1, Zenon DEF BlobInv, SignersHold
    <2> QED BY <1>3, <2>4, <2>5, <2>6, Zenon DEF BlobInv
<1>7. CASE ReturnUpload
    <2>1. /\ upload = "waiting" /\ upload' \in {"ok", "error"} /\ refCount' = refCount - 1
          /\ UNCHANGED <<power, job, responses, signers, holders, userReleased>>
        BY <1>7, Zenon DEF ReturnUpload, Release, jobVars
    <2>2. Started /\ ~Unstarted
        BY <2>1, Zenon DEF BlobInv, Owners
    <2>3. JobsTyped' /\ SignersHold'
        BY <1>1, <2>1, Zenon DEF BlobInv, JobsTyped, SignersHold
    <2>4. Owners'
        BY <1>4, <2>1, <2>2 DEF BlobInv, Owners, One
    <2> QED BY <1>3, <2>3, <2>4, Zenon DEF BlobInv
<1>8. CASE Cancel
    BY <1>1, <1>3, <1>4, <1>8
    DEF Cancel, BlobInv, JobsTyped, Owners, SignersHold, One, jobVars, blobVars
<1>9. CASE Free
    <2>1. /\ ~userReleased /\ userReleased' /\ refCount' = refCount - 1
          /\ userReleased' \in BOOLEAN
          /\ UNCHANGED <<power, upload, job, responses, signers, holders>>
        BY <1>9, Zenon DEF Free, Release, jobVars
    <2>2. JobsTyped' /\ SignersHold'
        BY <1>1, <1>4, <2>1, Zenon DEF BlobInv, JobsTyped, SignersHold
    <2>3. Owners'
        BY <1>4, <2>1 DEF BlobInv, Owners, One
    <2> QED BY <1>3, <2>2, <2>3, Zenon DEF BlobInv
<1> QED BY <1>5, <1>6, <1>7, <1>8, <1>9, Zenon

\* The download: its workers write rows they have counted, and the blob is not touched.
LEMMA DownloadSteps ==
    ASSUME BlobInv,
           StartDownload \/ MainStep \/ CancelDownload \/ \E v \in Validators : WorkerStep(v)
    PROVE  BlobInv'
<1>1. /\ power \in PowerSets /\ Validators' = Validators
      /\ job \in [Validators -> [pc : JobPcs, tries : Nat]]
    BY Zenon DEF BlobInv, JobsTyped, StartDownload, MainStep, Ready, Pick, Park, Blob,
           CancelDownload, WorkerStep, Fetch, StoreRows, ReleaseRows, SignalMain, Validators
<1>2. Validators # {}
    BY <1>1, ValidatorsFinite, Zenon
<1>3. CASE StartDownload
    <2>1. /\ upload = "ok" /\ refCount = 0 /\ job' = [v \in Validators |-> NoJob]
          /\ worker' = [v \in Validators |-> [pc |-> "none"]]
          /\ UNCHANGED <<power, upload, signers, holders, refCount, userReleased, seen, rows>>
        BY <1>3, Zenon DEF StartDownload, blobVars
    <2>2. Unstarted' /\ ~Started'
        BY <1>1, <1>2, <2>1, Zenon DEF Unstarted, Started, NoJob
    <2>3. userReleased
        BY <2>1 DEF BlobInv, JobsTyped, Owners, One
    <2>4. Owners'
        BY <2>1, <2>2, <2>3, Zenon DEF Owners, One
    <2>5. JobsTyped'
        BY <1>1, <2>1, Zenon DEF BlobInv, JobsTyped, NoJob, JobPcs
    <2>6. SignersHold'
        BY <1>1, <2>1, Zenon DEF BlobInv, SignersHold, NoJob
    <2>7. RowsSeen'
        BY <1>1, <2>1, Zenon DEF BlobInv, RowsSeen
    <2> QED BY <2>4, <2>5, <2>6, <2>7, Zenon DEF BlobInv
<1>4. CASE ~StartDownload
    <2>1. UNCHANGED <<power, upload, job, responses, signers, holders, refCount, userReleased>>
        BY <1>4, Zenon DEF MainStep, Ready, Pick, Park, Blob, CancelDownload, WorkerStep, Fetch,
                    StoreRows, ReleaseRows, SignalMain, uploadVars, jobVars, blobVars
    <2>2. JobsTyped' /\ SignersHold'
        BY <1>1, <2>1, Zenon DEF BlobInv, JobsTyped, SignersHold, Unstarted
    <2>3. Owners'
        BY <1>1, <2>1, Zenon DEF BlobInv, Owners, Unstarted, Started, Done, Running, One
    <2>4. down # NoDownload
        BY <1>4 DEF MainStep, Ready, Pick, Park, Blob, CancelDownload, WorkerStep, Fetch,
                    StoreRows, ReleaseRows, SignalMain, NoDownload
    <2>5. /\ worker = [v \in Validators |-> worker[v]] /\ rows \subseteq seen
          /\ \A v \in Validators : worker[v].pc = "store" => worker[v].novel \subseteq seen
        BY <2>4, Zenon DEF BlobInv, RowsSeen
    <2>6. CASE Ready \/ Park \/ Blob \/ CancelDownload
        <3>1. UNCHANGED <<worker, seen, rows>>
            BY <2>6, Zenon DEF Ready, Park, Blob, CancelDownload
        <3> QED BY <1>1, <2>2, <2>3, <2>5, <3>1, Zenon DEF BlobInv, RowsSeen
    <2>7. CASE Pick
        <3>1. /\ UNCHANGED <<seen, rows>>
              /\ worker' = worker
                   \/ \E w : worker' = [worker EXCEPT ![w] = [pc |-> "fetch"]]
            BY <2>7, Zenon DEF Pick
        <3>2. RowsSeen'
            BY <1>1, <2>5, <3>1 DEF RowsSeen
        <3> QED BY <2>2, <2>3, <3>2, Zenon DEF BlobInv
    <2>8. ASSUME NEW v \in Validators, Fetch(v) PROVE RowsSeen'
        <3>1. CASE v \in holders \ offline
            <4>1. /\ worker' = [worker EXCEPT ![v] = [pc |-> "store",
                                                      novel |-> Assign(v) \ seen]]
                  /\ seen' = seen \cup Assign(v) /\ rows' = rows
                BY <2>8, <3>1, Zenon DEF Fetch
            <4>2. worker' = [w \in Validators |-> worker'[w]]
                BY <2>5, <4>1, Zenon
            <4>3. ASSUME NEW w \in Validators, worker'[w].pc = "store"
                  PROVE  worker'[w].novel \subseteq seen'
                BY <2>5, <4>1, <4>3, Zenon
            <4> QED BY <1>1, <2>5, <4>1, <4>2, <4>3, Zenon DEF RowsSeen
        <3>2. CASE v \notin holders \ offline
            <4>1. /\ worker' = [worker EXCEPT ![v] = [pc |-> "release"]]
                  /\ UNCHANGED <<seen, rows>>
                BY <2>8, <3>2, Zenon DEF Fetch
            <4> QED BY <1>1, <2>5, <4>1, Zenon DEF RowsSeen
        <3> QED BY <3>1, <3>2, Zenon
    <2>9. ASSUME NEW v \in Validators, StoreRows(v) PROVE RowsSeen'
        BY <1>1, <2>5, <2>9, Zenon DEF RowsSeen, StoreRows
    <2>10. ASSUME NEW v \in Validators, ReleaseRows(v) \/ SignalMain(v) PROVE RowsSeen'
        <3>1. /\ UNCHANGED <<seen, rows>>
              /\ \E pc \in {"signal", "done"} : worker' = [worker EXCEPT ![v] = [pc |-> pc]]
            BY <2>10, Zenon DEF ReleaseRows, SignalMain
        <3> QED BY <1>1, <2>5, <3>1, SMTT(30) DEF RowsSeen
    <2> QED BY <1>4, <2>2, <2>3, <2>6, <2>7, <2>8, <2>9, <2>10, Zenon
               DEF BlobInv, MainStep, WorkerStep
<1> QED BY <1>3, <1>4, Zenon

\* Every step preserves the invariant.
LEMMA BlobStep == BlobInv /\ [Next]_vars => BlobInv'
<1> SUFFICES ASSUME BlobInv, [Next]_vars PROVE BlobInv'
    BY Zenon
<1>1. CASE Next
    BY <1>1, JobSteps, CallerSteps, DownloadSteps, Zenon DEF Next
<1>2. CASE UNCHANGED vars
    <2>1. /\ UNCHANGED <<power, upload, job, responses, signers, holders, refCount>>
          /\ UNCHANGED <<userReleased, down, worker, seen, rows>>
          /\ Validators' = Validators
        BY <1>2, Zenon DEF vars, uploadVars, jobVars, blobVars, downloadVars, Validators
    <2>2. JobsTyped' /\ SignersHold'
        BY <2>1, Zenon DEF BlobInv, JobsTyped, SignersHold, Unstarted
    <2>3. Owners'
        BY <2>1, Zenon DEF BlobInv, Owners, Unstarted, Started, Done, Running, One
    <2>4. RowsSeen'
        BY <2>1, Zenon DEF BlobInv, RowsSeen, NoDownload
    <2> QED BY <2>2, <2>3, <2>4, Zenon DEF BlobInv
<1> QED BY <1>1, <1>2, Zenon

\* For every validator set and every interleaving of the fan-out, the caller and Upload:
\* the pooled rows are never returned while a goroutine of uploadShards may read them, and
\* they are returned once Upload has, the caller has freed the blob and the last goroutine
\* has ended (Blob.retain, Blob.release, Upload, uploadShards).
THEOREM RowsOutliveReaders == Spec => []BlobLifetime
<1>1. BlobInv => BlobLifetime
    <2> SUFFICES ASSUME BlobInv PROVE BlobLifetime
        BY Zenon
    <2>1. (\E v \in Validators : Running(v)) => Started
        BY Zenon DEF BlobInv, Owners, Unstarted, Running
    <2>2. Unstarted => ~\E v \in Validators : Running(v)
        BY Zenon DEF Unstarted, Running
    <2>3. refCount \in 0..3
        BY DEF BlobInv, Owners, One
    <2>4. TransferTypeOK
        BY <2>3, Zenon DEF BlobInv, JobsTyped, SignersHold, RowsSeen, TransferTypeOK
    <2>5. (\E v \in Validators : Running(v)) => refCount > 0
        BY <2>1 DEF BlobInv, Owners, One
    <2>6. (/\ upload \in {"ok", "error"} /\ userReleased
           /\ \A v \in Validators : ~Running(v)) => refCount = 0
        BY DEF BlobInv, Owners, One
    <2> QED BY <2>4, <2>5, <2>6, Zenon DEF BlobLifetime
<1> QED BY <1>1, BlobInit, BlobStep, PTL DEF Spec

-----------------------------------------------------------------------------
(* Row assignment                                                          *)

\* Voting powers are positive, and so is their total.
LEMMA PowersPositive ==
    ASSUME power \in PowerSets
    PROVE  /\ \A v \in Validators : power[v] \in Nat \ {0}
           /\ TotalVotingPower \in Nat \ {0}
           /\ \A V \in SUBSET Validators : IsFiniteSet(V) /\ Power(V) \in Nat
<1>1. /\ IsFiniteSet(Validators) /\ 1 \in Validators
      /\ \A v \in Validators : power[v] \in Nat \ {0}
    BY ValidatorsFinite, TransferAssumption
<1>2. ASSUME NEW V \in SUBSET Validators PROVE IsFiniteSet(V) /\ Power(V) \in Nat
    <2>1. IsFiniteSet(V) /\ \A v \in V : power[v] \in Nat
        BY <1>1, FS_Subset, Zenon
    <2> QED BY <2>1, SumNat, Zenon DEF Power
<1>3. TotalVotingPower = power[1] + Power(Validators \ {1})
    <2>1. \A v \in Validators : power[v] \in Int
        BY <1>1
    <2> QED BY <1>1, <2>1, SumRemove DEF TotalVotingPower, Power
<1>4. Validators \ {1} \in SUBSET Validators
    BY Zenon
<1>5. TotalVotingPower \in Nat \ {0}
    BY <1>1, <1>2, <1>3, <1>4
<1> QED BY <1>1, <1>2, <1>5, Zenon

\* Division rounded up.
LEMMA CeilDivBounds ==
    ASSUME NEW a \in Nat, NEW b \in Nat \ {0}
    PROVE  CeilDiv(a, b) \in Nat /\ a <= b * CeilDiv(a, b) /\ b * CeilDiv(a, b) <= a + b - 1
<1> DEFINE n == a + b - 1
           q == n \div b
<1>1. n \in Nat
    OBVIOUS
<1>2. q \in Int /\ n = b * q + (n % b) /\ n % b \in 0..(b - 1)
    BY <1>1
<1> HIDE DEF q, n
<1>3. q >= 0
    <2> SUFFICES ASSUME q <= -1 PROVE FALSE
        BY <1>2
    <2>1. b * q <= b * (-1)
        BY <1>2
    <2> QED BY <1>1, <1>2, <2>1
<1>4. n = a + b - 1 /\ CeilDiv(a, b) = q
    BY Zenon DEF n, q, CeilDiv
<1> QED BY <1>2, <1>3, <1>4

\* A validator gets between one row and enough to rebuild the blob; if it gets fewer, they
\* are its share of three times that; and rounding gives it at most one row more than its
\* stake, raised to the floor, stands for.
LEMMA RowsBounds ==
    ASSUME power \in PowerSets, NEW v \in Validators
    PROVE  /\ AssignedRows(v) \in 1..OriginalRows
           /\ \/ AssignedRows(v) = OriginalRows
              \/ 3 * OriginalRows * power[v] <= TotalVotingPower * AssignedRows(v)
           /\ TotalVotingPower * AssignedRows(v)
                <= 3 * OriginalRows * AtLeast(power[v], minStake) + (TotalVotingPower - 1)
           /\ minStake \in Nat
           /\ MinRows * TotalVotingPower <= 3 * OriginalRows * minStake
<1> DEFINE T == TotalVotingPower
           O == OriginalRows
           M == MinRows
           p == power[v]
           c == CeilDiv(3 * O * p, T)
           m == minStake
<1>1. T \in Nat \ {0} /\ O \in Nat \ {0} /\ M \in Nat \ {0} /\ p \in Nat \ {0}
    BY PowersPositive, TransferAssumption, Zenon
<1> HIDE DEF T, O, M, p
<1>2. 3 * O * p \in Nat /\ M * T \in Nat /\ 3 * O \in Nat \ {0}
    BY <1>1
<1>3. c \in Nat /\ 3 * O * p <= T * c /\ T * c <= 3 * O * p + T - 1
    BY <1>1, <1>2, CeilDivBounds, Zenon
<1>4. m \in Nat /\ M * T <= 3 * O * m
    <2>1. minStake = CeilDiv(M * T, 3 * O)
        BY Zenon DEF minStake, M, T, O
    <2> QED BY <1>2, <2>1, CeilDivBounds, Zenon
<1> HIDE DEF c, m
<1>5. AssignedRows(v) = AtMost(AtLeast(c, M), O)
    BY Zenon DEF AssignedRows, c, M, O, T, p
<1>6. AssignedRows(v) \in 1..O
    <2>1. c # 0
        <3>1. 3 * O * p > 0
            BY <1>1
        <3> QED BY <1>1, <1>2, <1>3, <3>1
    <2> QED BY <1>1, <1>3, <1>5, <2>1 DEF AtMost, AtLeast
<1>7. AssignedRows(v) = O \/ 3 * O * p <= T * AssignedRows(v)
    <2> SUFFICES ASSUME AssignedRows(v) # O PROVE 3 * O * p <= T * AssignedRows(v)
        BY Zenon
    <2>1. c <= AssignedRows(v) /\ AssignedRows(v) \in Nat
        BY <1>1, <1>3, <1>5 DEF AtMost, AtLeast
    <2>2. T * c <= T * AssignedRows(v)
        BY <1>1, <1>3, <2>1
    <2> QED BY <1>1, <1>2, <1>3, <2>1, <2>2
<1>8. T * AssignedRows(v) <= 3 * O * AtLeast(p, m) + (T - 1)
    <2> DEFINE s == AtLeast(p, m)
    <2>1. s \in Nat /\ p <= s /\ m <= s
        BY <1>1, <1>4 DEF AtLeast
    <2> HIDE DEF s
    <2>2. 3 * O * p <= 3 * O * s /\ 3 * O * m <= 3 * O * s /\ 3 * O * s \in Nat
        BY <1>1, <1>4, <2>1
    <2>3. AssignedRows(v) <= c \/ AssignedRows(v) <= M
        BY <1>1, <1>3, <1>5 DEF AtMost, AtLeast
    <2>4. CASE AssignedRows(v) <= c
        <3>1. T * AssignedRows(v) <= T * c
            BY <1>1, <1>3, <1>6, <2>4
        <3>2. T * AssignedRows(v) \in Nat /\ T * c \in Nat
            BY <1>1, <1>3, <1>6
        <3> QED BY <1>1, <1>2, <1>3, <2>2, <3>1, <3>2 DEF s
    <2>5. CASE AssignedRows(v) <= M
        <3>1. T * AssignedRows(v) <= M * T
            BY <1>1, <1>6, <2>5
        <3>2. T * AssignedRows(v) \in Nat /\ 3 * O * m \in Nat
            BY <1>1, <1>4, <1>6
        <3> QED BY <1>1, <1>2, <1>4, <2>2, <3>1, <3>2 DEF s
    <2> QED BY <2>3, <2>4, <2>5, Zenon
<1> QED BY <1>4, <1>6, <1>7, <1>8, Zenon DEF T, O, M, p, m

\* What a set of validators is assigned.
LEMMA AssignedToNat ==
    ASSUME power \in PowerSets, NEW V \in SUBSET Validators
    PROVE  /\ IsFiniteSet(V) /\ AssignedTo(V) \in Nat
           /\ \A v \in V : AssignedTo(V) = AssignedRows(v) + AssignedTo(V \ {v})
           /\ \A W \in SUBSET V : AssignedTo(W) <= AssignedTo(V)
<1>1. /\ IsFiniteSet(V)
      /\ \A v \in V : rowsPerValidator[v] = AssignedRows(v) /\ AssignedRows(v) \in Nat
    BY PowersPositive, RowsBounds DEF rowsPerValidator
<1>2. \A v \in V : rowsPerValidator[v] \in Nat /\ rowsPerValidator[v] \in Int
    BY <1>1
<1> QED BY <1>1, <1>2, SumNat, SumRemove, SumMonotone DEF AssignedTo

\* The rows of a validator start where those of the ones before it end.
LEMMA OffsetBounds ==
    ASSUME power \in PowerSets, NEW v \in Validators
    PROVE  /\ Offset(v) \in Nat
           /\ Offset(v) + AssignedRows(v) = AssignedTo(1..v)
           /\ \A w \in Validators : v < w => Offset(v) + AssignedRows(v) <= Offset(w)
<1>1. Validators = 1..Len(power) /\ Len(power) \in Nat
    BY ValidatorsFinite, TransferAssumption, Zenon
<1>2. 1..v \in SUBSET Validators /\ 1..(v - 1) \in SUBSET Validators /\ v \in 1..v
      /\ (1..v) \ {v} = 1..(v - 1)
    BY <1>1
<1>3. Offset(v) \in Nat
    BY <1>2, AssignedToNat, Zenon DEF Offset
<1>4. AssignedTo(1..v) = AssignedRows(v) + AssignedTo(1..(v - 1))
    BY <1>2, AssignedToNat, Zenon
<1>5. AssignedRows(v) \in Nat
    BY RowsBounds
<1>6. Offset(v) + AssignedRows(v) = AssignedTo(1..v)
    BY <1>3, <1>4, <1>5 DEF Offset
<1>7. ASSUME NEW w \in Validators, v < w PROVE AssignedTo(1..v) <= Offset(w)
    <2>1. 1..(w - 1) \in SUBSET Validators /\ 1..v \in SUBSET (1..(w - 1))
        BY <1>1, <1>7
    <2> QED BY <2>1, AssignedToNat, Zenon DEF Offset
<1> QED BY <1>3, <1>6, <1>7, Zenon

Unwrapped(v) == AssignedTo(1..v) <= TotalRows

\* Without wrapping a validator gets an interval of the shuffled rows.
LEMMA UnwrappedInterval ==
    ASSUME power \in PowerSets, NEW v \in Validators, Unwrapped(v)
    PROVE  /\ Assign(v) = Offset(v)..(Offset(v) + AssignedRows(v) - 1)
           /\ IsFiniteSet(Assign(v)) /\ Cardinality(Assign(v)) = AssignedRows(v)
<1> DEFINE a == Offset(v)
           n == AssignedRows(v)
<1>1. a \in Nat /\ n \in Nat \ {0} /\ a + n <= TotalRows /\ TotalRows \in Nat \ {0}
    <2>1. AssignedRows(v) \in 1..OriginalRows /\ OriginalRows \in Nat
        BY RowsBounds, TransferAssumption, Zenon
    <2> QED BY <2>1, OffsetBounds, TransferAssumption DEF Unwrapped
<1>2. Assign(v) = {(a + j) % TotalRows : j \in 0..(n - 1)}
    BY Zenon DEF Assign
<1> HIDE DEF a, n
<1>3. \A j \in 0..(n - 1) : (a + j) % TotalRows = a + j
    <2> SUFFICES ASSUME NEW j \in 0..(n - 1) PROVE (a + j) % TotalRows = a + j
        BY Zenon
    <2>1. a + j \in Nat /\ a + j < TotalRows
        BY <1>1
    <2> QED BY <1>1, <2>1
<1>4. Assign(v) = {a + j : j \in 0..(n - 1)}
    BY <1>2, <1>3, Zenon
<1>5. {a + j : j \in 0..(n - 1)} = a..(a + n - 1)
    <2>1. ASSUME NEW x \in a..(a + n - 1) PROVE x \in {a + j : j \in 0..(n - 1)}
        <3>1. x - a \in 0..(n - 1) /\ x = a + (x - a)
            BY <1>1
        <3> QED BY <3>1, Zenon
    <2>2. \A j \in 0..(n - 1) : a + j \in a..(a + n - 1)
        BY <1>1
    <2> QED BY <2>1, <2>2, Zenon
<1>6. IsFiniteSet(a..(a + n - 1)) /\ Cardinality(a..(a + n - 1)) = n
    <2>1. a \in Int /\ a + n - 1 \in Int /\ ~(a > a + n - 1) /\ (a + n - 1) - a + 1 = n
        BY <1>1
    <2> QED BY <2>1, FS_Interval, Zenon
<1> QED BY <1>4, <1>5, <1>6, Zenon DEF a, n

\* Two validators whose rows do not wrap share none.
LEMMA UnwrappedDisjoint ==
    ASSUME power \in PowerSets, NEW v \in Validators, NEW w \in Validators, v # w,
           Unwrapped(v), Unwrapped(w)
    PROVE  Assign(v) \cap Assign(w) = {}
<1>1. /\ Assign(v) = Offset(v)..(Offset(v) + AssignedRows(v) - 1)
      /\ Assign(w) = Offset(w)..(Offset(w) + AssignedRows(w) - 1)
    BY UnwrappedInterval, Zenon
<1>2. /\ Offset(v) \in Nat /\ Offset(w) \in Nat
      /\ AssignedRows(v) \in Nat /\ AssignedRows(w) \in Nat
    BY OffsetBounds, RowsBounds
<1>3. v \in Nat /\ w \in Nat
    BY ValidatorsFinite
<1>4. \/ Offset(v) + AssignedRows(v) <= Offset(w)
      \/ Offset(w) + AssignedRows(w) <= Offset(v)
    <2>1. v < w \/ w < v
        BY <1>3
    <2> QED BY <2>1, OffsetBounds, Zenon
<1> QED BY <1>1, <1>2, <1>4

\* So validators whose rows do not wrap hold as many different rows as they are assigned.
LEMMA UnwrappedCount ==
    ASSUME power \in PowerSets, NEW V \in SUBSET Validators, \A v \in V : Unwrapped(v)
    PROVE  IsFiniteSet(AssignAll(V)) /\ Cardinality(AssignAll(V)) = AssignedTo(V)
<1> DEFINE T == {s \in SUBSET V : IsFiniteSet(AssignAll(s)) /\ Cardinality(AssignAll(s)) = AssignedTo(s)}
<1>1. ASSUME NEW s \in SUBSET V, \A r \in SUBSET s : r # s => r \in T
      PROVE  s \in T
    <2>1. CASE s = {}
        <3>1. AssignAll(s) = {}
            BY <2>1, Zenon DEF AssignAll
        <3>2. AssignedTo(s) = 0
            BY <2>1, SumEmpty, Zenon DEF AssignedTo
        <3> QED BY <3>1, <3>2, FS_EmptySet, Zenon
    <2>2. CASE s # {}
        <3>1. PICK x \in s : TRUE
            BY <2>2, Zenon
        <3> DEFINE r == s \ {x}
        <3>2. r \in SUBSET s /\ r # s /\ x \in Validators /\ s \in SUBSET Validators
              /\ r \in SUBSET Validators
            BY <3>1, Zenon
        <3>3. IsFiniteSet(AssignAll(r)) /\ Cardinality(AssignAll(r)) = AssignedTo(r)
            BY <1>1, <3>2, Zenon
        <3>4. IsFiniteSet(Assign(x)) /\ Cardinality(Assign(x)) = AssignedRows(x)
            BY <3>1, <3>2, UnwrappedInterval, Zenon
        <3>5. AssignAll(s) = AssignAll(r) \cup Assign(x)
            BY <3>1, Zenon DEF AssignAll
        <3>6. AssignAll(r) \cap Assign(x) = {}
            <4>1. ASSUME NEW y \in r PROVE Assign(y) \cap Assign(x) = {}
                BY <3>1, <3>2, UnwrappedDisjoint, Zenon
            <4> QED BY <4>1, Zenon DEF AssignAll
        <3>7. AssignedTo(s) = AssignedRows(x) + AssignedTo(r)
            BY <3>1, <3>2, AssignedToNat, Zenon
        <3>8. AssignedTo(r) \in Nat /\ AssignedRows(x) \in Nat
            BY <3>2, AssignedToNat, RowsBounds
        <3> HIDE DEF r
        <3>9. /\ IsFiniteSet(AssignAll(r) \cup Assign(x))
              /\ Cardinality(AssignAll(r) \cup Assign(x)) = AssignedTo(r) + AssignedRows(x) - 0
            BY <3>3, <3>4, <3>6, FS_Union, FS_EmptySet
        <3>10. IsFiniteSet(AssignAll(s)) /\ Cardinality(AssignAll(s)) = AssignedTo(s)
            BY <3>5, <3>7, <3>8, <3>9
        <3> QED BY <3>10, Zenon
    <2> QED BY <2>1, <2>2, Zenon
<1>2. IsFiniteSet(V)
    BY AssignedToNat, Zenon
<1>3. SUBSET V \subseteq T
    <2> HIDE DEF T
    <2> QED BY <1>1, <1>2, SmallerSubsets, Zenon
<1> QED BY <1>3, Zenon

\* A third of the power is assigned enough different rows when nothing wraps.
LEMMA ThirdHasRows == power \in PowerSets /\ ~Wraps => ThirdReconstructs
<1> SUFFICES ASSUME power \in PowerSets, ~Wraps, NEW V \in SUBSET Validators,
                    3 * Power(V) >= TotalVotingPower
             PROVE  Cardinality(AssignAll(V)) >= OriginalRows
    BY Zenon DEF ThirdReconstructs
<1>1. ASSUME NEW v \in V PROVE Unwrapped(v)
    <2>1. 1..v \in SUBSET Validators
        BY ValidatorsFinite
    <2>2. Validators \in SUBSET Validators
        BY Zenon
    <2>3. AssignedTo(1..v) <= AssignedTo(Validators) /\ AssignedTo(1..v) \in Nat
          /\ AssignedTo(Validators) \in Nat
        BY <2>1, <2>2, AssignedToNat, Zenon
    <2> QED BY <2>3, TransferAssumption DEF Wraps, Unwrapped
<1>2. Cardinality(AssignAll(V)) = AssignedTo(V)
    BY <1>1, UnwrappedCount, Zenon
<1>3. AssignedTo(V) \in Nat /\ OriginalRows \in Nat
    BY AssignedToNat, TransferAssumption, Zenon
<1>4. CASE \E v \in V : AssignedRows(v) = OriginalRows
    <2>1. PICK v \in V : AssignedRows(v) = OriginalRows
        BY <1>4, Zenon
    <2>2. V \ {v} \in SUBSET Validators
        BY Zenon
    <2>3. AssignedTo(V) = AssignedRows(v) + AssignedTo(V \ {v}) /\ AssignedTo(V \ {v}) \in Nat
        BY <2>2, AssignedToNat, Zenon
    <2> QED BY <1>2, <1>3, <2>1, <2>3
<1>5. CASE ~\E v \in V : AssignedRows(v) = OriginalRows
    <2> DEFINE T == TotalVotingPower
               O == OriginalRows
               P == Power(V)
               A == AssignedTo(V)
               a == 3 * O
    <2>1. \A v \in V : /\ power[v] \in Int /\ rowsPerValidator[v] \in Int
                       /\ a * power[v] <= T * rowsPerValidator[v] + 0
        <3> SUFFICES ASSUME NEW v \in V
                     PROVE  /\ power[v] \in Int /\ rowsPerValidator[v] \in Int
                            /\ a * power[v] <= T * rowsPerValidator[v] + 0
            BY Zenon
        <3>1. /\ power[v] \in Nat /\ T \in Nat /\ AssignedRows(v) \in Nat
              /\ a * power[v] <= T * AssignedRows(v)
            BY <1>5, PowersPositive, RowsBounds
        <3>2. rowsPerValidator[v] = AssignedRows(v)
            BY Zenon DEF rowsPerValidator
        <3> HIDE DEF T, a
        <3> QED BY <3>1, <3>2
    <2>2. T \in Nat \ {0} /\ O \in Nat \ {0} /\ P \in Nat /\ A \in Nat /\ IsFiniteSet(V)
        BY <1>3, PowersPositive, TransferAssumption, Zenon
    <2>3. a \in Int /\ T \in Int /\ 0 \in Int /\ Cardinality(V) \in Nat
        BY <2>2, FS_CardinalityType
    <2>5. 3 * P >= T
        BY Zenon
    <2> HIDE DEF T, a
    <2>4. (3 * O) * P <= T * A + 0 * Cardinality(V)
        <3>1. a * SumFunctionOnSet(power, V)
                <= T * SumFunctionOnSet(rowsPerValidator, V) + 0 * Cardinality(V)
            BY <2>1, <2>2, <2>3, SumCompare, Zenon
        <3> QED BY <3>1, Zenon DEF AssignedTo, Power, a
    <2> HIDE DEF O, P, A
    <2>6. (3 * O) * P <= T * A
        BY <2>2, <2>3, <2>4
    <2>7. O * T <= O * (3 * P) /\ O * (3 * P) = (3 * O) * P
        BY <2>2, <2>5
    <2>8. O * T <= T * A
        BY <2>2, <2>6, <2>7
    <2>9. O <= A
        BY <2>2, <2>8
    <2> QED BY <1>2, <2>9, Zenon DEF O, A
<1> QED BY <1>4, <1>5, Zenon

\* The rows beyond the three times OriginalRows that are shared out make room for rounding
\* one up for each of the validators that fit above the floor: 12288 + 83 of 16384.
RoundingFits == 3 * OriginalRows + (3 * OriginalRows) \div MinRows <= TotalRows

\* The validators that Select puts first do not wrap.
LEMMA SplitUnwrapped ==
    ASSUME RoundingFits, power \in PowerSets, NEW v \in BeforeSplit
    PROVE  Unwrapped(v)
<1> DEFINE T == TotalVotingPower
           O == OriginalRows
           M == MinRows
           m == minStake
           S == 1..v
           A == AssignedTo(S)
           F == SumFunctionOnSet(flooredStake, S)
           zero == [w \in S |-> 0]
<1>1. v \in Validators /\ F <= T
    BY Zenon DEF BeforeSplit
<1>2. S \in SUBSET Validators /\ v \in Nat \ {0}
    BY <1>1, ValidatorsFinite
<1>3. T \in Nat \ {0} /\ O \in Nat \ {0} /\ M \in Nat \ {0} /\ A \in Nat /\ IsFiniteSet(S)
      /\ m \in Nat /\ M * T <= 3 * O * m
    BY <1>1, <1>2, PowersPositive, AssignedToNat, RowsBounds, TransferAssumption, Zenon
<1>4. Cardinality(S) = v
    BY <1>2, FS_Interval
<1>5. \A w \in S : /\ rowsPerValidator[w] \in Int /\ flooredStake[w] \in Int
                   /\ T * rowsPerValidator[w] <= (3 * O) * flooredStake[w] + (T - 1)
                   /\ zero[w] \in Int /\ 1 * zero[w] <= 1 * flooredStake[w] + (-m)
                   /\ flooredStake[w] \in Nat
    <2> SUFFICES ASSUME NEW w \in S
                 PROVE  /\ rowsPerValidator[w] \in Int /\ flooredStake[w] \in Int
                        /\ T * rowsPerValidator[w] <= (3 * O) * flooredStake[w] + (T - 1)
                        /\ zero[w] \in Int /\ 1 * zero[w] <= 1 * flooredStake[w] + (-m)
                        /\ flooredStake[w] \in Nat
        BY Zenon
    <2>1. /\ w \in Validators /\ AssignedRows(w) \in 1..OriginalRows
          /\ rowsPerValidator[w] = AssignedRows(w)
          /\ flooredStake[w] = AtLeast(power[w], m)
          /\ T * AssignedRows(w) <= 3 * O * AtLeast(power[w], m) + (T - 1)
        BY <1>2, RowsBounds, Zenon DEF rowsPerValidator, flooredStake
    <2>2. power[w] \in Nat
        BY <2>1, PowersPositive, Zenon
    <2>3. AtLeast(power[w], m) \in Nat /\ m <= AtLeast(power[w], m)
        BY <1>3, <2>2 DEF AtLeast
    <2>4. zero[w] = 0
        BY Zenon
    <2> QED BY <1>3, <2>1, <2>3, <2>4
<1>6. F \in Nat
    BY <1>3, <1>5, SumNat, Zenon
<1>7. T * A <= (3 * O) * F + (T - 1) * v
    <2>1. 3 * O \in Int /\ T - 1 \in Int /\ T \in Int
        BY <1>3
    <2> HIDE DEF T, O, zero, F
    <2>2. T * SumFunctionOnSet(rowsPerValidator, S)
            <= (3 * O) * SumFunctionOnSet(flooredStake, S) + (T - 1) * Cardinality(S)
        BY <1>3, <1>5, <2>1, SumCompare, Zenon
    <2> QED BY <1>4, <2>2, Zenon DEF AssignedTo, F
<1>8. 0 <= F + (-m) * v
    <2> HIDE DEF zero, m, F
    <2> DEFINE c == -m
    <2>0. c \in Int /\ 1 \in Int /\ \A w \in S : /\ zero[w] \in Int /\ flooredStake[w] \in Int
                                             /\ 1 * zero[w] <= 1 * flooredStake[w] + c
        BY <1>3, <1>5
    <2> HIDE DEF c
    <2>9. 1 * SumFunctionOnSet(zero, S) <= 1 * SumFunctionOnSet(flooredStake, S) + c * Cardinality(S)
        BY <1>3, <2>0, SumCompare, Zenon
    <2>1. 1 * SumFunctionOnSet(zero, S) <= 1 * SumFunctionOnSet(flooredStake, S) + (-m) * Cardinality(S)
        BY <2>9, Zenon DEF c
    <2>2. SumFunctionOnSet(zero, S) = 0
        BY <1>3, SumZero, Zenon DEF zero
    <2>3. SumFunctionOnSet(flooredStake, S) = F
        BY Zenon DEF F
    <2> QED BY <1>2, <1>3, <1>4, <1>6, <2>1, <2>2, <2>3, SMTT(30)
<1> HIDE DEF T, O, M, m, S, A, F, zero
<1>9. v * M <= 3 * O
    <2>1. m * v <= T
        BY <1>1, <1>2, <1>3, <1>6, <1>8
    <2>2. (M * T) * v <= (3 * O * m) * v /\ (3 * O * m) * v = (3 * O) * (m * v)
        BY <1>2, <1>3
    <2>3. (3 * O) * (m * v) <= (3 * O) * T
        BY <1>2, <1>3, <2>1
    <2>4. (M * T) * v = T * (v * M) /\ (3 * O) * T = T * (3 * O)
        BY <1>2, <1>3
    <2>5. T * (v * M) <= T * (3 * O)
        BY <1>2, <1>3, <2>2, <2>3, <2>4
    <2> QED BY <1>2, <1>3, <2>5
<1>10. v <= (3 * O) \div M
    BY <1>2, <1>3, <1>9
<1>11. A <= 3 * O + v
    <2>1. (3 * O) * F <= (3 * O) * T
        BY <1>1, <1>3, <1>6
    <2>2. (T - 1) * v <= T * v
        BY <1>2, <1>3
    <2>3. T * A <= T * (3 * O + v)
        BY <1>2, <1>3, <1>6, <1>7, <2>1, <2>2
    <2> QED BY <1>2, <1>3, <2>3
<1>12. A <= TotalRows
    <2>1. 3 * O + (3 * O) \div M <= TotalRows
        BY Zenon DEF RoundingFits, O, M
    <2> DEFINE k == (3 * O) \div M
    <2>2. k \in Int
        BY <1>3
    <2>3. v <= k /\ 3 * O + k <= TotalRows
        BY <1>10, <2>1, Zenon
    <2>4. TotalRows \in Int
        BY TransferAssumption
    <2> HIDE DEF k
    <2> QED BY <1>2, <1>3, <1>11, <2>2, <2>3, <2>4
<1> QED BY <1>12, Zenon DEF A, S, Unwrapped

-----------------------------------------------------------------------------
(* The download                                                            *)

DownPcs == {"loop", "pick", "park", "blob"} \cup DownloadResults
WorkerPcs == {"none", "fetch", "store", "release", "signal", "done"}

\* A selection lists every validator once, with the rows to expect from it.
OrderOK(order) ==
    /\ order = [i \in Validators |-> order[i]]
    /\ \A i \in Validators : /\ order[i].val \in Validators
                             /\ order[i].ExpectedRows = AssignedRows(order[i].val)
    /\ \A i, j \in Validators : order[i].val = order[j].val => i = j
    /\ \A v \in Validators : \E i \in Validators : order[i].val = v

SessionOK ==
    /\ upload = "ok" /\ Unstarted
    /\ down = [pc |-> down.pc, order |-> down.order, cursor |-> down.cursor,
               inflight |-> down.inflight, token |-> down.token, cancelled |-> down.cancelled]
    /\ down.pc \in DownPcs /\ down.cancelled \in BOOLEAN
    /\ OrderOK(down.order) /\ down.cursor \in 1..(Len(power) + 1)

\* The validators before the cursor have a worker.
Before(v, c) == \E i \in 1..(c - 1) : down.order[i].val = v
WorkersOK ==
    /\ worker = [v \in Validators |-> worker[v]]
    /\ \A v \in Validators : /\ worker[v].pc \in WorkerPcs
                             /\ worker[v].pc # "none" <=> Before(v, down.cursor)

\* The in-flight count is what the workers that have not returned theirs reserved.
Reserved == {v \in Validators : worker[v].pc \in {"fetch", "store", "release"}}
InflightExact == down.inflight = AssignedTo(Reserved)

\* A counted row is in the buffer or about to be written by one worker, and a validator
\* that answered has had its rows counted.
RowsCounted ==
    /\ seen \subseteq 0..(TotalRows - 1)
    /\ \A r \in seen : \/ r \in rows
                       \/ \E v \in Validators : worker[v].pc = "store" /\ r \in worker[v].novel
    /\ \A v \in Validators : v \in holders \ offline /\ worker[v].pc \notin {"none", "fetch"}
                               => Assign(v) \subseteq seen

\* The session leaves its loop with nothing in flight and no reason to ask on, or cancelled.
LoopDone ==
    down.pc = "blob" /\ ~down.cancelled =>
        down.inflight = 0 /\ (Want = 0 \/ down.cursor > Len(power))

Session == SessionOK /\ WorkersOK /\ InflightExact /\ RowsCounted /\ LoopDone

\* The inductive invariant behind Retrievable.
DownloadInv ==
    /\ Retrievable
    /\ down = NoDownload => seen = {} /\ rows = {}
    /\ down # NoDownload => Session

\* With the voting powers, everything computed from them stays.
LEMMA SameSet ==
    ASSUME power' = power
    PROVE  /\ Validators' = Validators /\ Wraps' = Wraps
           /\ TotalVotingPower' = TotalVotingPower
           /\ rowsPerValidator' = rowsPerValidator
           /\ \A v : AssignedRows(v)' = AssignedRows(v) 
           /\ \A v : Assign(v)' = Assign(v)
           /\ \A V : Power(V)' = Power(V) /\ AssignedTo(V)' = AssignedTo(V)
           /\ \A V : AssignAll(V)' = AssignAll(V)
           /\ BeforeSplit' = BeforeSplit
<1>1. Validators' = Validators
    BY Zenon DEF Validators
<1>2. \A V : Power(V)' = Power(V)
    BY Zenon DEF Power
<1>3. TotalVotingPower' = TotalVotingPower
    BY <1>1, <1>2, Zenon DEF TotalVotingPower, Power
<1>4. \A v : AssignedRows(v)' = AssignedRows(v) 
    BY <1>3, Zenon DEF AssignedRows
<1>5. rowsPerValidator' = rowsPerValidator
    BY <1>1, <1>4, Zenon DEF rowsPerValidator
<1>6. \A V : AssignedTo(V)' = AssignedTo(V)
    BY <1>5, Zenon DEF AssignedTo
<1>7. \A v : Assign(v)' = Assign(v)
    BY <1>4, <1>6, Zenon DEF Assign, Offset
<1>8. \A V : AssignAll(V)' = AssignAll(V)
    BY <1>7, Zenon DEF AssignAll
<1>9. Wraps' = Wraps
    BY <1>1, <1>6, Zenon DEF Wraps, AssignedTo
<1>10. BeforeSplit' = BeforeSplit
    <2>1. minStake' = minStake
        BY <1>3, Zenon DEF minStake
    <2>2. flooredStake' = flooredStake
        BY <1>1, <2>1, Zenon DEF flooredStake
    <2> QED  BY <1>1, <1>3, <2>2, Zenon DEF BeforeSplit
<1> QED BY <1>1, <1>2, <1>3, <1>4, <1>5, <1>6, <1>7, <1>8, <1>9, <1>10, Zenon

\* An ordering of a finite set lists all of it, each member once.
LEMMA OrderingsListAll ==
    ASSUME NEW S, IsFiniteSet(S), NEW f \in Orderings(S)
    PROVE  /\ f \in [1..Cardinality(S) -> S] /\ Cardinality(S) \in Nat
           /\ \A i, j \in 1..Cardinality(S) : f[i] = f[j] => i = j
           /\ \A x \in S : \E i \in 1..Cardinality(S) : f[i] = x
<1>1. f \in Injection(1..Cardinality(S), S) /\ f \in Surjection(1..Cardinality(S), S)
    BY Zenon DEF Orderings, Bijection
<1>2. f \in [1..Cardinality(S) -> S] /\ \A i, j \in 1..Cardinality(S) : f[i] = f[j] => i = j
    BY <1>1, Zenon DEF Injection, IsInjective
<1>3. \A x \in S : \E i \in 1..Cardinality(S) : f[i] = x
    BY <1>1, Zenon DEF Surjection
<1>4. Cardinality(S) \in Nat
    BY FS_CardinalityType, Zenon
<1> QED BY <1>2, <1>3, <1>4, Zenon

\* Select draws an order of all the validators.
LEMMA SelectOrders ==
    ASSUME power \in PowerSets, NEW order \in Select
    PROVE  OrderOK(order)
<1> DEFINE B == BeforeSplit
           C == Validators \ BeforeSplit
           a == Cardinality(B)
           b == Cardinality(C)
           n == Len(power)
<1>1. PICK first \in Orderings(B), second \in Orderings(C) :
          order = [i \in Validators |-> [val |-> (first \o second)[i],
                                         ExpectedRows |-> AssignedRows((first \o second)[i])]]
    <2>1. PICK q \in Orders :
              order = [i \in Validators |-> [val |-> q[i], ExpectedRows |-> AssignedRows(q[i])]]
        BY Zenon DEF Select
    <2> DEFINE F == Orderings(B)
               G == Orderings(C)
    <2>2. Orders = {f \o g : f \in F, g \in G}
        BY DEF Orders
    <2> HIDE DEF F, G
    <2>3. \E f \in F, g \in G : q = f \o g
        BY <2>2
    <2> QED BY <2>1, <2>3, Zenon DEF F, G
<1>2. Validators = 1..n /\ n \in Nat /\ IsFiniteSet(Validators)
    BY ValidatorsFinite, TransferAssumption, Zenon
<1>3. B \subseteq Validators /\ IsFiniteSet(B) /\ IsFiniteSet(C)
      /\ B \cup C = Validators /\ B \cap C = {}
    BY <1>2, FS_Subset, Zenon DEF BeforeSplit
<1> HIDE DEF B, C, n
<1>4. /\ first \in [1..a -> B] /\ a \in Nat
      /\ \A i, j \in 1..a : first[i] = first[j] => i = j
      /\ \A x \in B : \E i \in 1..a : first[i] = x
    BY <1>3, OrderingsListAll, Zenon
<1>5. /\ second \in [1..b -> C] /\ b \in Nat
      /\ \A i, j \in 1..b : second[i] = second[j] => i = j
      /\ \A x \in C : \E i \in 1..b : second[i] = x
    BY <1>3, OrderingsListAll, Zenon
<1>6. a + b = n
    <2>1. Cardinality(B \cup C) = a + b - Cardinality(B \cap C)
        BY <1>3, FS_Union, Zenon
    <2>2. Cardinality(B \cap C) = 0
        BY <1>3, FS_EmptySet, Zenon
    <2>3. Cardinality(1..n) = n
        BY <1>2, FS_Interval
    <2>4. Cardinality(B \cup C) = n
        BY <1>2, <1>3, <2>3, Zenon
    <2> HIDE DEF a, b
    <2> QED BY <1>2, <1>4, <1>5, <2>1, <2>2, <2>4, SMTT(30)
<1> DEFINE p == first \o second
<1>7. /\ p \in [1..(a + b) -> Validators]
      /\ \A i \in 1..a : p[i] = first[i]
      /\ \A i \in 1..b : p[a + i] = second[i]
    <2>1. first \in [1..a -> Validators] /\ second \in [1..b -> Validators]
        BY <1>3, <1>4, <1>5, Zenon
    <2>2. a \in Nat /\ b \in Nat
        BY <1>4, <1>5, Zenon
    <2> HIDE DEF a, b
    <2>3. /\ first \in Seq(Validators) /\ second \in Seq(Validators)
          /\ Len(first) = a /\ Len(second) = b
        BY <2>1, <2>2
    <2>4. /\ p \in Seq(Validators) /\ Len(p) = a + b
          /\ \A i \in 1..(a + b) : p[i] = IF i <= a THEN first[i] ELSE second[i - a]
        BY <2>3
    <2> HIDE DEF p
    <2>5. p \in [1..(a + b) -> Validators]
        BY <2>2, <2>4
    <2>6. \A i \in 1..a : p[i] = first[i]
        BY <2>2, <2>4
    <2>7. ASSUME NEW i \in 1..b PROVE p[a + i] = second[i]
        <3>1. a + i \in 1..(a + b) /\ ~(a + i <= a) /\ (a + i) - a = i
            BY <2>2
        <3> QED BY <2>4, <3>1, Zenon
    <2> QED BY <2>5, <2>6, <2>7, Zenon
<1>8. \A i \in 1..n : i \in 1..a \/ (i - a \in 1..b /\ i = a + (i - a))
    BY <1>2, <1>4, <1>5, <1>6
<1> HIDE DEF p, a, b
<1>9. order = [i \in Validators |-> [val |-> p[i], ExpectedRows |-> AssignedRows(p[i])]]
    BY <1>1, Zenon DEF p
<1>10. \A i, j \in 1..n : p[i] = p[j] => i = j
    <2> SUFFICES ASSUME NEW i \in 1..n, NEW j \in 1..n, p[i] = p[j] PROVE i = j
        BY Zenon
    <2>1. ASSUME NEW k \in 1..n PROVE \/ k \in 1..a /\ p[k] \in B /\ p[k] = first[k]
                                      \/ k - a \in 1..b /\ p[k] \in C /\ p[k] = second[k - a]
        <3>1. CASE k \in 1..a
            BY <1>4, <1>7, <3>1, Zenon
        <3>2. CASE k - a \in 1..b /\ k = a + (k - a)
            <4>1. p[a + (k - a)] = second[k - a]
                BY <1>7, <3>2, Zenon
            <4> QED BY <1>5, <3>2, <4>1, Zenon
        <3> QED BY <1>8, <3>1, <3>2, Zenon
    <2>2. CASE i \in 1..a /\ j \in 1..a
        BY <1>4, <1>7, <2>2, Zenon
    <2>3. CASE i \notin 1..a /\ j \notin 1..a
        <3>1. i - a \in 1..b /\ j - a \in 1..b /\ second[i - a] = second[j - a]
            BY <2>1, <2>3, Zenon
        <3>2. i - a = j - a
            BY <1>5, <3>1, Zenon
        <3> QED BY <1>2, <1>4, <3>2, SMTT(30)
    <2>4. CASE i \in 1..a /\ j \notin 1..a
        BY <1>3, <1>4, <1>7, <2>1, <2>4, Zenon
    <2>5. CASE i \notin 1..a /\ j \in 1..a
        BY <1>3, <1>4, <1>7, <2>1, <2>5, Zenon
    <2> QED BY <2>2, <2>3, <2>4, <2>5, Zenon
<1>11. \A v \in Validators : \E i \in 1..n : p[i] = v
    <2> SUFFICES ASSUME NEW v \in Validators PROVE \E i \in 1..n : p[i] = v
        BY Zenon
    <2>1. CASE v \in B
        <3>1. PICK i \in 1..a : first[i] = v
            BY <1>4, <2>1, Zenon
        <3>2. i \in 1..n
            BY <1>4, <1>5, <1>6
        <3> QED BY <1>7, <3>1, <3>2, Zenon
    <2>2. CASE v \in C
        <3>1. PICK i \in 1..b : second[i] = v
            BY <1>5, <2>2, Zenon
        <3>2. a + i \in 1..n
            BY <1>4, <1>5, <1>6
        <3> QED BY <1>7, <3>1, <3>2, Zenon
    <2> QED BY <1>3, <2>1, <2>2, Zenon
<1>12. \A i \in Validators : order[i].val = p[i] /\ order[i].ExpectedRows = AssignedRows(p[i])
    BY <1>9, Zenon
<1>13. order = [i \in Validators |-> order[i]]
    BY <1>9, Zenon
<1>14. \A i \in Validators : p[i] \in Validators
    BY <1>2, <1>6, <1>7, Zenon
<1>15. \A i, j \in Validators : order[i].val = order[j].val => i = j
    BY <1>2, <1>10, <1>12
<1>16. \A v \in Validators : \E i \in Validators : order[i].val = v
    <2> SUFFICES ASSUME NEW v \in Validators PROVE \E i \in Validators : order[i].val = v
        BY Zenon
    <2>1. PICK i \in 1..n : p[i] = v
        BY <1>11, Zenon
    <2>2. i \in Validators
        BY <1>2, Zenon
    <2> QED BY <1>12, <2>1, <2>2, Zenon
<1> QED BY <1>12, <1>13, <1>14, <1>15, <1>16, Zenon DEF OrderOK

\* A download has no result while one of its workers runs.
LEMMA OpenSession ==
    ASSUME DownloadInv, down # NoDownload
    PROVE  /\ down.pc \in DownPcs
           /\ (\E v \in Validators : Busy(v)) => down.pc \notin DownloadResults
BY Zenon DEF DownloadInv, Retrievable, Session, SessionOK

\* A download without a result is as Retrievable says.
LEMMA NoResult == ASSUME (down.pc \notin DownloadResults)' PROVE Retrievable'
BY Zenon DEF Retrievable, DownloadResults

\* The length of a selection.
LEMMA OrderLength ==
    ASSUME power \in PowerSets, NEW order, OrderOK(order)
    PROVE  Len(order) = Len(power) /\ DOMAIN order = 1..Len(power)
<1> DEFINE n == Len(power)
           S == {order[i] : i \in 1..n}
<1>1. Validators = 1..n /\ n \in Nat
    BY ValidatorsFinite, TransferAssumption, Zenon
<1>2. order = [i \in 1..n |-> order[i]]
    BY <1>1, Zenon DEF OrderOK
<1> HIDE DEF n
<1>3. order \in [1..n -> S]
    BY <1>2, Zenon
<1> HIDE DEF S
<1> QED BY <1>1, <1>3 DEF n

\* The session's part of the state that a step of the download leaves alone.
SameEnv == UNCHANGED <<power, upload, job, signers, holders, offline>>

\* With the validator set, what a selection and an assignment are stays.
LEMMA SameOrder ==
    ASSUME SameEnv
    PROVE  /\ \A order : OrderOK(order)' <=> OrderOK(order)
           /\ Unstarted' <=> Unstarted
           /\ Validators' = Validators /\ Len(power') = Len(power)
           /\ \A v : Assign(v)' = Assign(v)
           /\ \A V : AssignedTo(V)' = AssignedTo(V)
<1>1. /\ Validators' = Validators /\ \A v : AssignedRows(v)' = AssignedRows(v)
      /\ \A v : Assign(v)' = Assign(v) /\ \A V : AssignedTo(V)' = AssignedTo(V)
    BY SameSet, Zenon DEF SameEnv
<1>2. \A order : OrderOK(order)' <=> OrderOK(order)
    BY <1>1, Zenon DEF OrderOK
<1>3. Unstarted' <=> Unstarted
    BY <1>1, Zenon DEF Unstarted, SameEnv
<1> QED BY <1>1, <1>2, <1>3, Zenon DEF SameEnv

\* A step of the main loop that starts no worker.
LEMMA MainKeeps ==
    ASSUME DownloadInv, down # NoDownload, SameEnv, UNCHANGED <<worker, seen, rows>>,
           NEW pc \in DownPcs, NEW t, NEW c \in BOOLEAN,
           down' = [pc |-> pc, order |-> down.order, cursor |-> down.cursor,
                    inflight |-> down.inflight, token |-> t, cancelled |-> c],
           pc = "blob" /\ ~c => down.inflight = 0 /\ (Want = 0 \/ down.cursor > Len(power)),
           Retrievable'
    PROVE  DownloadInv'
<1>1. /\ down'.pc = pc /\ down'.order = down.order /\ down'.cursor = down.cursor
      /\ down'.inflight = down.inflight /\ down'.token = t /\ down'.cancelled = c
    BY Zenon
<1>2. down' # NoDownload
    BY <1>1, Zenon DEF DownPcs, DownloadResults, NoDownload
<1>3. SessionOK'
    BY <1>1, SameOrder, Zenon DEF DownloadInv, Session, SessionOK, SameEnv
<1>4. WorkersOK' /\ InflightExact'
    BY <1>1, SameOrder, Zenon DEF DownloadInv, Session, WorkersOK, InflightExact, Reserved, Before
<1>5. RowsCounted'
    BY SameOrder, Zenon DEF DownloadInv, Session, RowsCounted, SameEnv
<1>6. LoopDone'
    BY <1>1, SameOrder, Zenon DEF LoopDone, Want
<1> QED BY <1>2, <1>3, <1>4, <1>5, <1>6, Zenon DEF DownloadInv, Session, NoDownload

\* Such a step while the download has no result.
LEMMA LoopStep ==
    ASSUME DownloadInv, down # NoDownload, SameEnv, UNCHANGED <<worker, seen, rows>>,
           NEW pc \in {"loop", "pick", "park", "blob"}, NEW t, NEW c \in BOOLEAN,
           down' = [pc |-> pc, order |-> down.order, cursor |-> down.cursor,
                    inflight |-> down.inflight, token |-> t, cancelled |-> c],
           pc = "blob" /\ ~c => down.inflight = 0 /\ (Want = 0 \/ down.cursor > Len(power))
    PROVE  DownloadInv'
<1>1. down'.pc \notin DownloadResults /\ pc \in DownPcs
    BY Zenon DEF DownPcs, DownloadResults
<1>2. Retrievable'
    BY <1>1, NoResult, Zenon
<1> QED BY <1>1, <1>2, MainKeeps, Zenon

\* A worker that has not returned its reservation keeps the count above zero.
LEMMA ReservedCounted ==
    ASSUME power \in PowerSets, DownloadInv, down # NoDownload, NEW v \in Reserved
    PROVE  /\ v \in Validators /\ Busy(v)
           /\ down.inflight >= 1 /\ down.inflight = AssignedTo(Reserved)
           /\ AssignedTo(Reserved) = AssignedRows(v) + AssignedTo(Reserved \ {v})
           /\ AssignedRows(v) \in Nat /\ AssignedTo(Reserved \ {v}) \in Nat
           /\ ~(down.pc = "blob" /\ ~down.cancelled)
<1>1. v \in Validators /\ Busy(v)
    BY Zenon DEF Reserved, Busy
<1>2. Reserved \in SUBSET Validators /\ Reserved \ {v} \in SUBSET Validators
    BY Zenon DEF Reserved
<1>3. AssignedTo(Reserved) = AssignedRows(v) + AssignedTo(Reserved \ {v})
    BY <1>2, AssignedToNat, Zenon
<1>4. AssignedRows(v) \in 1..OriginalRows /\ AssignedTo(Reserved \ {v}) \in Nat
      /\ OriginalRows \in Nat
    BY <1>1, <1>2, AssignedToNat, RowsBounds, TransferAssumption, Zenon
<1>5. down.inflight = AssignedTo(Reserved)
    BY Zenon DEF DownloadInv, Session, InflightExact
<1>6. down.inflight >= 1
    BY <1>3, <1>4, <1>5
<1>7. ~(down.pc = "blob" /\ ~down.cancelled)
    BY <1>6 DEF DownloadInv, Session, LoopDone
<1> QED BY <1>1, <1>3, <1>4, <1>5, <1>6, <1>7, SMTT(30)

\* A step of a worker: what it reserved, what it counted and what it wrote are for the
\* step to show.
LEMMA WorkerKeeps ==
    ASSUME DownloadInv, down # NoDownload, SameEnv, NEW v \in Validators, Busy(v),
           NEW r, r.pc \in WorkerPcs \ {"none"}, worker' = [worker EXCEPT ![v] = r],
           NEW k, NEW t,
           down' = [pc |-> down.pc, order |-> down.order, cursor |-> down.cursor,
                    inflight |-> k, token |-> t, cancelled |-> down.cancelled],
           InflightExact', RowsCounted', LoopDone'
    PROVE  DownloadInv'
<1>1. /\ down'.pc = down.pc /\ down'.order = down.order /\ down'.cursor = down.cursor
      /\ down'.inflight = k /\ down'.token = t /\ down'.cancelled = down.cancelled
    BY Zenon
<1>2. down'.pc \in DownPcs /\ down'.pc \notin DownloadResults
    BY <1>1, OpenSession, Zenon
<1>3. down' # NoDownload
    BY <1>2, Zenon DEF DownPcs, DownloadResults, NoDownload
<1>4. SessionOK'
    BY <1>1, <1>2, SameOrder, Zenon DEF DownloadInv, Session, SessionOK, SameEnv
<1>5. WorkersOK'
    <2>1. /\ worker = [w \in Validators |-> worker[w]]
          /\ \A w \in Validators : /\ worker[w].pc \in WorkerPcs
                                   /\ worker[w].pc # "none" <=> Before(w, down.cursor)
        BY Zenon DEF DownloadInv, Session, WorkersOK
    <2>2. \A w \in Validators : Before(w, down.cursor)' <=> Before(w, down.cursor)
        BY <1>1, Zenon DEF Before
    <2>3. worker[v].pc # "none"
        BY Zenon DEF Busy
    <2>4. worker' = [w \in Validators |-> worker'[w]]
        BY <2>1, Zenon
    <2>5. \A w \in Validators : /\ worker'[w].pc \in WorkerPcs
                                /\ worker'[w].pc # "none" <=> worker[w].pc # "none"
        BY <2>1, <2>3, Zenon
    <2> QED BY <1>1, <2>1, <2>2, <2>4, <2>5, SameOrder, Zenon DEF WorkersOK
<1>6. Retrievable'
    BY <1>2, NoResult, Zenon
<1> QED BY <1>3, <1>4, <1>5, <1>6, Zenon DEF DownloadInv, Session, NoDownload

\* Where the cursor stands.
LEMMA CursorFacts ==
    ASSUME power \in PowerSets, DownloadInv, down # NoDownload
    PROVE  /\ Len(Selected) = Len(power) /\ DOMAIN Selected = Validators
           /\ Validators = 1..Len(power) /\ Len(power) \in Nat
           /\ OrderOK(down.order) /\ down.cursor \in 1..(Len(power) + 1)
           /\ down.cancelled \in BOOLEAN
           /\ worker = [v \in Validators |-> worker[v]]
<1>1. OrderOK(down.order) /\ down.cursor \in 1..(Len(power) + 1) /\ down.cancelled \in BOOLEAN
    BY Zenon DEF DownloadInv, Session, SessionOK
<1>2. worker = [v \in Validators |-> worker[v]]
    BY Zenon DEF DownloadInv, Session, WorkersOK
<1> QED BY <1>1, <1>2, OrderLength, ValidatorsFinite, TransferAssumption, Zenon DEF Selected

\* The main loop: leaving it, going to sleep, waking up, and the end of its context.
LEMMA LoopSteps ==
    ASSUME power \in PowerSets, DownloadInv, down # NoDownload,
           Ready \/ Park \/ CancelDownload
           \/ (Pick /\ (down.cursor > Len(Selected) \/ Want <= down.inflight))
    PROVE  DownloadInv'
<1>1. down = [pc |-> down.pc, order |-> down.order, cursor |-> down.cursor,
              inflight |-> down.inflight, token |-> down.token, cancelled |-> down.cancelled]
    BY Zenon DEF DownloadInv, Session, SessionOK
<1>2. Len(Selected) = Len(power) /\ down.cancelled \in BOOLEAN
    BY CursorFacts, Zenon
<1>3. SameEnv /\ UNCHANGED <<worker, seen, rows>>
    BY Zenon DEF Ready, Park, CancelDownload, Pick, SameEnv, uploadVars, jobVars
<1>4. CASE Ready
    <2> DEFINE q == IF down.inflight = 0 /\ (Want = 0 \/ down.cursor > Len(Selected))
                      THEN "blob" ELSE "pick"
    <2>1. down' = [down EXCEPT !.pc = q]
        BY <1>4, Zenon DEF Ready, Step
    <2>2. q \in {"loop", "pick", "park", "blob"}
        BY Zenon
    <2>3. q = "blob" => down.inflight = 0 /\ (Want = 0 \/ down.cursor > Len(power))
        BY <1>2, Zenon
    <2> HIDE DEF q
    <2>4. down' = [pc |-> q, order |-> down.order, cursor |-> down.cursor,
                   inflight |-> down.inflight, token |-> down.token,
                   cancelled |-> down.cancelled]
        BY <1>1, <2>1, Zenon
    <2> QED BY <1>2, <1>3, <2>2, <2>3, <2>4, LoopStep, Zenon
<1>5. CASE Park /\ down' = [down EXCEPT !.pc = "loop", !.token = FALSE]
    <2>1. down' = [pc |-> "loop", order |-> down.order, cursor |-> down.cursor,
                   inflight |-> down.inflight, token |-> FALSE,
                   cancelled |-> down.cancelled]
        BY <1>1, <1>5, Zenon
    <2> QED BY <1>2, <1>3, <2>1, LoopStep, Zenon
<1>6. CASE Park /\ down.cancelled /\ down' = [down EXCEPT !.pc = "blob"]
    <2>1. down' = [pc |-> "blob", order |-> down.order, cursor |-> down.cursor,
                   inflight |-> down.inflight, token |-> down.token,
                   cancelled |-> down.cancelled]
        BY <1>1, <1>6, Zenon
    <2> QED BY <1>2, <1>3, <1>6, <2>1, LoopStep, Zenon
<1>7. CASE CancelDownload
    <2>1. down' = [pc |-> down.pc, order |-> down.order, cursor |-> down.cursor,
                   inflight |-> down.inflight, token |-> down.token, cancelled |-> TRUE]
          /\ down.pc \in {"loop", "pick", "park", "blob"}
        BY <1>1, <1>7, Zenon DEF CancelDownload
    <2> QED BY <1>3, <2>1, LoopStep, Zenon
<1>8. CASE Pick /\ (down.cursor > Len(Selected) \/ Want <= down.inflight)
    <2>1. down' = [pc |-> "park", order |-> down.order, cursor |-> down.cursor,
                   inflight |-> down.inflight, token |-> down.token,
                   cancelled |-> down.cancelled]
        BY <1>1, <1>8, Zenon DEF Pick, Step
    <2> QED BY <1>2, <1>3, <2>1, LoopStep, Zenon
<1> QED BY <1>4, <1>5, <1>6, <1>7, <1>8, Zenon DEF Park, Step

\* A worker is started for a validator that had none.
LEMMA PickStarts ==
    ASSUME power \in PowerSets, DownloadInv, down # NoDownload, Pick,
           ~(down.cursor > Len(Selected) \/ Want <= down.inflight)
    PROVE  DownloadInv'
<1> DEFINE c == down.cursor
           v == down.order[c].val
           n == Len(power)
<1>1. /\ Len(Selected) = n /\ Validators = 1..n /\ n \in Nat
      /\ OrderOK(down.order) /\ c \in 1..(n + 1)
      /\ worker = [w \in Validators |-> worker[w]]
    BY CursorFacts, Zenon
<1>2. c \in 1..n /\ c \in Validators
    BY <1>1
<1>3. v \in Validators /\ down.order[c].ExpectedRows = AssignedRows(v)
    BY <1>1, <1>2, Zenon DEF OrderOK
<1>4. down = [pc |-> down.pc, order |-> down.order, cursor |-> down.cursor,
              inflight |-> down.inflight, token |-> down.token, cancelled |-> down.cancelled]
    BY Zenon DEF DownloadInv, Session, SessionOK
<1>5. /\ down' = [pc |-> "loop", order |-> down.order, cursor |-> c + 1,
                  inflight |-> down.inflight + AssignedRows(v), token |-> down.token,
                  cancelled |-> down.cancelled]
      /\ worker' = [worker EXCEPT ![v] = [pc |-> "fetch"]]
    <2>1. /\ down' = [down EXCEPT !.pc = "loop", !.cursor = @ + 1,
                                  !.inflight = @ + down.order[c].ExpectedRows]
          /\ worker' = [worker EXCEPT ![v] = [pc |-> "fetch"]]
        BY Zenon DEF Pick, Selected
    <2> QED BY <1>3, <1>4, <2>1, Zenon
<1>6. SameEnv /\ UNCHANGED <<seen, rows>>
    BY Zenon DEF Pick, SameEnv, uploadVars, jobVars
<1>7. /\ down'.pc = "loop" /\ down'.order = down.order /\ down'.cursor = c + 1
      /\ down'.inflight = down.inflight + AssignedRows(v)
      /\ down'.token = down.token /\ down'.cancelled = down.cancelled
    BY <1>5, Zenon
<1>8. \A w \in Validators : /\ worker[w].pc \in WorkerPcs
                            /\ worker[w].pc # "none" <=> Before(w, c)
    BY Zenon DEF DownloadInv, Session, WorkersOK
<1>9. ~Before(v, c)
    <2> SUFFICES ASSUME NEW i \in 1..(c - 1), down.order[i].val = v PROVE FALSE
        BY Zenon DEF Before
    <2>1. i \in Validators /\ i # c
        BY <1>1, <1>2, SMTT(30)
    <2> QED BY <1>1, <1>2, <2>1, Zenon DEF OrderOK
<1>10. worker[v].pc = "none"
    BY <1>3, <1>8, <1>9, Zenon
<1>11. \A w \in Validators : (Before(w, down.cursor))' <=> Before(w, c) \/ w = v
    <2>1. 1..(down'.cursor - 1) = (1..(c - 1)) \cup {c}
        <3>1. down'.cursor - 1 = c /\ c \in Nat \ {0}
            BY <1>2, <1>7
        <3> HIDE DEF c
        <3> QED BY <3>1
    <2>2. \A w \in Validators : (Before(w, down.cursor))'
              <=> \E i \in 1..(down'.cursor - 1) : down'.order[i].val = w
        BY Zenon DEF Before
    <2>3. \A w \in Validators : Before(w, c) <=> \E i \in 1..(c - 1) : down.order[i].val = w
        BY Zenon DEF Before
    <2>4. down'.order = down.order
        BY <1>7, Zenon
    <2> QED BY <2>1, <2>2, <2>3, <2>4, Zenon
<1> HIDE DEF v, c, n
<1>12. WorkersOK'
    <2>1. worker' = [w \in Validators |-> worker'[w]]
        BY <1>1, <1>5, Zenon
    <2>2. \A w \in Validators : worker'[w] = IF w = v THEN [pc |-> "fetch"] ELSE worker[w]
        BY <1>1, <1>5, Zenon
    <2>3. \A w \in Validators : /\ worker'[w].pc \in WorkerPcs
                                /\ worker'[w].pc # "none" <=> worker[w].pc # "none" \/ w = v
        BY <1>8, <2>2 DEF WorkerPcs
    <2> QED BY <1>6, <1>8, <1>11, <2>1, <2>3, SameOrder, Zenon DEF WorkersOK
<1>13. InflightExact'
    <2>1. Reserved' = Reserved \cup {v} /\ v \notin Reserved /\ Reserved' \in SUBSET Validators
        BY <1>1, <1>3, <1>5, <1>6, <1>10, SameOrder, Zenon DEF Reserved
    <2>2. AssignedTo(Reserved \cup {v}) = AssignedRows(v) + AssignedTo((Reserved \cup {v}) \ {v})
        BY <2>1, AssignedToNat, Zenon
    <2>3. (Reserved \cup {v}) \ {v} = Reserved
        BY <2>1, Zenon
    <2>4. AssignedTo(Reserved) \in Nat /\ AssignedRows(v) \in Nat
        <3>1. Reserved \in SUBSET Validators
            BY Zenon DEF Reserved
        <3> QED BY <1>3, <3>1, AssignedToNat, RowsBounds
    <2>5. down.inflight = AssignedTo(Reserved)
        BY Zenon DEF DownloadInv, Session, InflightExact
    <2>6. (AssignedTo(Reserved))' = AssignedTo(Reserved \cup {v})
        BY <1>6, <2>1, SameSet, Zenon DEF SameEnv, AssignedTo
    <2>7. down'.inflight = AssignedTo(Reserved \cup {v})
        <3>1. AssignedTo(Reserved \cup {v}) = AssignedRows(v) + AssignedTo(Reserved)
            BY <2>2, <2>3, Zenon
        <3>2. down'.inflight = AssignedTo(Reserved) + AssignedRows(v)
            BY <1>7, <2>5, Zenon
        <3> QED BY <2>4, <3>1, <3>2
    <2> QED BY <2>6, <2>7, Zenon DEF InflightExact
<1>14. RowsCounted'
    <2>1. \A w \in Validators : worker'[w] = IF w = v THEN [pc |-> "fetch"] ELSE worker[w]
        BY <1>1, <1>5, Zenon
    <2>2. \A w \in Validators : worker[w].pc = "store" => worker'[w] = worker[w]
        BY <1>10, <2>1, Zenon
    <2>3. \A w \in Validators : worker'[w].pc \notin {"none", "fetch"}
                                  => worker[w].pc \notin {"none", "fetch"}
        BY <2>1
    <2> QED BY <1>6, <2>2, <2>3, SameOrder, Zenon DEF DownloadInv, Session, RowsCounted, SameEnv
<1>15. down'.pc \in DownPcs /\ down'.pc \notin DownloadResults /\ down' # NoDownload
    BY <1>7, SMTT(30) DEF DownPcs, DownloadResults, NoDownload
<1>16. SessionOK'
    <2>1. down'.cursor \in 1..(Len(power') + 1)
        BY <1>2, <1>1, <1>6, <1>7 DEF SameEnv, n
    <2> QED BY <1>5, <1>6, <1>7, <1>15, <2>1, SameOrder, Zenon
               DEF DownloadInv, Session, SessionOK, SameEnv
<1>17. LoopDone'
    BY <1>7, Zenon DEF LoopDone
<1> QED BY <1>12, <1>13, <1>14, <1>15, <1>16, <1>17, NoResult, Zenon
        DEF DownloadInv, Session, NoDownload

\* Row positions.
LEMMA AssignInRange ==
    ASSUME power \in PowerSets, NEW v \in Validators
    PROVE  Assign(v) \subseteq 0..(TotalRows - 1)
<1>1. Offset(v) \in Nat /\ TotalRows \in Nat \ {0}
    BY OffsetBounds, TransferAssumption, Zenon
<1>2. \A j \in 0..(AssignedRows(v) - 1) : (Offset(v) + j) % TotalRows \in 0..(TotalRows - 1)
    BY <1>1
<1> QED BY <1>2, Zenon DEF Assign

\* What a worker's step does to the reservations.
LEMMA ReservedAfter ==
    ASSUME worker = [w \in Validators |-> worker[w]], Validators' = Validators,
           NEW v \in Validators, NEW r, worker' = [worker EXCEPT ![v] = r]
    PROVE  /\ \A w \in Validators : worker'[w] = IF w = v THEN r ELSE worker[w]
           /\ r.pc \in {"fetch", "store", "release"} => Reserved' = Reserved \cup {v}
           /\ r.pc \notin {"fetch", "store", "release"} => Reserved' = Reserved \ {v}
<1>1. \A w \in Validators : worker'[w] = IF w = v THEN r ELSE worker[w]
    BY Zenon
<1> QED BY <1>1, Zenon DEF Reserved

\* The rows of an answer are counted once, by the worker that will write them.
LEMMA FetchStep ==
    ASSUME power \in PowerSets, DownloadInv, NEW v \in Validators, Fetch(v)
    PROVE  DownloadInv'
<1>1. /\ down # NoDownload /\ worker[v].pc = "fetch"
      /\ down' = down /\ rows' = rows /\ SameEnv
    BY Zenon DEF Fetch, SameEnv, uploadVars, jobVars
<1>2. v \in Reserved
    BY <1>1, Zenon DEF Reserved
<1>3. /\ Busy(v) /\ down.inflight = AssignedTo(Reserved)
      /\ ~(down.pc = "blob" /\ ~down.cancelled)
    BY <1>1, <1>2, ReservedCounted, Zenon
<1>4. worker = [w \in Validators |-> worker[w]]
    BY <1>1, CursorFacts, Zenon
<1>5. down = [pc |-> down.pc, order |-> down.order, cursor |-> down.cursor,
              inflight |-> down.inflight, token |-> down.token, cancelled |-> down.cancelled]
    BY <1>1, Zenon DEF DownloadInv, Session, SessionOK
<1>6. LoopDone'
    BY <1>1, <1>3, Zenon DEF LoopDone
<1>7. /\ Validators' = Validators /\ \A w : Assign(w)' = Assign(w)
      /\ \A V : AssignedTo(V)' = AssignedTo(V)
      /\ holders' = holders /\ offline' = offline
    <2>1. SameEnv
        BY <1>1, Zenon
    <2> QED BY <2>1, SameOrder, Zenon DEF SameEnv
<1>8. /\ seen \subseteq 0..(TotalRows - 1)
      /\ \A x \in seen : \/ x \in rows
                         \/ \E w \in Validators : worker[w].pc = "store" /\ x \in worker[w].novel
      /\ \A w \in Validators : w \in holders \ offline /\ worker[w].pc \notin {"none", "fetch"}
                                 => Assign(w) \subseteq seen
    BY <1>1, Zenon DEF DownloadInv, Session, RowsCounted
<1>9. ASSUME worker'[v].pc \in {"store", "release"},
             worker' = [worker EXCEPT ![v] = worker'[v]], RowsCounted'
      PROVE  DownloadInv'
    <2> DEFINE r == worker'[v]
    <2>1. Reserved' = Reserved
        BY <1>2, <1>4, <1>7, <1>9, ReservedAfter, SMTT(30)
    <2>2. InflightExact'
        BY <1>1, <1>3, <1>7, <2>1, Zenon DEF InflightExact, AssignedTo
    <2>3. r.pc \in WorkerPcs \ {"none"}
        BY <1>9, Zenon DEF WorkerPcs
    <2> QED BY <1>1, <1>3, <1>5, <1>6, <1>9, <2>2, <2>3, WorkerKeeps, Zenon
<1>10. CASE v \in holders \ offline
    <2> DEFINE r == [pc |-> "store", novel |-> Assign(v) \ seen]
    <2>1. worker' = [worker EXCEPT ![v] = r] /\ seen' = seen \cup Assign(v)
        BY <1>10, Zenon DEF Fetch
    <2>2. r.pc = "store" /\ r.novel = Assign(v) \ seen
        BY Zenon
    <2> HIDE DEF r
    <2>3. \A w \in Validators : worker'[w] = IF w = v THEN r ELSE worker[w]
        BY <1>4, <1>7, <2>1, ReservedAfter, Zenon
    <2>4. seen' \subseteq 0..(TotalRows - 1)
        BY <1>8, <2>1, AssignInRange, Zenon
    <2>5. ASSUME NEW x \in seen'
          PROVE  \/ x \in rows
                 \/ \E w \in Validators : worker'[w].pc = "store" /\ x \in worker'[w].novel
        <3>1. CASE x \in seen
            <4>1. ASSUME NEW w \in Validators, worker[w].pc = "store", x \in worker[w].novel
                  PROVE  worker'[w].pc = "store" /\ x \in worker'[w].novel
                BY <1>1, <2>3, <4>1, Zenon
            <4> QED BY <1>8, <3>1, <4>1, Zenon
        <3>2. CASE x \notin seen
            <4>1. worker'[v] = r /\ x \in r.novel
                BY <2>1, <2>2, <2>3, <3>2, Zenon
            <4> QED BY <2>2, <4>1, Zenon
        <3> QED BY <3>1, <3>2, Zenon
    <2>6. ASSUME NEW w \in Validators, w \in holders \ offline,
                 worker'[w].pc \notin {"none", "fetch"}
          PROVE  Assign(w) \subseteq seen'
        BY <1>8, <2>1, <2>3, <2>6, Zenon
    <2>7. RowsCounted'
        BY <1>1, <1>7, <2>4, <2>5, <2>6, Zenon DEF RowsCounted
    <2>8. worker'[v] = r
        BY <2>3, Zenon
    <2>9. worker'[v].pc \in {"store", "release"} /\ worker' = [worker EXCEPT ![v] = worker'[v]]
        BY <2>1, <2>2, <2>8, Zenon
    <2> QED BY <1>9, <2>7, <2>9, Zenon
<1>11. CASE v \notin holders \ offline
    <2> DEFINE r == [pc |-> "release"]
    <2>1. worker' = [worker EXCEPT ![v] = r] /\ seen' = seen
        BY <1>11, Zenon DEF Fetch
    <2>2. r.pc = "release"
        BY Zenon
    <2> HIDE DEF r
    <2>3. \A w \in Validators : worker'[w] = IF w = v THEN r ELSE worker[w]
        BY <1>4, <1>7, <2>1, ReservedAfter, Zenon
    <2>4. \A w \in Validators : worker[w].pc = "store" => worker'[w] = worker[w]
        BY <1>1, <2>3, Zenon
    <2>5. ASSUME NEW w \in Validators, w \in holders \ offline,
                 worker'[w].pc \notin {"none", "fetch"}
          PROVE  Assign(w) \subseteq seen
        BY <1>8, <1>11, <2>3, <2>5, Zenon
    <2>6. RowsCounted'
        BY <1>1, <1>7, <1>8, <2>1, <2>4, <2>5, Zenon DEF RowsCounted
    <2>7. worker'[v] = r
        BY <2>3, Zenon
    <2>8. worker'[v].pc \in {"store", "release"} /\ worker' = [worker EXCEPT ![v] = worker'[v]]
        BY <2>1, <2>2, <2>7, Zenon
    <2> QED BY <1>9, <2>6, <2>8, Zenon
<1> QED BY <1>10, <1>11, Zenon

\* The rows a worker counted reach the buffer.
LEMMA StoreStep ==
    ASSUME power \in PowerSets, DownloadInv, NEW v \in Validators, StoreRows(v)
    PROVE  DownloadInv'
<1> DEFINE r == [pc |-> "release"]
<1>1. /\ down # NoDownload /\ worker[v].pc = "store"
      /\ worker' = [worker EXCEPT ![v] = r]
      /\ down' = down /\ rows' = rows \cup worker[v].novel /\ seen' = seen /\ SameEnv
    BY Zenon DEF StoreRows, SameEnv, uploadVars, jobVars
<1>2. v \in Reserved
    BY <1>1, Zenon DEF Reserved
<1>3. /\ Busy(v) /\ down.inflight = AssignedTo(Reserved)
      /\ ~(down.pc = "blob" /\ ~down.cancelled)
    BY <1>1, <1>2, ReservedCounted, Zenon
<1>4. worker = [w \in Validators |-> worker[w]]
    BY <1>1, CursorFacts, Zenon
<1>5. down = [pc |-> down.pc, order |-> down.order, cursor |-> down.cursor,
              inflight |-> down.inflight, token |-> down.token, cancelled |-> down.cancelled]
    BY <1>1, Zenon DEF DownloadInv, Session, SessionOK
<1>6. LoopDone'
    BY <1>1, <1>3, Zenon DEF LoopDone
<1>7. /\ Validators' = Validators /\ \A w : Assign(w)' = Assign(w)
      /\ \A V : AssignedTo(V)' = AssignedTo(V)
      /\ holders' = holders /\ offline' = offline
    <2>1. SameEnv
        BY <1>1, Zenon
    <2> QED BY <2>1, SameOrder, Zenon DEF SameEnv
<1>8. r.pc = "release" /\ r.pc \in WorkerPcs \ {"none"}
    BY Zenon DEF WorkerPcs
<1> HIDE DEF r
<1>9. /\ \A w \in Validators : worker'[w] = IF w = v THEN r ELSE worker[w]
      /\ Reserved' = Reserved
    <2>1. /\ \A w \in Validators : worker'[w] = IF w = v THEN r ELSE worker[w]
          /\ r.pc \in {"fetch", "store", "release"} => Reserved' = Reserved \cup {v}
        BY <1>1, <1>4, <1>7, ReservedAfter, ZenonT(30)
    <2>2. Reserved' = Reserved \cup {v}
        BY <1>8, <2>1, Zenon
    <2> QED BY <1>2, <2>1, <2>2, Zenon
<1>10. InflightExact'
    BY <1>1, <1>3, <1>7, <1>9, Zenon DEF InflightExact, AssignedTo
<1>11. RowsCounted'
    <2>1. /\ seen \subseteq 0..(TotalRows - 1)
          /\ \A x \in seen : \/ x \in rows
                             \/ \E w \in Validators : /\ worker[w].pc = "store"
                                                      /\ x \in worker[w].novel
          /\ \A w \in Validators : /\ w \in holders \ offline
                                   /\ worker[w].pc \notin {"none", "fetch"}
                                   => Assign(w) \subseteq seen
        BY <1>1, Zenon DEF DownloadInv, Session, RowsCounted
    <2>2. ASSUME NEW x \in seen
          PROVE  \/ x \in rows'
                 \/ \E w \in Validators : worker'[w].pc = "store" /\ x \in worker'[w].novel
        BY <1>1, <1>9, <2>1, Zenon
    <2>3. \A w \in Validators : worker'[w].pc \notin {"none", "fetch"}
                                  => worker[w].pc \notin {"none", "fetch"}
        BY <1>1, <1>9, Zenon
    <2> QED BY <1>1, <1>7, <2>1, <2>2, <2>3, Zenon DEF RowsCounted
<1> QED BY <1>1, <1>3, <1>5, <1>6, <1>8, <1>10, <1>11, WorkerKeeps, Zenon

\* A worker returns what it reserved.
LEMMA ReleaseStep ==
    ASSUME power \in PowerSets, DownloadInv, NEW v \in Validators, ReleaseRows(v)
    PROVE  DownloadInv'
<1> DEFINE r == [pc |-> "signal"]
           k == down.inflight - AssignedRows(v)
<1>1. /\ down # NoDownload /\ worker[v].pc = "release"
      /\ worker' = [worker EXCEPT ![v] = r]
      /\ rows' = rows /\ seen' = seen /\ SameEnv
    BY Zenon DEF ReleaseRows, SameEnv, uploadVars, jobVars
<1>2. v \in Reserved
    BY <1>1, Zenon DEF Reserved
<1>3. /\ Busy(v) /\ down.inflight = AssignedTo(Reserved)
      /\ ~(down.pc = "blob" /\ ~down.cancelled)
      /\ AssignedTo(Reserved) = AssignedRows(v) + AssignedTo(Reserved \ {v})
      /\ AssignedRows(v) \in Nat /\ AssignedTo(Reserved \ {v}) \in Nat
    BY <1>1, <1>2, ReservedCounted, Zenon
<1>4. /\ worker = [w \in Validators |-> worker[w]] /\ DOMAIN Selected = Validators
      /\ OrderOK(down.order)
    BY <1>1, CursorFacts, Zenon
<1>5. down = [pc |-> down.pc, order |-> down.order, cursor |-> down.cursor,
              inflight |-> down.inflight, token |-> down.token, cancelled |-> down.cancelled]
    BY <1>1, Zenon DEF DownloadInv, Session, SessionOK
<1>6. down' = [pc |-> down.pc, order |-> down.order, cursor |-> down.cursor,
               inflight |-> k, token |-> down.token, cancelled |-> down.cancelled]
    <2>1. PICK from \in Range(Selected) :
              from.val = v /\ down' = [down EXCEPT !.inflight = @ - from.ExpectedRows]
        BY Zenon DEF ReleaseRows
    <2>2. PICK i \in Validators : from = down.order[i]
        BY <1>4, Zenon DEF Range, Selected
    <2>3. from.ExpectedRows = AssignedRows(v)
        BY <1>4, <2>1, <2>2, Zenon DEF OrderOK
    <2> QED BY <1>5, <2>1, <2>3, Zenon
<1>7. /\ Validators' = Validators /\ \A w : Assign(w)' = Assign(w)
      /\ \A V : AssignedTo(V)' = AssignedTo(V)
      /\ holders' = holders /\ offline' = offline
    <2>1. SameEnv
        BY <1>1, Zenon
    <2> QED BY <2>1, SameOrder, Zenon DEF SameEnv
<1>8. r.pc = "signal" /\ r.pc \in WorkerPcs \ {"none"}
    BY Zenon DEF WorkerPcs
<1> HIDE DEF r
<1>9. /\ \A w \in Validators : worker'[w] = IF w = v THEN r ELSE worker[w]
      /\ Reserved' = Reserved \ {v}
    BY <1>1, <1>4, <1>7, <1>8, ReservedAfter, Zenon
<1>10. InflightExact'
    <2>1. k = AssignedTo(Reserved \ {v})
        BY <1>3
    <2>2. down'.inflight = k
        BY <1>6, Zenon
    <2>3. (AssignedTo(Reserved))' = AssignedTo(Reserved \ {v})
        BY <1>1, <1>9, SameSet, Zenon DEF SameEnv, AssignedTo
    <2> QED BY <2>1, <2>2, <2>3, Zenon DEF InflightExact
<1>11. RowsCounted'
    <2>1. \A w \in Validators : worker[w].pc = "store" => worker'[w] = worker[w]
        BY <1>1, <1>9, Zenon
    <2>2. \A w \in Validators : worker'[w].pc \notin {"none", "fetch"}
                                  => worker[w].pc \notin {"none", "fetch"}
        BY <1>1, <1>9, Zenon
    <2> QED BY <1>1, <1>7, <2>1, <2>2, Zenon DEF DownloadInv, Session, RowsCounted
<1>12. LoopDone'
    BY <1>3, <1>6, Zenon DEF LoopDone
<1> HIDE DEF k
<1> QED BY <1>1, <1>3, <1>6, <1>8, <1>10, <1>11, <1>12, WorkerKeeps, Zenon

\* A worker wakes the loop and ends.
LEMMA SignalStep ==
    ASSUME power \in PowerSets, DownloadInv, NEW v \in Validators, SignalMain(v)
    PROVE  DownloadInv'
<1> DEFINE r == [pc |-> "done"]
<1>1. /\ down # NoDownload /\ worker[v].pc = "signal"
      /\ worker' = [worker EXCEPT ![v] = r] /\ down' = [down EXCEPT !.token = TRUE]
      /\ rows' = rows /\ seen' = seen /\ SameEnv
    BY Zenon DEF SignalMain, SameEnv, uploadVars, jobVars
<1>2. v \notin Reserved /\ Busy(v)
    BY <1>1, Zenon DEF Reserved, Busy
<1>4. worker = [w \in Validators |-> worker[w]]
    BY <1>1, CursorFacts, Zenon
<1>5. down = [pc |-> down.pc, order |-> down.order, cursor |-> down.cursor,
              inflight |-> down.inflight, token |-> down.token, cancelled |-> down.cancelled]
    BY <1>1, Zenon DEF DownloadInv, Session, SessionOK
<1>6. down' = [pc |-> down.pc, order |-> down.order, cursor |-> down.cursor,
               inflight |-> down.inflight, token |-> TRUE, cancelled |-> down.cancelled]
    BY <1>1, <1>5, Zenon
<1>7. /\ Validators' = Validators /\ \A w : Assign(w)' = Assign(w)
      /\ \A V : AssignedTo(V)' = AssignedTo(V)
      /\ holders' = holders /\ offline' = offline /\ Len(power') = Len(power)
    <2>1. SameEnv
        BY <1>1, Zenon
    <2> QED BY <2>1, SameOrder, Zenon DEF SameEnv
<1>8. r.pc = "done" /\ r.pc \in WorkerPcs \ {"none"}
    BY Zenon DEF WorkerPcs
<1> HIDE DEF r
<1>9. /\ \A w \in Validators : worker'[w] = IF w = v THEN r ELSE worker[w]
      /\ Reserved' = Reserved
    <2>1. r.pc \notin {"fetch", "store", "release"}
        BY <1>8, Zenon
    <2>2. /\ \A w \in Validators : worker'[w] = IF w = v THEN r ELSE worker[w]
          /\ Reserved' = Reserved \ {v}
        BY <1>1, <1>4, <1>7, <2>1, ReservedAfter, Zenon
    <2>3. Reserved \ {v} = Reserved
        BY <1>2, Zenon
    <2> QED BY <2>2, <2>3, Zenon
<1>10. /\ down'.pc = down.pc /\ down'.inflight = down.inflight /\ down'.cursor = down.cursor
       /\ down'.cancelled = down.cancelled
    BY <1>6, Zenon
<1>11. InflightExact'
    BY <1>1, <1>7, <1>9, <1>10, Zenon DEF DownloadInv, Session, InflightExact, AssignedTo
<1>12. RowsCounted'
    <2>1. \A w \in Validators : worker[w].pc = "store" => worker'[w] = worker[w]
        BY <1>1, <1>9, Zenon
    <2>2. \A w \in Validators : worker'[w].pc \notin {"none", "fetch"}
                                  => worker[w].pc \notin {"none", "fetch"}
        BY <1>1, <1>9, Zenon
    <2> QED BY <1>1, <1>7, <2>1, <2>2, Zenon DEF DownloadInv, Session, RowsCounted
<1>13. LoopDone'
    BY <1>1, <1>7, <1>10, Zenon DEF DownloadInv, Session, LoopDone, Want
<1> QED BY <1>1, <1>2, <1>6, <1>8, <1>11, <1>12, <1>13, WorkerKeeps, ZenonT(30)

\* A result that the session may end with.
LEMMA EndedWith ==
    ASSUME DownloadInv, down # NoDownload, SameEnv, UNCHANGED <<worker, seen, rows>>,
           \A v \in Validators : ~Busy(v), down.cancelled \in BOOLEAN,
           down = [pc |-> down.pc, order |-> down.order, cursor |-> down.cursor,
                   inflight |-> down.inflight, token |-> down.token,
                   cancelled |-> down.cancelled],
           NEW o, down' = [down EXCEPT !.pc = o],
           \/ o \in {"cancelled", "downloaded"}
           \/ /\ o \in {"ErrNotFound", "ErrNotEnoughShards"}
              /\ ~(3 * Power(signers \ offline) >= TotalVotingPower /\ ~Wraps)
    PROVE  DownloadInv'
<1>1. down' = [pc |-> o, order |-> down.order, cursor |-> down.cursor,
               inflight |-> down.inflight, token |-> down.token, cancelled |-> down.cancelled]
    BY Zenon
<1>2. o \in DownPcs /\ o # "blob" /\ o # "undecodable" /\ down'.pc = o
    BY <1>1, Zenon DEF DownPcs, DownloadResults
<1>3. /\ Validators' = Validators /\ TotalVotingPower' = TotalVotingPower
      /\ Wraps' = Wraps /\ \A V : Power(V)' = Power(V)
      /\ signers' = signers /\ offline' = offline
    BY SameSet, Zenon DEF SameEnv
<1>4. (\A v \in Validators : ~Busy(v))'
    BY <1>3, Zenon DEF Busy
<1>5. (Power(signers \ offline))' = Power(signers \ offline)
    BY <1>3, Zenon DEF SameEnv, Power
<1>6. Retrievable'
    BY <1>2, <1>3, <1>4, <1>5, Zenon DEF Retrievable, DownloadResults
<1> HIDE DEF DownloadInv
<1> QED BY <1>1, <1>2, <1>6, MainKeeps, Zenon

\* The rows the session counted are finitely many.
LEMMA SeenFinite ==
    ASSUME seen \subseteq 0..(TotalRows - 1)
    PROVE  /\ IsFiniteSet(seen) /\ Cardinality(seen) \in Nat
           /\ \A S \in SUBSET seen : IsFiniteSet(S) /\ Cardinality(S) <= Cardinality(seen)
           /\ Want \in Nat /\ (Want = 0 <=> Cardinality(seen) >= OriginalRows)
<1>1. TotalRows \in Nat \ {0} /\ OriginalRows \in Nat
    BY TransferAssumption, Zenon
<1>2. IsFiniteSet(0..(TotalRows - 1))
    BY <1>1, FS_Interval
<1>3. IsFiniteSet(seen) /\ Cardinality(seen) \in Nat
    BY <1>2, FS_Subset, FS_CardinalityType, Zenon
<1>4. \A S \in SUBSET seen : IsFiniteSet(S) /\ Cardinality(S) <= Cardinality(seen)
    BY <1>3, FS_Subset, Zenon
<1> QED BY <1>1, <1>3, <1>4 DEF Want

\* Blob decodes only what is in the buffer, and every reachable holder has been asked
\* before it gives up.
LEMMA BlobDecodes ==
    ASSUME power \in PowerSets, signers \subseteq holders, holders \subseteq Validators,
           rows \subseteq seen, DownloadInv, Blob
    PROVE  DownloadInv'
<1> DEFINE o == Outcome
           n == Len(power)
           R == signers \ offline
<1>1. /\ down.pc = "blob" /\ \A v \in Validators : ~Busy(v)
      /\ down' = [down EXCEPT !.pc = o]
      /\ SameEnv /\ UNCHANGED <<worker, seen, rows>>
    BY Zenon DEF Blob, Step, SameEnv, uploadVars, jobVars
<1>2. down # NoDownload
    BY <1>1 DEF NoDownload
<1>3. /\ down = [pc |-> down.pc, order |-> down.order, cursor |-> down.cursor,
                 inflight |-> down.inflight, token |-> down.token, cancelled |-> down.cancelled]
      /\ down.cancelled \in BOOLEAN
    BY <1>2, Zenon DEF DownloadInv, Session, SessionOK
<1>4. /\ Validators = 1..n /\ n \in Nat /\ OrderOK(down.order) /\ down.cursor \in 1..(n + 1)
    BY <1>2, CursorFacts, Zenon
<1>5. /\ seen \subseteq 0..(TotalRows - 1)
      /\ \A x \in seen : \/ x \in rows
                         \/ \E v \in Validators : worker[v].pc = "store" /\ x \in worker[v].novel
      /\ \A v \in Validators : v \in holders \ offline /\ worker[v].pc \notin {"none", "fetch"}
                                 => Assign(v) \subseteq seen
    BY <1>2, Zenon DEF DownloadInv, Session, RowsCounted
<1>6. /\ Cardinality(seen) \in Nat /\ OriginalRows \in Nat
      /\ \A S \in SUBSET seen : IsFiniteSet(S) /\ Cardinality(S) <= Cardinality(seen)
      /\ Want \in Nat /\ (Want = 0 <=> Cardinality(seen) >= OriginalRows)
    BY <1>5, SeenFinite, TransferAssumption, Zenon
<1>7. \A v \in Validators : worker[v].pc \in {"none", "done"}
    BY <1>1, Zenon DEF Busy
<1>8. seen \subseteq rows
    BY <1>5, <1>7, Zenon
<1>9. CASE down.cancelled
    <2>1. o = "cancelled"
        BY <1>9, Zenon DEF Outcome
    <2> QED BY <1>1, <1>2, <1>3, <2>1, EndedWith, Zenon
<1>10. CASE ~down.cancelled /\ Want = 0
    <2>1. rows \subseteq seen
        BY Zenon
    <2>2. rows = seen
        BY <1>8, <2>1, Zenon
    <2>3. Cardinality(rows) >= OriginalRows
        BY <1>6, <1>10, <2>2, Zenon
    <2>4. o = "downloaded"
        BY <1>6, <1>10, <2>2, <2>3, SMTT(30) DEF Outcome
    <2> QED BY <1>1, <1>2, <1>3, <2>4, EndedWith, Zenon
<1>11. CASE ~down.cancelled /\ Want # 0
    <2>1. down.cursor = n + 1
        <3>1. down.cursor > n
            BY <1>1, <1>2, <1>11, Zenon DEF DownloadInv, Session, LoopDone
        <3> QED BY <1>4, <3>1
    <2>2. \A v \in Validators : worker[v].pc = "done"
        <3> SUFFICES ASSUME NEW v \in Validators PROVE worker[v].pc # "none"
            BY <1>7, Zenon
        <3>1. PICK i \in Validators : down.order[i].val = v
            BY <1>4, Zenon DEF OrderOK
        <3>2. i \in 1..(down.cursor - 1)
            BY <1>4, <2>1
        <3>3. Before(v, down.cursor)
            BY <3>1, <3>2, Zenon DEF Before
        <3> QED BY <1>2, <3>3, Zenon DEF DownloadInv, Session, WorkersOK
    <2>3. AssignAll(R) \subseteq seen
        <3>1. \A v \in R : v \in Validators /\ v \in holders \ offline
            BY Zenon
        <3>2. \A v \in R : Assign(v) \subseteq seen
            BY <1>5, <2>2, <3>1, Zenon
        <3> QED BY <3>2, Zenon DEF AssignAll
    <2>4. ~(3 * Power(R) >= TotalVotingPower /\ ~Wraps)
        <3> SUFFICES ASSUME 3 * Power(R) >= TotalVotingPower, ~Wraps PROVE FALSE
            BY Zenon
        <3>1. R \in SUBSET Validators
            BY Zenon
        <3>2. Cardinality(AssignAll(R)) >= OriginalRows
            BY <3>1, ThirdHasRows, Zenon DEF ThirdReconstructs
        <3>3. Cardinality(AssignAll(R)) <= Cardinality(seen) /\ IsFiniteSet(AssignAll(R))
            BY <1>6, <2>3, Zenon
        <3>4. Cardinality(AssignAll(R)) \in Nat
            BY <3>3, FS_CardinalityType, Zenon
        <3> HIDE DEF R
        <3> QED BY <1>6, <1>11, <3>2, <3>3, <3>4, SMTT(30)
    <2>5. o \in {"ErrNotFound", "ErrNotEnoughShards"}
        <3>1. Want > 0
            BY <1>6, <1>11
        <3>2. CASE seen = {}
            BY <1>11, <3>1, <3>2, Zenon DEF Outcome
        <3>3. CASE seen # {}
            BY <1>11, <3>1, <3>3, Zenon DEF Outcome
        <3> QED BY <3>2, <3>3, Zenon
    <2> QED BY <1>1, <1>2, <1>3, <2>4, <2>5, EndedWith, Zenon
<1> QED BY <1>3, <1>9, <1>10, <1>11, Zenon

\* A download starts from nothing.
LEMMA DownloadStarts ==
    ASSUME BlobInv, DownloadInv, StartDownload
    PROVE  DownloadInv'
<1>1. PICK order \in Select :
          down' = [pc |-> "loop", order |-> order, cursor |-> 1, inflight |-> 0,
                   token |-> FALSE, cancelled |-> FALSE]
    BY Zenon DEF StartDownload
<1>2. /\ upload = "ok" /\ down = NoDownload /\ job' = [v \in Validators |-> NoJob]
      /\ worker' = [v \in Validators |-> [pc |-> "none"]]
      /\ UNCHANGED <<power, upload, seen, rows>>
    BY Zenon DEF StartDownload
<1>3. power \in PowerSets
    BY Zenon DEF BlobInv, JobsTyped
<1>4. /\ down'.pc = "loop" /\ down'.order = order /\ down'.cursor = 1
      /\ down'.inflight = 0 /\ down'.token = FALSE /\ down'.cancelled = FALSE
    BY <1>1, Zenon
<1>5. seen' = {} /\ rows' = {}
    BY <1>2, Zenon DEF DownloadInv
<1>6. /\ Validators' = Validators /\ \A v : AssignedRows(v)' = AssignedRows(v)
      /\ Len(power') = Len(power) /\ Len(power) \in Nat
    BY <1>2, <1>3, SameSet, TransferAssumption, Zenon
<1>7. OrderOK(order)'
    <2>1. OrderOK(order)
        BY <1>3, SelectOrders, Zenon
    <2> QED BY <1>6, <2>1, Zenon DEF OrderOK
<1>8. down'.pc \in DownPcs /\ down'.pc \notin DownloadResults /\ down' # NoDownload
    BY <1>4, SMTT(30) DEF DownPcs, DownloadResults, NoDownload
<1>9. SessionOK'
    <2>1. Unstarted'
        BY <1>2, <1>6, Zenon DEF Unstarted, NoJob
    <2>2. OrderOK(down.order)'
        BY <1>4, <1>7, ZenonT(30) DEF OrderOK
    <2> QED BY <1>1, <1>2, <1>4, <1>6, <1>8, <2>1, <2>2, SMTT(30) DEF SessionOK
<1>10. \A v \in Validators : worker'[v] = [pc |-> "none"]
    BY <1>2, Zenon
<1>11. WorkersOK'
    <2>1. \A v : ~Before(v, down.cursor)'
        BY <1>4 DEF Before
    <2> QED BY <1>2, <1>6, <1>10, <2>1, Zenon DEF WorkersOK, WorkerPcs
<1>12. InflightExact'
    <2>1. Reserved' = {}
        BY <1>6, <1>10 DEF Reserved
    <2>2. AssignedTo(Reserved)' = 0
        BY <2>1, SumEmpty, Zenon DEF AssignedTo
    <2> QED BY <1>4, <2>2, Zenon DEF InflightExact
<1>13. RowsCounted'
    BY <1>5, <1>6, <1>10 DEF RowsCounted
<1>14. LoopDone'
    BY <1>4, Zenon DEF LoopDone
<1> QED BY <1>8, <1>9, <1>11, <1>12, <1>13, <1>14, NoResult, Zenon
        DEF DownloadInv, Session, NoDownload

\* A step that leaves the download's state alone.
LEMMA DownloadSame ==
    ASSUME DownloadInv, SameEnv, UNCHANGED <<down, worker, seen, rows>>
    PROVE  DownloadInv'
<1>1. CASE down = NoDownload
    <2>1. (down.pc \notin DownloadResults)'
        BY <1>1, Zenon DEF NoDownload, DownloadResults
    <2>2. Retrievable'
        BY <2>1, NoResult, Zenon
    <2> QED BY <1>1, <2>2, Zenon DEF DownloadInv, NoDownload
<1>2. CASE down # NoDownload
    <2>1. /\ down = [pc |-> down.pc, order |-> down.order, cursor |-> down.cursor,
                     inflight |-> down.inflight, token |-> down.token,
                     cancelled |-> down.cancelled]
          /\ down.pc \in DownPcs /\ down.cancelled \in BOOLEAN
          /\ down.pc = "blob" /\ ~down.cancelled
               => down.inflight = 0 /\ (Want = 0 \/ down.cursor > Len(power))
        BY <1>2, Zenon DEF DownloadInv, Session, SessionOK, LoopDone
    <2>2. /\ Validators' = Validators /\ TotalVotingPower' = TotalVotingPower
          /\ Wraps' = Wraps /\ signers' = signers /\ offline' = offline
        BY SameSet, Zenon DEF SameEnv
    <2>3. (Power(signers \ offline))' = Power(signers \ offline)
        BY Zenon DEF SameEnv, Power
    <2>4. Retrievable'
        BY <2>2, <2>3, Zenon DEF DownloadInv, Retrievable, Busy
    <2>5. down' = [pc |-> down.pc, order |-> down.order, cursor |-> down.cursor,
                   inflight |-> down.inflight, token |-> down.token,
                   cancelled |-> down.cancelled]
        BY <2>1, Zenon
    <2> HIDE DEF DownloadInv
    <2> QED BY <1>2, <2>1, <2>4, <2>5, MainKeeps, Zenon
<1> QED BY <1>1, <1>2, Zenon

\* Before a download the upload moves; once there is one, it is over.
LEMMA UploadAside ==
    ASSUME DownloadInv, UNCHANGED <<power, down, offline, worker, seen, rows>>,
           down # NoDownload => SameEnv
    PROVE  DownloadInv'
<1>1. CASE down = NoDownload
    <2>1. (down.pc \notin DownloadResults)'
        BY <1>1, Zenon DEF NoDownload, DownloadResults
    <2>2. Retrievable'
        BY <2>1, NoResult, Zenon
    <2> QED BY <1>1, <2>2, Zenon DEF DownloadInv, NoDownload
<1>2. CASE down # NoDownload
    BY <1>2, DownloadSame, Zenon
<1> QED BY <1>1, <1>2, Zenon

\* Every step preserves the invariant.
LEMMA DownloadStep == BlobInv /\ DownloadInv /\ [Next]_vars => DownloadInv'
<1> SUFFICES ASSUME BlobInv, DownloadInv, [Next]_vars PROVE DownloadInv'
    BY Zenon
<1>1. /\ power \in PowerSets /\ signers \subseteq holders /\ holders \subseteq Validators
      /\ rows \subseteq seen
    BY Zenon DEF BlobInv, JobsTyped, SignersHold, RowsSeen
<1>2. down # NoDownload => upload = "ok" /\ \A v \in Validators : job[v].pc = "none"
    BY Zenon DEF DownloadInv, Session, SessionOK, Unstarted
<1>3. CASE UNCHANGED vars
    <2>1. SameEnv /\ UNCHANGED <<down, worker, seen, rows>>
        BY <1>3, Zenon DEF vars, uploadVars, jobVars, downloadVars, SameEnv
    <2> QED BY <2>1, DownloadSame, Zenon
<1>4. CASE Free
    <2>1. SameEnv /\ UNCHANGED <<down, worker, seen, rows>>
        BY <1>4, Zenon DEF Free, jobVars, downloadVars, SameEnv
    <2> QED BY <2>1, DownloadSame, Zenon
<1>5. CASE StartUpload \/ ReturnUpload \/ Cancel
    <2>1. upload # "ok" /\ UNCHANGED <<power, down, offline, worker, seen, rows>>
        BY <1>5, Zenon DEF StartUpload, ReturnUpload, Cancel, downloadVars
    <2> QED BY <1>2, <2>1, UploadAside, Zenon
<1>6. ASSUME NEW v \in Validators, JobStep(v) PROVE DownloadInv'
    <2>1. job[v].pc # "none" /\ UNCHANGED <<power, down, offline, worker, seen, rows>>
        BY <1>6, Zenon DEF JobStep, SendShard, Backoff, GiveUp, AddSignature, Finish, downloadVars
    <2> QED BY <1>2, <2>1, UploadAside, Zenon
<1>7. CASE StartDownload
    BY <1>7, DownloadStarts, Zenon
<1>8. CASE MainStep \/ CancelDownload
    <2>1. down # NoDownload
        BY <1>8 DEF MainStep, Ready, Pick, Park, Blob, CancelDownload, NoDownload
    <2>2. CASE Blob
        BY <1>1, <2>2, BlobDecodes, Zenon
    <2>3. CASE Pick /\ ~(down.cursor > Len(Selected) \/ Want <= down.inflight)
        BY <1>1, <2>1, <2>3, PickStarts, Zenon
    <2>4. CASE Ready \/ Park \/ CancelDownload
               \/ (Pick /\ (down.cursor > Len(Selected) \/ Want <= down.inflight))
        BY <1>1, <2>1, <2>4, LoopSteps, Zenon
    <2> QED BY <1>8, <2>2, <2>3, <2>4, Zenon DEF MainStep
<1>9. ASSUME NEW v \in Validators, WorkerStep(v) PROVE DownloadInv'
    BY <1>1, <1>9, FetchStep, StoreStep, ReleaseStep, SignalStep, Zenon DEF WorkerStep
<1> QED BY <1>3, <1>4, <1>5, <1>6, <1>7, <1>8, <1>9, Zenon DEF Next

\* For every validator set, selection, set of holders that are gone and interleaving of the
\* workers: a download that reaches signers with a third of the power gets the blob of a
\* successful upload unless the row floor made the assignment wrap, it decodes only rows
\* that are in its buffer, and no worker writes to the buffer after the result
\* (download.next, downloadFrom, release, download.Blob, Reconstructor.Add, Set.Assign).
THEOREM UploadsAreRetrievable == Spec => []Retrievable
<1>1. Init => DownloadInv
    <2> SUFFICES ASSUME Init PROVE DownloadInv
        BY Zenon
    <2>1. down = NoDownload /\ seen = {} /\ rows = {}
        BY Zenon DEF Init
    <2>2. down.pc \notin DownloadResults /\ down.pc # "undecodable"
        BY <2>1, Zenon DEF NoDownload, DownloadResults
    <2>3. Retrievable
        BY <2>2, Zenon DEF Retrievable
    <2> QED BY <2>1, <2>3, Zenon DEF DownloadInv
<1>2. DownloadInv => Retrievable
    BY Zenon DEF DownloadInv
<1> QED BY <1>1, <1>2, DownloadStep, BlobInit, BlobStep, PTL DEF Spec

\* For every validator set with room for the rounding: a third of the power is assigned
\* enough different rows unless the floor makes the assignment wrap, and the validators
\* that Select puts first share no row (Set.Assign, Set.Select).
THEOREM RowsAreSpread == ASSUME RoundingFits PROVE Spec => []RowsSpread
<1>1. ASSUME BlobInv PROVE RowsSpread
    <2>1. power \in PowerSets
        BY <1>1, Zenon DEF BlobInv, JobsTyped
    <2>2. ASSUME NEW v \in BeforeSplit, NEW w \in BeforeSplit, v # w
          PROVE  Assign(v) \cap Assign(w) = {}
        <3>1. v \in Validators /\ w \in Validators /\ Unwrapped(v) /\ Unwrapped(w)
            BY <2>1, SplitUnwrapped, Zenon DEF BeforeSplit
        <3> QED BY <2>1, <2>2, <3>1, UnwrappedDisjoint, Zenon
    <2> QED BY <2>1, <2>2, ThirdHasRows, Zenon DEF RowsSpread
<1> QED BY <1>1, BlobInit, BlobStep, PTL DEF Spec
=============================================================================
