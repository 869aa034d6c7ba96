------------------------- MODULE FibreServerProofs -------------------------
(***************************************************************************)
(* The occupancy counter of a Fibre validator, the budget it enforces and  *)
(* the prune index, for every number of uploads, every set of promises,    *)
(* every budget and parameter schedule, and any number of crashes and      *)
(* failing writes.                                                         *)
(***************************************************************************)
EXTENDS FibreServer, SumTheorems, TLAPS

-----------------------------------------------------------------------------
(* The inductive invariant                                                 *)

Keys == Int \X Promises
DueKeys(n) == {k \in Keys : k[1] < Minute(n)}

IndexOK(d) ==
    /\ d \in [pp : SUBSET Promises, shard : SUBSET Promises, prune : SUBSET Keys]
    /\ d.shard \subseteq d.pp

BusyHandler == [pc : {"verified", "reserve", "over", "publish", "commit", "sign"},
                p : Promises, pruneAt : Nat, budget : Budgets \cup {0}]

PrunerOK(w, n) ==
    \/ w = IdlePruner
    \/ w = [pc |-> "budget"]
    \/ w \in [pc : {"stat"}, todo : SUBSET DueKeys(n), batch : SUBSET DueKeys(n), freed : Nat]
    \/ w \in [pc : {"remove"}, todo : SUBSET DueKeys(n), batch : SUBSET DueKeys(n),
              freed : Nat, key : DueKeys(n), seen : BOOLEAN]
    \/ w \in [pc : {"release"}, freed : Nat]

\* Reserving, InFlight and Unreleased, of any state.
ReservingIn(h) == {u \in Handlers : h[u].pc \in {"over", "publish"}}
InFlightIn(h) == SumFunctionOnSet([u \in ReservingIn(h) |-> h[u].p.size], ReservingIn(h))
UnreleasedIn(w) == IF w.pc \in {"stat", "remove", "release"} THEN w.freed ELSE 0

HandlersOK(h) ==
    /\ h \in [Handlers -> {IdleHandler} \cup BusyHandler]
    /\ IsFiniteSet(ReservingIn(h))

FilesOK(f) == f \subseteq Promises /\ IsFiniteSet(f)

EnvOK(n, e, b) == n \in 0 .. MaxTime /\ e \in 1 .. Len(ParamSchedule) /\ b \in Budgets \cup {0}

Exact(us, f, h, w) == us = TotalSize(f) + InFlightIn(h) + UnreleasedIn(w)

\* Beside the types: the index a crash falls back to is one too, a process that is down
\* has neither handlers nor a prune loop, and the prune loop holds due keys only.
ServerInv ==
    /\ EnvOK(now, era, budget)
    /\ up \in BOOLEAN /\ drift \in BOOLEAN /\ used \in Int
    /\ IndexOK(db) /\ \A d \in survivors : IndexOK(d)
    /\ FilesOK(files) /\ signed \subseteq Promises
    /\ HandlersOK(handler) /\ PrunerOK(pruner, now)
    /\ ~up => handler = [u \in Handlers |-> IdleHandler] /\ pruner = IdlePruner
    /\ up /\ ~drift => Exact(used, files, handler, pruner)

-----------------------------------------------------------------------------
(* The operators                                                           *)

\* A promise has a size.
LEMMA PromiseSize == ASSUME NEW p \in Promises PROVE p.size \in Nat /\ p.creation \in Nat
BY ServerAssumption, Zenon

\* A handler that is not idle has a promise, a prune time and a budget.
LEMMA BusyFields ==
    ASSUME NEW h, HandlersOK(h), NEW u \in Handlers, h[u].pc # "idle"
    PROVE  /\ h[u] \in BusyHandler
           /\ h[u].p \in Promises /\ h[u].p.size \in Nat
           /\ h[u].pruneAt \in Nat /\ h[u].budget \in Budgets \cup {0}
<1>1. h[u] \in {IdleHandler} \cup BusyHandler
    BY Zenon DEF HandlersOK
<1>2. h[u] \in BusyHandler
    BY <1>1 DEF IdleHandler
<1> QED BY <1>2, PromiseSize, Zenon DEF BusyHandler

\* The bytes on disk are a natural number.
LEMMA FilesNat == ASSUME NEW f, FilesOK(f) PROVE TotalSize(f) \in Nat
<1>1. \A p \in f : [q \in f |-> q.size][p] \in Nat
    BY PromiseSize, Zenon DEF FilesOK
<1> QED BY <1>1, SumNat, Zenon DEF FilesOK, TotalSize

\* A new file adds its size.
LEMMA FilesAdd ==
    ASSUME NEW f, FilesOK(f), NEW p \in Promises, p \notin f
    PROVE  FilesOK(f \cup {p}) /\ TotalSize(f \cup {p}) = TotalSize(f) + p.size
<1> DEFINE g == f \cup {p}
           F == [q \in f |-> q.size]
           G == [q \in g |-> q.size]
<1>1. FilesOK(g)
    BY FS_AddElement, Zenon DEF FilesOK
<1>2. \A q \in f : G[q] \in Int /\ G[q] = F[q]
    BY PromiseSize DEF FilesOK
<1>3. G[p] = p.size /\ G[p] \in Int
    BY PromiseSize
<1>4. SumFunctionOnSet(G, f \cup {p}) = SumFunctionOnSet(G, f) + G[p]
    <2> HIDE DEF F, G
    <2> QED BY <1>2, <1>3, SumAdd, Zenon DEF FilesOK
<1>5. SumFunctionOnSet(G, f) = SumFunctionOnSet(F, f)
    <2> HIDE DEF F, G
    <2> QED BY <1>2, SumSame, Zenon DEF FilesOK
<1> QED BY <1>1, <1>3, <1>4, <1>5, Zenon DEF TotalSize

\* A removed file takes its size away.
LEMMA FilesRemove ==
    ASSUME NEW f, FilesOK(f), NEW p \in f
    PROVE  FilesOK(f \ {p}) /\ TotalSize(f \ {p}) = TotalSize(f) - p.size
<1>1. FilesOK(f \ {p}) /\ (f \ {p}) \cup {p} = f /\ p \in Promises
    BY FS_RemoveElement, Zenon DEF FilesOK
<1>2. TotalSize((f \ {p}) \cup {p}) = TotalSize(f \ {p}) + p.size
    BY <1>1, FilesAdd, Zenon
<1> QED BY <1>1, <1>2, FilesNat, PromiseSize

\* The bytes reserved by uploads are a natural number.
LEMMA InFlightNat == ASSUME NEW h, HandlersOK(h) PROVE InFlightIn(h) \in Nat
<1> DEFINE F == [u \in ReservingIn(h) |-> h[u].p.size]
<1>1. \A u \in ReservingIn(h) : F[u] \in Nat
    BY BusyFields, Zenon DEF ReservingIn
<1>2. IsFiniteSet(ReservingIn(h))
    BY Zenon DEF HandlersOK
<1>3. SumFunctionOnSet(F, ReservingIn(h)) \in Nat
    <2> HIDE DEF F
    <2> QED BY <1>1, <1>2, SumNat, Zenon
<1> QED BY <1>3, Zenon DEF InFlightIn

\* h and g are the handlers before and after a step of u.
StepOf(u, h, g) ==
    /\ g \in [Handlers -> {IdleHandler} \cup BusyHandler]
    /\ \A v \in Handlers \ {u} : g[v] = h[v]

\* A reservation adds the size of the upload.
LEMMA InFlightAdd ==
    ASSUME NEW h, HandlersOK(h), NEW g, NEW u \in Handlers, StepOf(u, h, g),
           u \notin ReservingIn(h), u \in ReservingIn(g)
    PROVE  HandlersOK(g) /\ InFlightIn(g) = InFlightIn(h) + g[u].p.size
<1> DEFINE R == ReservingIn(h)
           F == [v \in ReservingIn(h) |-> h[v].p.size]
           G == [v \in ReservingIn(g) |-> g[v].p.size]
<1>1. ReservingIn(g) = R \cup {u} /\ u \notin R /\ IsFiniteSet(R)
    BY Zenon DEF ReservingIn, StepOf, HandlersOK
<1>2. HandlersOK(g)
    BY <1>1, FS_AddElement, Zenon DEF HandlersOK, StepOf
<1>3. \A v \in R : G[v] = F[v] /\ v \in Handlers /\ v # u
    BY <1>1, Zenon DEF StepOf, ReservingIn
<1>4. \A v \in ReservingIn(g) : G[v] \in Int
    BY <1>2, BusyFields DEF ReservingIn
<1>5. G[u] = g[u].p.size
    BY Zenon
<1>6. SumFunctionOnSet(G, R \cup {u}) = SumFunctionOnSet(G, R) + G[u]
    <2> HIDE DEF F, G, R
    <2> QED BY <1>1, <1>4, SumAdd, Zenon
<1>7. SumFunctionOnSet(G, R) = SumFunctionOnSet(F, R)
    <2> HIDE DEF F, G, R
    <2> QED BY <1>1, <1>3, SumSame
<1>8. SumFunctionOnSet(G, ReservingIn(g)) = SumFunctionOnSet(G, R \cup {u})
    BY <1>1, Zenon
<1> QED BY <1>2, <1>5, <1>6, <1>7, <1>8, Zenon DEF InFlightIn

\* The end of a reservation takes the size of the upload away.
LEMMA InFlightRemove ==
    ASSUME NEW h, HandlersOK(h), NEW g, NEW u \in Handlers, StepOf(u, h, g),
           u \in ReservingIn(h), u \notin ReservingIn(g)
    PROVE  HandlersOK(g) /\ InFlightIn(g) = InFlightIn(h) - h[u].p.size
<1>1. ReservingIn(g) \subseteq ReservingIn(h) /\ StepOf(u, g, h)
    BY Zenon DEF ReservingIn, StepOf, HandlersOK
<1>2. HandlersOK(g)
    BY <1>1, FS_Subset, Zenon DEF HandlersOK, StepOf
<1>3. InFlightIn(h) = InFlightIn(g) + h[u].p.size
    BY <1>1, <1>2, InFlightAdd, Zenon
<1>4. h[u].p.size \in Nat
    BY BusyFields, Zenon DEF ReservingIn
<1> QED BY <1>2, <1>3, <1>4, InFlightNat

\* Any other step of an upload leaves the bytes in flight alone.
LEMMA InFlightSame ==
    ASSUME NEW h, HandlersOK(h), NEW g, NEW u \in Handlers, StepOf(u, h, g),
           u \notin ReservingIn(h), u \notin ReservingIn(g)
    PROVE  HandlersOK(g) /\ InFlightIn(g) = InFlightIn(h)
<1>1. ReservingIn(g) = ReservingIn(h)
    BY Zenon DEF ReservingIn, StepOf
<1>2. [v \in ReservingIn(g) |-> g[v].p.size] = [v \in ReservingIn(h) |-> h[v].p.size]
    BY <1>1, Zenon DEF ReservingIn, StepOf
<1> QED BY <1>1, <1>2, Zenon DEF InFlightIn, HandlersOK, StepOf

\* No handler of an idle server reserves anything.
LEMMA IdleHandlers ==
    ASSUME NEW h, h = [u \in Handlers |-> IdleHandler]
    PROVE  HandlersOK(h) /\ InFlightIn(h) = 0
<1>1. ReservingIn(h) = {}
    BY Zenon DEF ReservingIn, IdleHandler
<1>2. SumFunctionOnSet([u \in ReservingIn(h) |-> h[u].p.size], {}) = 0
    BY SumEmpty, Zenon
<1> QED BY <1>1, <1>2, FS_EmptySet, Zenon DEF InFlightIn, HandlersOK

\* Minutes of natural times are natural and do not go back.
LEMMA MinuteLater ==
    ASSUME NEW n \in Nat
    PROVE  Minute(n) \in Nat /\ Minute(n) <= Minute(n + 1)
<1>1. TicksPerMinute \in Nat /\ TicksPerMinute > 0
    BY ServerAssumption, Zenon
<1> QED BY <1>1, SMTT(30) DEF Minute

\* What is due stays due.
LEMMA PrunerLater ==
    ASSUME NEW n \in Nat, NEW w, PrunerOK(w, n)
    PROVE  PrunerOK(w, n + 1)
<1>1. DueKeys(n) \subseteq DueKeys(n + 1)
    BY MinuteLater DEF DueKeys, Keys
<1> QED BY <1>1, Zenon DEF PrunerOK

\* The prune time of a promise under each of the parameters.
PruneTimeIn(p, e) == Max({p.creation + ParamSchedule[e].timeout,
                          p.creation + ParamSchedule[e].retention})

\* A prune time is a natural number.
LEMMA PruneTimeNat ==
    ASSUME NEW p \in Promises, NEW e \in 1 .. Len(ParamSchedule)
    PROVE  PruneTimeIn(p, e) \in Nat
<1>1. ParamSchedule[e].timeout \in Nat /\ ParamSchedule[e].retention \in Nat
    <2> DEFINE P == [timeout : Nat, retention : Nat]
    <2>1. ParamSchedule \in Seq(P)
        BY ServerAssumption, Zenon
    <2>2. ParamSchedule[e] \in P
        <3> HIDE DEF P
        <3> QED BY <2>1
    <2> QED BY <2>2, Zenon
<1> DEFINE a == p.creation + ParamSchedule[e].timeout
           b == p.creation + ParamSchedule[e].retention
<1>2. a \in Nat /\ b \in Nat
    BY <1>1, PromiseSize, SMTT(30)
<1> HIDE DEF a, b
<1>3. \E x \in {a, b} : \A y \in {a, b} : x >= y
    BY <1>2
<1>4. Max({a, b}) \in {a, b}
    BY <1>3, Zenon DEF Max
<1> QED BY <1>2, <1>4, Zenon DEF PruneTimeIn, a, b

\* It is what shardPruneAt computes.
LEMMA PruneAtTime == ASSUME NEW p PROVE shardPruneAt(p) = PruneTimeIn(p, era)
BY Zenon DEF shardPruneAt, expiresAt, PruneTimeIn, params

\* The batches written to the index keep a marker with its promise record.
LEMMA Batches ==
    ASSUME IndexOK(db)
    PROVE  /\ \A p \in Promises, t \in Nat : IndexOK(PutBatch(p, t))
           /\ \A keys : IndexOK(PruneBatch(keys))
           /\ \A p : IndexOK([db EXCEPT !.shard = db.shard \ {p}])
<1>1. ASSUME NEW p \in Promises, NEW t \in Nat PROVE IndexOK(PutBatch(p, t))
    BY <1>1, MinuteLater DEF IndexOK, PutBatch, Keys
<1>2. ASSUME NEW keys PROVE IndexOK(PruneBatch(keys))
    <2> DEFINE gone == {k[2] : k \in keys}
    <2>1. PruneBatch(keys) = [pp |-> db.pp \ gone, shard |-> db.shard \ gone,
                              prune |-> db.prune \ keys]
        BY Zenon DEF PruneBatch
    <2> HIDE DEF gone
    <2> QED BY <2>1 DEF IndexOK
<1>3. ASSUME NEW p PROVE IndexOK([db EXCEPT !.shard = db.shard \ {p}])
    BY Zenon DEF IndexOK
<1> QED BY <1>1, <1>2, <1>3, Zenon

\* A commit of a good index leaves good indexes to fall back to.
LEMMA CommitOK ==
    ASSUME NEW d, IndexOK(d), \A e \in survivors : IndexOK(e), Commit(d)
    PROVE  IndexOK(db)' /\ (\A e \in survivors : IndexOK(e))'
BY Zenon DEF Commit

-----------------------------------------------------------------------------
(* The steps of an upload                                                  *)

\* A handler that is past its start runs in a process that is up.
LEMMA Running ==
    ASSUME ServerInv, NEW u \in Handlers, handler[u].pc # "idle"
    PROVE  up
BY DEF ServerInv, IdleHandler

\* Where Goto and Return take a handler.
LEMMA GotoStep ==
    ASSUME HandlersOK(handler), NEW u \in Handlers, handler[u].pc # "idle",
           NEW pc \in {"verified", "reserve", "over", "publish", "commit", "sign"}, Goto(u, pc)
    PROVE  /\ StepOf(u, handler, handler')
           /\ handler'[u].pc = pc /\ handler'[u].p = handler[u].p
           /\ handler'[u].pruneAt = handler[u].pruneAt
<1>1. handler[u] \in BusyHandler
    BY BusyFields, Zenon
<1>2. [handler[u] EXCEPT !.pc = pc] \in BusyHandler
    BY <1>1, Zenon DEF BusyHandler
<1>3. handler \in [Handlers -> {IdleHandler} \cup BusyHandler]
    BY Zenon DEF HandlersOK
<1>4. handler' = [handler EXCEPT ![u] = [handler[u] EXCEPT !.pc = pc]]
    BY Zenon DEF Goto
<1>5. /\ [handler[u] EXCEPT !.pc = pc].pc = pc
      /\ [handler[u] EXCEPT !.pc = pc].p = handler[u].p
      /\ [handler[u] EXCEPT !.pc = pc].pruneAt = handler[u].pruneAt
    BY <1>1, Zenon DEF BusyHandler
<1> QED BY <1>2, <1>3, <1>4, <1>5, Zenon DEF StepOf

\* A handler that returns is idle.
LEMMA ReturnStep ==
    ASSUME HandlersOK(handler), NEW u \in Handlers, Return(u)
    PROVE  StepOf(u, handler, handler') /\ u \notin ReservingIn(handler')
BY Zenon DEF HandlersOK, Return, StepOf, ReservingIn, IdleHandler

\* A step of an upload keeps the invariant when it leaves the files and the counter alone.
LEMMA QuietUpload ==
    ASSUME ServerInv, NEW u \in Handlers, StepOf(u, handler, handler'),
           u \notin ReservingIn(handler), u \notin ReservingIn(handler'), up,
           UNCHANGED <<envVars, files, occVars, pruner, drift>>,
           IndexOK(db)', (\A d \in survivors : IndexOK(d))', (signed \subseteq Promises)'
    PROVE  ServerInv'
<1>1. HandlersOK(handler') /\ InFlightIn(handler') = InFlightIn(handler)
    BY InFlightSame, Zenon DEF ServerInv
<1>2. Exact(used, files, handler, pruner) => Exact(used, files, handler, pruner)'
    BY <1>1, Zenon DEF Exact, envVars, occVars
<1> QED BY <1>1, <1>2, Zenon DEF ServerInv, envVars, occVars

\* A verified promise comes with a prune time.
LEMMA VerifyServer ==
    ASSUME ServerInv, NEW u \in Handlers, NEW p \in Promises, VerifyPromise(u, p)
    PROVE  ServerInv'
<1> DEFINE b == [pc |-> "verified", p |-> p, pruneAt |-> shardPruneAt(p), budget |-> 0]
<1>1. b \in BusyHandler /\ b.pc = "verified"
    BY PruneAtTime, PruneTimeNat, Zenon DEF BusyHandler, ServerInv, EnvOK
<1>2. handler' = [handler EXCEPT ![u] = b] /\ handler[u].pc = "idle"
    BY Zenon DEF VerifyPromise
<1> HIDE DEF b
<1>3. StepOf(u, handler, handler') /\ u \notin ReservingIn(handler)
      /\ u \notin ReservingIn(handler')
    BY <1>1, <1>2, Zenon DEF StepOf, ReservingIn, ServerInv, HandlersOK
<1> QED BY <1>3, QuietUpload, Zenon DEF VerifyPromise, storeVars, ServerInv

\* Taking the stripe lock and looking the shard up leave the counter alone.
LEMMA LockServer ==
    ASSUME ServerInv, NEW u \in Handlers, LockAndHas(u)
    PROVE  ServerInv'
<1> DEFINE pc == IF Has(handler[u].p) THEN "sign" ELSE "reserve"
           b == [handler[u] EXCEPT !.pc = pc, !.budget = budget]
<1>0. handler[u].pc = "verified"
    BY Zenon DEF LockAndHas, uploadLock
<1>1. handler[u] \in BusyHandler
    BY <1>0, BusyFields, Zenon DEF ServerInv
<1>2. b \in BusyHandler /\ b.pc \in {"sign", "reserve"}
    BY <1>1, Zenon DEF BusyHandler, ServerInv, EnvOK
<1>3. handler' = [handler EXCEPT ![u] = b]
    BY <1>1, Zenon DEF LockAndHas, ServerInv, HandlersOK
<1> HIDE DEF b
<1>4. StepOf(u, handler, handler') /\ u \notin ReservingIn(handler)
      /\ u \notin ReservingIn(handler')
    BY <1>0, <1>2, <1>3, Zenon DEF StepOf, ReservingIn, ServerInv, HandlersOK
<1> QED BY <1>0, <1>4, QuietUpload, Running, Zenon DEF LockAndHas, storeVars, ServerInv

\* The atomic Add counts the upload it puts in flight, whether it fits or not.
LEMMA ReserveServer ==
    ASSUME ServerInv, NEW u \in Handlers, ReserveAdd(u)
    PROVE  ServerInv'
<1> DEFINE n == handler[u].p.size
           pc == IF handler[u].budget = 0 \/ used + n <= handler[u].budget
                   THEN "publish" ELSE "over"
<1>1. handler[u].pc = "reserve" /\ used' = used + n /\ Goto(u, pc)
    BY Zenon DEF ReserveAdd, Staged
<1>2. up /\ n \in Nat
    BY <1>1, Running, BusyFields, Zenon DEF ServerInv
<1>3. pc \in {"publish", "over"}
    BY Zenon
<1> HIDE DEF pc
<1>4. StepOf(u, handler, handler') /\ handler'[u].pc = pc /\ handler'[u].p = handler[u].p
    BY <1>1, <1>3, GotoStep, Zenon DEF ServerInv
<1>5. u \notin ReservingIn(handler) /\ u \in ReservingIn(handler')
    BY <1>1, <1>3, <1>4, Zenon DEF ReservingIn
<1>6. HandlersOK(handler') /\ InFlightIn(handler') = InFlightIn(handler) + n
    BY <1>4, <1>5, InFlightAdd DEF ServerInv
<1>7. UNCHANGED <<envVars, db, survivors, files, budget, pruner, signed, drift>>
    BY Zenon DEF ReserveAdd
<1> HIDE DEF n
<1>8. Exact(used, files, handler, pruner) => Exact(used, files, handler, pruner)'
    <2>1. UnreleasedIn(pruner) \in Nat
        BY DEF ServerInv, PrunerOK, UnreleasedIn, IdlePruner
    <2>2. TotalSize(files) \in Nat /\ InFlightIn(handler) \in Nat
        BY FilesNat, InFlightNat, Zenon DEF ServerInv
    <2> QED BY <1>1, <1>2, <1>6, <1>7, <2>1, <2>2 DEF Exact
<1> QED BY <1>1, <1>2, <1>6, <1>7, <1>8 DEF ServerInv, envVars

\* The terms of the account are natural numbers.
LEMMA AccountNat ==
    ASSUME ServerInv
    PROVE  /\ TotalSize(files) \in Nat /\ InFlightIn(handler) \in Nat
           /\ UnreleasedIn(pruner) \in Nat
<1>1. UnreleasedIn(pruner) \in Nat
    BY DEF ServerInv, PrunerOK, UnreleasedIn, IdlePruner
<1> QED BY <1>1, FilesNat, InFlightNat, Zenon DEF ServerInv

\* The end of a reservation that did not become a file.
LEMMA ReleaseServer ==
    ASSUME ServerInv, NEW u \in Handlers, handler[u].pc \in {"over", "publish"},
           used' = used - handler[u].p.size, Return(u),
           UNCHANGED <<envVars, db, survivors, files, budget, pruner, signed, drift>>
    PROVE  ServerInv'
<1> DEFINE n == handler[u].p.size
<1>1. up /\ n \in Nat
    BY Running, BusyFields, Zenon DEF ServerInv
<1>2. u \in ReservingIn(handler)
    BY Zenon DEF ReservingIn
<1>3. HandlersOK(handler') /\ InFlightIn(handler') = InFlightIn(handler) - n
    BY <1>2, ReturnStep, InFlightRemove, Zenon DEF ServerInv
<1>4. used' = used - n
    BY Zenon
<1> HIDE DEF n
<1>5. Exact(used, files, handler, pruner) => Exact(used, files, handler, pruner)'
    BY <1>1, <1>3, <1>4, AccountNat DEF Exact
<1> QED BY <1>1, <1>3, <1>4, <1>5 DEF ServerInv, envVars

\* The rename moves an upload from in flight to disk, unless it lands on a file.
LEMMA PublishServer ==
    ASSUME ServerInv, NEW u \in Handlers, Publish(u)
    PROVE  ServerInv'
<1> DEFINE p == handler[u].p
<1>1. handler[u].pc = "publish" /\ Goto(u, "commit")
    BY Zenon DEF Publish
<1>2. up /\ p \in Promises /\ p.size \in Nat
    BY <1>1, Running, BusyFields, Zenon DEF ServerInv
<1>3. StepOf(u, handler, handler') /\ handler'[u].pc = "commit"
    BY <1>1, GotoStep, Zenon DEF ServerInv
<1>4. HandlersOK(handler') /\ InFlightIn(handler') = InFlightIn(handler) - p.size
    BY <1>1, <1>3, InFlightRemove, Zenon DEF ServerInv, ReservingIn
<1>5. /\ files' = files \cup {p}
      /\ drift' = (drift \/ p \in files)
      /\ UNCHANGED <<envVars, db, survivors, occVars, pruner, signed>>
    BY Zenon DEF Publish
<1> HIDE DEF p
<1>6. FilesOK(files') /\ (p \notin files => TotalSize(files') = TotalSize(files) + p.size)
    <2>1. CASE p \in files
        BY <1>5, <2>1, Zenon DEF ServerInv, FilesOK
    <2>2. CASE p \notin files
        BY <1>2, <1>5, <2>2, FilesAdd, Zenon DEF ServerInv
    <2> QED BY <2>1, <2>2, Zenon
<1>7. ASSUME ~drift' PROVE Exact(used, files, handler, pruner)'
    <2>1. ~drift /\ p \notin files
        BY <1>5, <1>7, Zenon
    <2>2. Exact(used, files, handler, pruner)
        BY <1>2, <2>1, Zenon DEF ServerInv
    <2> QED BY <1>2, <1>4, <1>5, <1>6, <2>1, <2>2, AccountNat DEF Exact, occVars
<1>8. drift' \in BOOLEAN
    BY <1>5, Zenon DEF ServerInv
<1> QED BY <1>2, <1>4, <1>5, <1>6, <1>7, <1>8, Zenon DEF ServerInv, envVars, occVars

\* The metadata batch of a Put leaves the counter alone.
LEMMA CommitPutServer ==
    ASSUME ServerInv, NEW u \in Handlers, CommitPut(u)
    PROVE  ServerInv'
<1>1. handler[u].pc = "commit" /\ Goto(u, "sign")
    BY Zenon DEF CommitPut
<1>2. up /\ handler[u].p \in Promises /\ handler[u].pruneAt \in Nat
    BY <1>1, Running, BusyFields, Zenon DEF ServerInv
<1>3. StepOf(u, handler, handler') /\ handler'[u].pc = "sign"
    BY <1>1, GotoStep, Zenon DEF ServerInv
<1>4. IndexOK(PutBatch(handler[u].p, handler[u].pruneAt))
    BY <1>2, Batches, Zenon DEF ServerInv
<1>5. IndexOK(db)' /\ (\A d \in survivors : IndexOK(d))'
    BY <1>4, CommitOK, Zenon DEF CommitPut, ServerInv
<1>6. u \notin ReservingIn(handler) /\ u \notin ReservingIn(handler')
    BY <1>1, <1>3, Zenon DEF ReservingIn
<1>7. UNCHANGED <<envVars, files, occVars, pruner, drift>> /\ (signed \subseteq Promises)'
    BY Zenon DEF CommitPut, ServerInv
<1> QED BY <1>2, <1>3, <1>5, <1>6, <1>7, QuietUpload, Zenon

\* A failing commit removes the file it releases, or the counter has drifted.
LEMMA CommitPutFailsServer ==
    ASSUME ServerInv, NEW u \in Handlers, CommitPutFails(u)
    PROVE  ServerInv'
<1> DEFINE p == handler[u].p
<1>1. handler[u].pc = "commit" /\ Return(u)
    BY Zenon DEF CommitPutFails
<1>2. up /\ p \in Promises /\ p.size \in Nat
    BY <1>1, Running, BusyFields, Zenon DEF ServerInv
<1>3. HandlersOK(handler') /\ InFlightIn(handler') = InFlightIn(handler)
    <2>1. u \notin ReservingIn(handler)
        BY <1>1, Zenon DEF ReservingIn
    <2> QED BY <1>1, <2>1, ReturnStep, InFlightSame, Zenon DEF ServerInv
<1>4. /\ files' = IF p \in db.shard THEN files ELSE files \ {p}
      /\ drift' = (drift \/ (p \in db.shard /\ p \in files) \/ p \notin files)
      /\ used' = used - p.size
      /\ UNCHANGED <<now, era, up, db, survivors, budget, pruner, signed>>
    BY Zenon DEF CommitPutFails
<1> HIDE DEF p
<1>5. FilesOK(files')
    BY <1>4, FS_Subset, Zenon DEF ServerInv, FilesOK
<1>6. ASSUME ~drift' PROVE ~drift /\ TotalSize(files') = TotalSize(files) - p.size
    <2>1. ~drift /\ p \in files /\ files' = files \ {p}
        BY <1>4, <1>6, Zenon
    <2>2. TotalSize(files \ {p}) = TotalSize(files) - p.size
        BY <2>1, FilesRemove, Zenon DEF ServerInv
    <2> QED BY <2>1, <2>2, Zenon
<1>7. ~drift' => Exact(used, files, handler, pruner)'
    BY <1>2, <1>3, <1>4, <1>6, AccountNat DEF Exact, ServerInv
<1>8. drift' \in BOOLEAN /\ used' \in Int
    BY <1>2, <1>4, SMTT(20) DEF ServerInv
<1> QED BY <1>2, <1>3, <1>4, <1>5, <1>7, <1>8, Zenon DEF ServerInv

\* Signing, or failing to, leaves the counter alone.
LEMMA SignServer ==
    ASSUME ServerInv, NEW u \in Handlers, SignPromise(u) \/ SignFails(u)
    PROVE  ServerInv'
<1>1. handler[u].pc = "sign" /\ Return(u)
    BY Zenon DEF SignPromise, SignFails
<1>2. up /\ handler[u].p \in Promises
    BY <1>1, Running, BusyFields, Zenon DEF ServerInv
<1>3. u \notin ReservingIn(handler)
    BY <1>1, Zenon DEF ReservingIn
<1>4. signed' \subseteq Promises /\ UNCHANGED <<envVars, storeVars, occVars, pruner, drift>>
    BY <1>2, Zenon DEF SignPromise, SignFails, ServerInv
<1>5. StepOf(u, handler, handler') /\ u \notin ReservingIn(handler')
    BY <1>1, ReturnStep, Zenon DEF ServerInv
<1> QED BY <1>2, <1>3, <1>4, <1>5, QuietUpload, Zenon DEF ServerInv, storeVars

\* Every step of an upload keeps the invariant.
LEMMA UploadServer ==
    ASSUME ServerInv, NEW u \in Handlers, UploadStep(u) \/ UploadFault(u)
    PROVE  ServerInv'
<1>1. CASE LockAndHas(u)
    BY <1>1, LockServer, Zenon
<1>2. CASE ReserveAdd(u)
    BY <1>2, ReserveServer, Zenon
<1>3. CASE ReserveUndo(u)
    BY <1>3, ReleaseServer, Zenon DEF ReserveUndo, storeVars
<1>4. CASE Publish(u)
    BY <1>4, PublishServer, Zenon
<1>5. CASE CommitPut(u)
    BY <1>5, CommitPutServer, Zenon
<1>6. CASE SignPromise(u) \/ SignFails(u)
    BY <1>6, SignServer, Zenon
<1>7. CASE AbortPut(u)
    BY <1>7, ReleaseServer, Zenon DEF AbortPut
<1>8. CASE CommitPutFails(u)
    BY <1>8, CommitPutFailsServer, Zenon
<1> QED
    BY <1>1, <1>2, <1>3, <1>4, <1>5, <1>6, <1>7, <1>8, Zenon DEF UploadStep, UploadFault

-----------------------------------------------------------------------------
(* The prune loop, downloads and the process                               *)

\* The fields of a prune loop at each of its steps.
LEMMA PrunerFields ==
    ASSUME NEW w, NEW n, PrunerOK(w, n)
    PROVE  /\ w.pc \in {"stat", "remove"} => /\ w.todo \subseteq DueKeys(n)
                                             /\ w.batch \subseteq DueKeys(n)
           /\ w.pc \in {"stat", "remove", "release"} => w.freed \in Nat
           /\ w.pc = "remove" => w.key \in DueKeys(n) /\ w.seen \in BOOLEAN
BY DEF PrunerOK, IdlePruner

\* A step of the prune loop or of a reader keeps the invariant when it leaves the files
\* alone and the counter with what is still to be released.
LEMMA QuietPrune ==
    ASSUME ServerInv, up, PrunerOK(pruner', now),
           used' - UnreleasedIn(pruner') = used - UnreleasedIn(pruner),
           used' \in Int, UnreleasedIn(pruner') \in Nat, budget' \in Budgets \cup {0},
           IndexOK(db)', (\A d \in survivors : IndexOK(d))',
           UNCHANGED <<now, era, up, files, handler, signed, drift>>
    PROVE  ServerInv'
<1>1. Exact(used, files, handler, pruner) => Exact(used, files, handler, pruner)'
    BY AccountNat DEF Exact, ServerInv
<1> QED BY <1>1, Zenon DEF ServerInv, EnvOK

\* The prune loop starts with due keys and nothing freed.
LEMMA PruneStartServer == ASSUME ServerInv, PruneStart PROVE ServerInv'
<1>1. PruneKeys \subseteq DueKeys(now)
    BY Zenon DEF PruneKeys, DueKeys, ServerInv, IndexOK
<1>2. \/ pruner' = [pc |-> "budget"]
      \/ pruner' = [pc |-> "stat", todo |-> PruneKeys, batch |-> {}, freed |-> 0]
    BY Zenon DEF PruneStart
<1>3. PrunerOK(pruner', now) /\ UnreleasedIn(pruner') = 0
    <2>1. CASE pruner' = [pc |-> "budget"]
        BY <2>1 DEF PrunerOK, UnreleasedIn
    <2>2. CASE pruner' = [pc |-> "stat", todo |-> PruneKeys, batch |-> {}, freed |-> 0]
        BY <1>1, <2>2, Zenon DEF PrunerOK, UnreleasedIn
    <2> QED BY <1>2, <2>1, <2>2, Zenon
<1>4. UnreleasedIn(pruner) = 0 /\ up
    BY Zenon DEF PruneStart, UnreleasedIn
<1>5. UNCHANGED <<envVars, storeVars, occVars, handler, signed, drift>>
    BY Zenon DEF PruneStart
<1> QED BY <1>3, <1>4, <1>5, QuietPrune DEF ServerInv, EnvOK, envVars, storeVars, occVars

\* The prune loop runs in a process that is up.
LEMMA PrunerUp == ASSUME ServerInv, pruner.pc # "idle" PROVE up
BY DEF ServerInv, IdlePruner

\* Stat records whether the file is there.
LEMMA PruneStatServer == ASSUME ServerInv, NEW k, PruneStat(k) PROVE ServerInv'
<1>1. /\ pruner.pc = "stat" /\ k \in pruner.todo
      /\ pruner' = [pc |-> "remove", todo |-> pruner.todo \ {k}, batch |-> pruner.batch,
                    freed |-> pruner.freed, key |-> k, seen |-> k[2] \in files]
    BY Zenon DEF PruneStat
<1>2. /\ pruner.todo \subseteq DueKeys(now) /\ pruner.batch \subseteq DueKeys(now)
      /\ pruner.freed \in Nat
    BY <1>1, PrunerFields, Zenon DEF ServerInv
<1>3. PrunerOK(pruner', now) /\ UnreleasedIn(pruner') = UnreleasedIn(pruner)
    BY <1>1, <1>2, SMTT(20) DEF PrunerOK, UnreleasedIn
<1>4. UNCHANGED <<envVars, storeVars, occVars, handler, signed, drift>>
    BY Zenon DEF PruneStat
<1> QED BY <1>1, <1>3, <1>4, QuietPrune, PrunerUp, AccountNat, Zenon
        DEF ServerInv, EnvOK, envVars, storeVars, occVars

\* A removed file moves from disk to what is still to be released, unless it came or went
\* after the Stat.
LEMMA PruneRemoveServer == ASSUME ServerInv, PruneRemove PROVE ServerInv'
<1> DEFINE p == pruner.key[2]
           n == IF pruner.seen THEN p.size ELSE 0
<1>1. /\ pruner.pc = "remove"
      /\ files' = files \ {p}
      /\ drift' = (drift \/ pruner.seen # (p \in files))
      /\ pruner' = [pc |-> "stat", todo |-> pruner.todo,
                    batch |-> pruner.batch \cup {pruner.key}, freed |-> pruner.freed + n]
    BY Zenon DEF PruneRemove
<1>2. /\ pruner.todo \subseteq DueKeys(now) /\ pruner.batch \subseteq DueKeys(now)
      /\ pruner.freed \in Nat /\ pruner.key \in DueKeys(now) /\ pruner.seen \in BOOLEAN
    BY <1>1, PrunerFields, Zenon DEF ServerInv
<1>3. p \in Promises /\ p.size \in Nat /\ n \in Nat
    BY <1>2, PromiseSize, Zenon DEF DueKeys, Keys
<1>4. UNCHANGED <<envVars, db, survivors, occVars, handler, signed>>
    BY Zenon DEF PruneRemove
<1>5. up
    BY <1>1, PrunerUp, Zenon
<1> HIDE DEF p
<1>6. ASSUME ~drift' PROVE ~drift /\ TotalSize(files') = TotalSize(files) - n
    <2>1. ~drift /\ pruner.seen = (p \in files)
        BY <1>1, <1>6, Zenon
    <2>2. CASE p \in files
        <3>1. TotalSize(files \ {p}) = TotalSize(files) - p.size
            BY <2>2, FilesRemove, Zenon DEF ServerInv
        <3> QED BY <1>1, <2>1, <2>2, <3>1, Zenon
    <2>3. CASE p \notin files
        <3>1. files' = files /\ n = 0
            BY <1>1, <2>1, <2>3, Zenon
        <3> QED BY <2>1, <3>1, AccountNat
    <2> QED BY <2>2, <2>3, Zenon
<1> HIDE DEF n
<1>7. PrunerOK(pruner', now) /\ UnreleasedIn(pruner') = UnreleasedIn(pruner) + n
    BY <1>1, <1>2, <1>3 DEF PrunerOK, UnreleasedIn
<1>8. ~drift' => Exact(used, files, handler, pruner)'
    BY <1>3, <1>4, <1>5, <1>6, <1>7, AccountNat, SMTT(30) DEF Exact, ServerInv, occVars
<1>9. FilesOK(files') /\ drift' \in BOOLEAN
    BY <1>1, FS_Subset, Zenon DEF FilesOK, ServerInv
<1> QED BY <1>4, <1>5, <1>7, <1>8, <1>9, Zenon DEF ServerInv, envVars, occVars

\* The end of a batch, or its failure, keeps what was freed to be released.
LEMMA PruneEndServer == ASSUME ServerInv, PruneCommit \/ PruneFails PROVE ServerInv'
<1>1. pruner.pc \in {"stat", "remove"} /\ pruner' = [pc |-> "release", freed |-> pruner.freed]
    BY Zenon DEF PruneCommit, PruneFails
<1>2. pruner.freed \in Nat
    BY <1>1, PrunerFields, Zenon DEF ServerInv
<1>3. PrunerOK(pruner', now) /\ UnreleasedIn(pruner') = UnreleasedIn(pruner)
    BY <1>1, <1>2, Zenon DEF PrunerOK, UnreleasedIn
<1>4. UNCHANGED <<now, era, up, files, occVars, handler, signed, drift>>
    BY Zenon DEF PruneCommit, PruneFails, envVars, storeVars
<1>5. IndexOK(db)' /\ (\A d \in survivors : IndexOK(d))'
    <2>1. CASE PruneCommit
        BY <2>1, Batches, CommitOK, Zenon DEF PruneCommit, ServerInv
    <2>2. CASE PruneFails
        BY <2>2, Zenon DEF PruneFails, ServerInv, storeVars
    <2> QED BY <2>1, <2>2, Zenon
<1> QED BY <1>1, <1>3, <1>4, <1>5, QuietPrune, PrunerUp, AccountNat, Zenon
        DEF ServerInv, EnvOK, occVars

\* The release takes what was freed from the counter.
LEMMA PruneReleaseServer == ASSUME ServerInv, PruneRelease PROVE ServerInv'
<1>1. pruner.pc = "release" /\ used' = used - pruner.freed /\ pruner' = [pc |-> "budget"]
    BY Zenon DEF PruneRelease
<1>2. pruner.freed \in Nat
    BY <1>1, PrunerFields, Zenon DEF ServerInv
<1>3. /\ PrunerOK(pruner', now)
      /\ UnreleasedIn(pruner') = 0 /\ UnreleasedIn(pruner) = pruner.freed
    BY <1>1, Zenon DEF PrunerOK, UnreleasedIn
<1>4. UNCHANGED <<envVars, storeVars, budget, handler, signed, drift>>
    BY Zenon DEF PruneRelease
<1>5. used' \in Int /\ used' - UnreleasedIn(pruner') = used - UnreleasedIn(pruner)
    BY <1>1, <1>2, <1>3, SMTT(30) DEF ServerInv
<1> QED BY <1>1, <1>3, <1>4, <1>5, QuietPrune, PrunerUp, SMTT(20)
        DEF ServerInv, EnvOK, envVars, storeVars

\* A new budget leaves the counter alone.
LEMMA RecomputeServer == ASSUME ServerInv, RecomputeBudget PROVE ServerInv'
<1>1. /\ pruner.pc = "budget" /\ pruner' = IdlePruner
      /\ budget' \in Budgets \cup {0}
      /\ UNCHANGED <<envVars, storeVars, used, handler, signed, drift>>
    BY Zenon DEF RecomputeBudget, ServerInv, EnvOK
<1>2. PrunerOK(pruner', now) /\ UnreleasedIn(pruner') = 0 /\ UnreleasedIn(pruner) = 0
    BY <1>1, Zenon DEF PrunerOK, UnreleasedIn, IdlePruner
<1> QED BY <1>1, <1>2, QuietPrune, PrunerUp, SMTT(20) DEF ServerInv, envVars, storeVars

\* Downloads only drop markers, a crash empties the process, a restart counts the files
\* again, and time makes more keys due.
LEMMA OtherServer ==
    ASSUME ServerInv,
           \/ \E r \in Readers, p \in Promises : GetMissing(r, p.com)
           \/ \E r \in Readers : GetDropMarker(r)
           \/ Crash \/ Restart \/ Tick
    PROVE  ServerInv'
<1>1. CASE \E r \in Readers, p \in Promises : GetMissing(r, p.com)
    <2>1. UNCHANGED <<envVars, storeVars, occVars, handler, pruner, signed, drift>>
        BY <1>1, Zenon DEF GetMissing
    <2> QED BY <2>1, Zenon DEF ServerInv, envVars, storeVars, occVars
<1>2. CASE \E r \in Readers : GetDropMarker(r)
    <2>1. PICK r \in Readers : GetDropMarker(r)
        BY <1>2, Zenon
    <2>2. IndexOK(db)' /\ (\A d \in survivors : IndexOK(d))'
        BY <2>1, Batches, CommitOK, Zenon DEF GetDropMarker, ServerInv
    <2>3. UNCHANGED <<envVars, files, occVars, handler, pruner, signed, drift>>
        BY <2>1, Zenon DEF GetDropMarker
    <2> QED BY <2>2, <2>3, Zenon DEF ServerInv, envVars, occVars
<1>3. CASE Crash
    <2>1. /\ up' = FALSE /\ drift' = FALSE /\ used' = 0 /\ budget' = 0
          /\ handler' = [u \in Handlers |-> IdleHandler] /\ pruner' = IdlePruner
          /\ UNCHANGED <<now, era, files, signed>>
        BY <1>3, Zenon DEF Crash
    <2>2. IndexOK(db)' /\ (\A d \in survivors : IndexOK(d))'
        BY <1>3, Zenon DEF Crash, ServerInv
    <2>3. HandlersOK(handler')
        BY <2>1, IdleHandlers, Zenon
    <2>4. EnvOK(now, era, budget)'
        BY <2>1, Zenon DEF ServerInv, EnvOK
    <2>5. PrunerOK(pruner', now')
        BY <2>1, Zenon DEF PrunerOK
    <2>6. FilesOK(files') /\ signed' \subseteq Promises
        BY <2>1, Zenon DEF ServerInv
    <2>7. ~up' /\ up' \in BOOLEAN /\ drift' \in BOOLEAN
        BY <2>1, Zenon
    <2>8. used' \in Int
        BY <2>1
    <2> QED BY <2>1, <2>2, <2>3, <2>4, <2>5, <2>6, <2>7, <2>8, Zenon DEF ServerInv
<1>4. CASE Restart
    <2>1. /\ ~up /\ up' = TRUE /\ used' = TotalSize(files) /\ budget' \in Budgets
          /\ UNCHANGED <<now, era, db, survivors, files, handler, pruner, signed, drift>>
        BY <1>4, Zenon DEF Restart
    <2>2. InFlightIn(handler) = 0 /\ UnreleasedIn(pruner) = 0
        BY <2>1, IdleHandlers, SMTT(20) DEF ServerInv, UnreleasedIn, IdlePruner
    <2>3. Exact(used, files, handler, pruner)' /\ used' \in Int
        BY <2>1, <2>2, AccountNat DEF Exact
    <2> QED BY <2>1, <2>3, Zenon DEF ServerInv, EnvOK
<1>5. CASE Tick
    <2>1. /\ now < MaxTime /\ now' = now + 1 /\ era' \in {era, era + 1} \cap DOMAIN ParamSchedule
          /\ survivors' = {db}
          /\ UNCHANGED <<up, db, files, occVars, handler, pruner, signed, drift>>
        BY <1>5, Zenon DEF Tick
    <2>2. PrunerOK(pruner', now')
        BY <2>1, PrunerLater DEF ServerInv, EnvOK
    <2>3. EnvOK(now, era, budget)'
        <3>1. DOMAIN ParamSchedule = 1 .. Len(ParamSchedule)
            BY ServerAssumption
        <3>2. now' \in 0 .. MaxTime
            BY <2>1, ServerAssumption DEF ServerInv, EnvOK
        <3> QED BY <2>1, <3>1, <3>2, Zenon DEF ServerInv, EnvOK, occVars
    <2> QED BY <2>1, <2>2, <2>3, Zenon DEF ServerInv, occVars
<1> QED BY <1>1, <1>2, <1>3, <1>4, <1>5, Zenon

-----------------------------------------------------------------------------
(* The results                                                             *)

\* The invariant holds at start-up and is kept by every step.
LEMMA ServerInvInductive ==
    /\ Init => ServerInv
    /\ ServerInv /\ [Next]_vars => ServerInv'
<1>1. ASSUME Init PROVE ServerInv
    <2>1. HandlersOK(handler) /\ InFlightIn(handler) = 0
        BY <1>1, IdleHandlers, Zenon DEF Init
    <2>2. TotalSize({}) = 0
        BY SumEmpty, Zenon DEF TotalSize
    <2>3. UnreleasedIn(pruner) = 0 /\ PrunerOK(pruner, now)
        BY <1>1, Zenon DEF Init, UnreleasedIn, PrunerOK, IdlePruner
    <2>4. IndexOK(EmptyIndex)
        BY Zenon DEF IndexOK, EmptyIndex
    <2>5. EnvOK(now, era, budget)
        BY <1>1, ServerAssumption DEF Init, EnvOK
    <2>6. FilesOK(files)
        BY <1>1, FS_EmptySet, Zenon DEF Init, FilesOK
    <2>7. TotalSize(files) = 0 /\ used = 0
        BY <1>1, <2>2, Zenon DEF Init
    <2>8. Exact(used, files, handler, pruner)
        BY <2>1, <2>3, <2>7 DEF Exact
    <2>9. used \in Int /\ signed \subseteq Promises /\ IndexOK(db) /\ \A d \in survivors : IndexOK(d)
        BY <1>1, <2>4 DEF Init
    <2>10. up /\ up \in BOOLEAN /\ drift \in BOOLEAN
        BY <1>1, Zenon DEF Init
    <2> QED BY <2>1, <2>3, <2>5, <2>6, <2>8, <2>9, <2>10, Zenon DEF ServerInv
<1>2. ASSUME ServerInv, [Next]_vars PROVE ServerInv'
    <2>1. CASE \E u \in Handlers, p \in Promises : VerifyPromise(u, p)
        BY <1>2, <2>1, VerifyServer, Zenon
    <2>2. CASE \E u \in Handlers : UploadStep(u) \/ UploadFault(u)
        BY <1>2, <2>2, UploadServer, Zenon
    <2>3. CASE PruneStep
        BY <1>2, <2>3, PruneStartServer, PruneStatServer, PruneRemoveServer, PruneEndServer,
           PruneReleaseServer, RecomputeServer, Zenon DEF PruneStep
    <2>4. CASE PruneFails
        BY <1>2, <2>4, PruneEndServer, Zenon
    <2>5. CASE UNCHANGED vars
        BY <1>2, <2>5, Zenon DEF vars, envVars, storeVars, occVars, ServerInv
    <2> QED BY <1>2, <2>1, <2>2, <2>3, <2>4, <2>5, OtherServer, Zenon DEF Next
<1> QED BY <1>1, <1>2, Zenon

\* The invariant holds of every reachable state.
THEOREM ServerInvariant == Spec => []ServerInv
BY ServerInvInductive, PTL DEF Spec

\* The invariant in the terms of FibreServer.
LEMMA ServerInvExact == ServerInv => OccupancyExact
<1> SUFFICES ASSUME ServerInv PROVE OccupancyExact
    BY Zenon
<1>1. InFlight = InFlightIn(handler) /\ Unreleased = UnreleasedIn(pruner)
    BY Zenon DEF InFlight, Reserving, InFlightIn, ReservingIn, Unreleased, UnreleasedIn
<1>2. ServerTypeOK
    BY Zenon DEF ServerInv, ServerTypeOK, EnvOK, IndexOK, FilesOK
<1> QED BY <1>1, <1>2, Zenon DEF OccupancyExact, ServerInv, Exact

\* The counter of a running server is exactly the bytes on disk, reserved by uploads and
\* pruned but not yet released, as long as no rename, failing commit or prune was crossed
\* by another on the same file: for any number of uploads, crashes and failing writes.
THEOREM CounterExact == Spec => []OccupancyExact
BY ServerInvariant, ServerInvExact, PTL

\* Only reserve takes an upload to its rename.
LEMMA OnlyReserve ==
    ASSUME ServerInv, [Next]_vars, NEW u \in Handlers,
           handler[u].pc = "reserve", handler'[u].pc = "publish"
    PROVE  ReserveAdd(u)
<1>0. handler \in [Handlers -> {IdleHandler} \cup BusyHandler]
    BY Zenon DEF ServerInv, HandlersOK
<1>1. CASE \E v \in Handlers, p \in Promises : VerifyPromise(v, p)
    BY <1>0, <1>1, Zenon DEF VerifyPromise
<1>2. ASSUME NEW v \in Handlers, UploadStep(v) \/ UploadFault(v) PROVE ReserveAdd(u)
    <2>1. CASE v # u
        BY <1>0, <1>2, <2>1, Zenon
           DEF UploadStep, UploadFault, LockAndHas, ReserveAdd, ReserveUndo, Publish, CommitPut,
               SignPromise, AbortPut, CommitPutFails, SignFails, Staged, Goto, Return
    <2>2. CASE v = u
        BY <1>2, <2>2, Zenon
           DEF UploadStep, UploadFault, LockAndHas, uploadLock, ReserveUndo, Publish, CommitPut,
               SignPromise, AbortPut, CommitPutFails, SignFails
    <2> QED BY <2>1, <2>2, Zenon
<1>3. CASE Crash
    BY <1>3, Zenon DEF Crash, IdleHandler
<1>4. CASE UNCHANGED handler
    BY <1>4, Zenon
<1>5. CASE PruneStep \/ PruneFails
    BY <1>4, <1>5, Zenon
       DEF PruneStep, PruneStart, PruneStat, PruneRemove, PruneCommit, PruneRelease,
           RecomputeBudget, PruneFails
<1>6. CASE \/ \E r \in Readers, p \in Promises : GetMissing(r, p.com)
           \/ \E r \in Readers : GetDropMarker(r)
           \/ Restart \/ Tick
    BY <1>4, <1>6, Zenon DEF GetMissing, GetDropMarker, Restart, Tick
<1> QED BY <1>1, <1>2, <1>3, <1>4, <1>5, <1>6, Zenon DEF Next, vars

\* An upload that reserve lets through keeps the bytes on disk and in flight within the
\* budget it was checked against, however many uploads, prunes and failures run beside it.
THEOREM ReservationsFit == Spec => BudgetHonoured
<1> DEFINE Fits(u) ==
        handler[u].pc = "reserve" /\ handler'[u].pc = "publish" /\ handler[u].budget > 0 /\ ~drift
          => (TotalSize(files) + InFlight)' <= handler[u].budget
<1>1. ASSUME ServerInv, ServerInv', [Next]_vars, NEW u \in Handlers PROVE Fits(u)
    <2> SUFFICES ASSUME handler[u].pc = "reserve", handler'[u].pc = "publish",
                        handler[u].budget > 0, ~drift
                 PROVE  (TotalSize(files) + InFlight)' <= handler[u].budget
        BY Zenon
    <2> DEFINE n == handler[u].p.size
               b == handler[u].budget
    <2>1. ReserveAdd(u)
        BY <1>1, OnlyReserve, Zenon
    <2>2. b = 0 \/ used + n <= b
        BY <2>1, <1>1 DEF ReserveAdd, Staged, Goto, ServerInv, HandlersOK
    <2>3. used' = used + n /\ UNCHANGED <<envVars, files, pruner, drift>>
        BY <2>1, Zenon DEF ReserveAdd
    <2>4. n \in Nat /\ b \in Nat /\ up
        <3>1. n \in Nat /\ b \in Budgets \cup {0}
            BY <1>1, BusyFields, Zenon DEF ServerInv
        <3>2. up
            BY <1>1, Running, Zenon
        <3> HIDE DEF n, b
        <3>3. b \in Nat
            BY <3>1, ServerAssumption
        <3> QED BY <3>1, <3>2, <3>3, Zenon
    <2>5. used' = TotalSize(files') + InFlightIn(handler') + UnreleasedIn(pruner')
        BY <1>1, <2>3, <2>4, Zenon DEF ServerInv, Exact, envVars
    <2>6. /\ TotalSize(files') \in Nat /\ InFlightIn(handler') \in Nat
          /\ UnreleasedIn(pruner') \in Nat
        BY <1>1, <2>3, AccountNat, InFlightNat, Zenon DEF ServerInv
    <2>7. InFlight' = InFlightIn(handler')
        BY Zenon DEF InFlight, Reserving, InFlightIn, ReservingIn
    <2>8. b > 0 /\ used \in Int
        BY <1>1, Zenon DEF ServerInv
    <2> HIDE DEF n, b
    <2>9. TotalSize(files') + InFlightIn(handler') <= b
        BY <2>2, <2>3, <2>4, <2>5, <2>6, <2>8
    <2> QED BY <2>7, <2>9, Zenon DEF b
<1>2. ServerInv /\ ServerInv' /\ [Next]_vars => [\A u \in Handlers : Fits(u)]_vars
    BY <1>1, Zenon
<1> QED BY <1>2, ServerInvariant, PTL DEF BudgetHonoured, Spec

FaultsOK == faults \in Nat

\* The number of failing writes is a natural number.
LEMMA FaultsCounted == Spec => []FaultsOK
<1>1. Init => FaultsOK
    BY DEF Init, FaultsOK
<1>2. FaultsOK /\ [Next]_vars => FaultsOK'
    <2> SUFFICES ASSUME FaultsOK, [Next]_vars PROVE faults' \in {faults, faults + 1}
        BY DEF FaultsOK
    <2>1. CASE \E u \in Handlers : UploadStep(u) \/ UploadFault(u)
        BY <2>1, Zenon DEF UploadStep, UploadFault, LockAndHas, ReserveAdd, ReserveUndo, Publish,
                    CommitPut, SignPromise, AbortPut, CommitPutFails, SignFails, envVars
    <2>2. CASE PruneStep \/ PruneFails
        BY <2>2, Zenon DEF PruneStep, PruneStart, PruneStat, PruneRemove, PruneCommit, PruneRelease,
                    RecomputeBudget, PruneFails, envVars
    <2>3. CASE UNCHANGED vars
        BY <2>3, Zenon DEF vars, envVars
    <2> QED BY <2>1, <2>2, <2>3, Zenon DEF Next, VerifyPromise, GetMissing, GetDropMarker, Crash,
                                    Restart, Tick, envVars
<1> QED BY <1>1, <1>2, PTL DEF Spec

\* A step that neither adds files, drops prune keys nor moves an upload between its rename
\* and its commit orphans no file.
LEMMA NoOrphan ==
    ASSUME NEW p, ~Orphan(p), Orphan(p)', p \in files' => p \in files,
           \A k \in db.prune : k[2] = p => k \in db'.prune,
           \A u \in Handlers : handler[u].pc = "commit" /\ handler[u].p = p
                                 => handler'[u] = handler[u]
    PROVE  FALSE
BY Zenon DEF Orphan, Indexed, Publishing

\* The same for a step of one upload.
LEMMA UploadOrphan ==
    ASSUME ServerInv, NEW u \in Handlers, UploadStep(u) \/ UploadFault(u), NEW p,
           ~Orphan(p), Orphan(p)', faults \in Nat
    PROVE  faults' > faults
<1> DEFINE q == handler[u].p
<1>0. handler \in [Handlers -> {IdleHandler} \cup BusyHandler]
    BY Zenon DEF ServerInv, HandlersOK
<1>1. \A v \in Handlers \ {u} : handler'[v] = handler[v]
    BY <1>0, Zenon DEF UploadStep, UploadFault, LockAndHas, ReserveAdd, ReserveUndo, Publish, CommitPut,
                SignPromise, AbortPut, CommitPutFails, SignFails, Staged, Goto, Return
<1>2. CASE handler[u].pc # "commit" /\ UNCHANGED <<files, db>>
    BY <1>1, <1>2, NoOrphan, Zenon
<1>3. CASE Publish(u)
    <2>1. handler[u].pc = "publish" /\ files' = files \cup {q} /\ db' = db /\ Goto(u, "commit")
        BY <1>3, Zenon DEF Publish
    <2>2. handler'[u].pc = "commit" /\ handler'[u].p = q
        BY <2>1, GotoStep, Zenon DEF ServerInv
    <2>3. p # q
        BY <2>2, Zenon DEF Orphan, Publishing
    <2> QED BY <1>1, <2>1, <2>3, NoOrphan, Zenon
<1>4. CASE CommitPut(u)
    <2>1. db' = PutBatch(q, handler[u].pruneAt) /\ files' = files
        BY <1>4, Zenon DEF CommitPut, Commit
    <2>2. db'.prune = db.prune \cup {<<Minute(handler[u].pruneAt), q>>}
        BY <2>1, Zenon DEF PutBatch
    <2>3. p # q
        <3> DEFINE m == Minute(handler[u].pruneAt)
        <3> HIDE DEF q, m
        <3>1. <<m, q>>[2] = q /\ <<m, q>> \in db'.prune
            BY <2>2, Zenon DEF m
        <3> QED BY <3>1, Zenon DEF Orphan, Indexed
    <2> QED BY <1>1, <2>1, <2>2, <2>3, NoOrphan, Zenon
<1>5. CASE CommitPutFails(u)
    <2>1. faults' = faults + 1
        BY <1>5, Zenon DEF CommitPutFails
    <2> QED BY <2>1
<1> QED
    BY <1>2, <1>3, <1>4, <1>5, Zenon
       DEF UploadStep, UploadFault, LockAndHas, uploadLock, ReserveAdd, ReserveUndo, AbortPut,
           SignPromise, SignFails, storeVars

\* The same for a step of the prune loop: its batch holds due keys only.
LEMMA PruneOrphan ==
    ASSUME ServerInv, PruneStep \/ PruneFails, NEW p, ~Orphan(p), Orphan(p)', faults \in Nat
    PROVE  faults' > faults \/ Due(p)
<1>1. CASE PruneCommit
    <2>1. /\ pruner.batch \subseteq DueKeys(now)
          /\ db' = PruneBatch(pruner.batch) /\ UNCHANGED <<files, handler>>
        BY <1>1, PrunerFields, Zenon DEF PruneCommit, Commit, ServerInv
    <2>2. db'.prune = db.prune \ pruner.batch
        BY <2>1, Zenon DEF PruneBatch
    <2>3. PICK k \in db.prune : k[2] = p /\ k \in pruner.batch
        BY <2>1, <2>2, NoOrphan, Zenon
    <2> QED BY <2>1, <2>3, Zenon DEF Due, PruneKeys, DueKeys
<1>2. CASE PruneFails
    BY <1>2 DEF PruneFails
<1>3. CASE UNCHANGED <<db, handler>> /\ files' \subseteq files
    BY <1>3, NoOrphan, Zenon
<1> QED
    BY <1>1, <1>2, <1>3, Zenon
       DEF PruneStep, PruneStart, PruneStat, PruneRemove, PruneRelease, RecomputeBudget, storeVars

\* A shard file falls out of the prune index only in a crash, through a failing write, or
\* in the commit of a prune for which it was due.
THEOREM OrphansHaveCause == Spec => OrphansExplained
<1> DEFINE Explained(p) == ~Orphan(p) /\ Orphan(p)' => ~up' \/ faults' > faults \/ Due(p)
<1>1. ASSUME ServerInv, faults \in Nat, [Next]_vars, NEW p \in Promises PROVE Explained(p)
    <2> SUFFICES ASSUME ~Orphan(p), Orphan(p)' PROVE ~up' \/ faults' > faults \/ Due(p)
        BY Zenon
    <2>0. handler \in [Handlers -> {IdleHandler} \cup BusyHandler]
        BY <1>1, Zenon DEF ServerInv, HandlersOK
    <2>1. ASSUME NEW u \in Handlers, NEW q \in Promises, VerifyPromise(u, q) PROVE FALSE
        <3>1. \A v \in Handlers : handler[v].pc = "commit" => handler'[v] = handler[v]
            BY <2>0, <2>1, Zenon DEF VerifyPromise
        <3>2. UNCHANGED <<files, db>>
            BY <2>1, Zenon DEF VerifyPromise, storeVars
        <3> QED BY <3>1, <3>2, NoOrphan, Zenon
    <2>2. CASE \E u \in Handlers : UploadStep(u) \/ UploadFault(u)
        BY <1>1, <2>2, UploadOrphan, Zenon
    <2>3. CASE PruneStep \/ PruneFails
        BY <1>1, <2>3, PruneOrphan, Zenon
    <2>4. ASSUME NEW r \in Readers, GetDropMarker(r) PROVE FALSE
        <3>1. db' = [db EXCEPT !.shard = db.shard \ {reader[r].p}] /\ UNCHANGED <<files, handler>>
            BY <2>4, Zenon DEF GetDropMarker, Commit
        <3>2. db'.prune = db.prune
            BY <1>1, <3>1, Zenon DEF ServerInv, IndexOK
        <3> QED BY <3>1, <3>2, NoOrphan, Zenon
    <2>5. CASE Crash
        BY <2>5, Zenon DEF Crash
    <2>6. CASE UNCHANGED <<db, handler, files>>
        BY <2>6, NoOrphan, Zenon
    <2>7. CASE \/ \E r \in Readers, q \in Promises : GetMissing(r, q.com)
               \/ Restart \/ Tick \/ UNCHANGED vars
        BY <2>6, <2>7, Zenon DEF GetMissing, Restart, Tick, vars, storeVars
    <2> QED BY <1>1, <2>1, <2>2, <2>3, <2>4, <2>5, <2>7, Zenon DEF Next
<1>2. ServerInv /\ FaultsOK /\ [Next]_vars => [\A p \in Promises : Explained(p)]_vars
    BY <1>1, Zenon DEF FaultsOK
<1> QED BY <1>2, ServerInvariant, FaultsCounted, PTL DEF OrphansExplained, Spec

-----------------------------------------------------------------------------
(* FibreServer implements ShardVault.                                      *)

\* A prune minute among the recorded ones R has passed for q.
Past(q, n, R) == \E k \in R : k[2] = q /\ k[1] < Minute(n)

\* The keys of an index were recorded, and a marker comes with a recorded key.
IndexTimed(d, R) == d.prune \subseteq R /\ \A q \in d.shard : \E k \in R : k[2] = q

\* Of the shards S that were stored, those whose file or marker is gone are past their time.
StoredOK(S, f, d, n, R) == \A q \in S : q \notin f \/ q \notin d.shard => Past(q, n, R)

ReaderOK(r, f, d, n, R) ==
    \/ r = IdleReader
    \/ /\ r \in [pc : {"drop"}, todo : SUBSET Promises, p : Promises]
       /\ Past(r.p, n, R) /\ StoredOK(r.todo, f, d, n, R)

\* An upload has its stripe to itself, and only a prune takes its file between its rename
\* and its commit.
UploadsOK(h, f, n, R) ==
    /\ \A u, v \in Handlers : /\ h[u].pc \notin {"idle", "verified"}
                              /\ h[v].pc \notin {"idle", "verified"}
                              /\ h[u].p.stripe = h[v].p.stripe
                              => u = v
    /\ \A u \in Handlers : h[u].pc = "commit" /\ h[u].p \notin f => Past(h[u].p, n, R)

PrunerIndexed(w, d) ==
    /\ w.pc \in {"stat", "remove"} => w.todo \subseteq d.prune /\ w.batch \subseteq d.prune
    /\ w.pc = "remove" => w.key \in d.prune

VaultInv ==
    /\ recorded \subseteq Keys
    /\ \A d \in survivors \cup {db} : IndexTimed(d, recorded) /\ StoredOK(d.shard, files, db, now, recorded)
    /\ reader = [r \in Readers |-> reader[r]]
    /\ \A r \in Readers : ReaderOK(reader[r], files, db, now, recorded)
    /\ UploadsOK(handler, files, now, recorded)
    /\ PrunerIndexed(pruner, db)

\* What is past its time stays so.
LEMMA PastLater ==
    ASSUME NEW R \in SUBSET Keys, NEW q, NEW n \in Nat, Past(q, n, R)
    PROVE  Past(q, n + 1, R)
<1>1. PICK k \in R : k[2] = q /\ k[1] < Minute(n)
    BY Zenon DEF Past
<1>2. k[1] \in Int
    BY <1>1 DEF Keys
<1>4. n + 1 \in Nat
    OBVIOUS
<1>5. Minute(n) \in Nat /\ Minute(n + 1) \in Nat /\ Minute(n) <= Minute(n + 1)
    BY <1>4, MinuteLater, Zenon
<1>3. k[1] < Minute(n + 1)
    BY <1>1, <1>2, <1>5
<1> QED BY <1>1, <1>3, Zenon DEF Past

\* A due key of the index belongs to a promise past its time.
LEMMA DueIsPast ==
    ASSUME NEW R, NEW d, IndexTimed(d, R), NEW n, NEW k \in d.prune, k \in DueKeys(n)
    PROVE  Past(k[2], n, R)
BY Zenon DEF IndexTimed, DueKeys, Past

\* Removing files and markers past their time, or files that have no marker, keeps what
\* is known of stored shards, and so does a new record.
LEMMA StoredKept ==
    ASSUME NEW f, NEW d, NEW n, NEW g, NEW e, NEW R, NEW T, R \subseteq T,
           \A q \in f \ g : q \notin d.shard \/ Past(q, n, R),
           \A q \in d.shard \ e.shard : Past(q, n, R)
    PROVE  /\ \A S : StoredOK(S, f, d, n, R) => StoredOK(S, g, e, n, T)
           /\ \A r : ReaderOK(r, f, d, n, R) => ReaderOK(r, g, e, n, T)
<1>0. \A q : Past(q, n, R) => Past(q, n, T)
    BY Zenon DEF Past
<1>1. \A S : StoredOK(S, f, d, n, R) => StoredOK(S, g, e, n, T)
    BY <1>0, Zenon DEF StoredOK
<1> QED BY <1>0, <1>1, Zenon DEF ReaderOK

\* The uploads after a step of one of them that starts or ends no upload but its own.
LEMMA UploadsStep ==
    ASSUME NEW h, HandlersOK(h), NEW g, NEW u \in Handlers, StepOf(u, h, g), NEW f, NEW f2,
           NEW n, NEW R, NEW T, R \subseteq T, UploadsOK(h, f, n, R),
           \/ g[u] = IdleHandler
           \/ /\ h[u].pc \notin {"idle", "verified"} /\ g[u].p = h[u].p
              /\ g[u].pc = "commit" => g[u].p \in f2,
           \A v \in Handlers \ {u} : h[v].pc = "commit" /\ h[v].p \in f
                                       => h[v].p \in f2 \/ Past(h[v].p, n, R)
    PROVE  UploadsOK(g, f2, n, T)
<1>1. \A v \in Handlers \ {u} : g[v] = h[v]
    BY Zenon DEF StepOf
<1>2. \A q : Past(q, n, R) => Past(q, n, T)
    BY Zenon DEF Past
<1>3. \A v \in Handlers : g[v].pc \notin {"idle", "verified"}
                            => h[v].pc \notin {"idle", "verified"} /\ g[v].p = h[v].p
    BY <1>1 DEF IdleHandler
<1>4. \A v \in Handlers : g[v].pc = "commit" /\ g[v].p \notin f2 => Past(g[v].p, n, T)
    <2>1. \A v \in Handlers \ {u} : g[v].pc = "commit" /\ g[v].p \notin f2 => Past(g[v].p, n, R)
        BY <1>1, Zenon DEF UploadsOK
    <2>2. g[u].pc = "commit" => g[u].p \in f2
        BY DEF IdleHandler
    <2> QED BY <1>2, <2>1, <2>2, Zenon
<1>5. ASSUME NEW v \in Handlers, NEW w \in Handlers, g[v].p.stripe = g[w].p.stripe,
             g[v].pc \notin {"idle", "verified"}, g[w].pc \notin {"idle", "verified"}
      PROVE  v = w
    BY <1>3, <1>5, Zenon DEF UploadsOK
<1> QED BY <1>4, <1>5, Zenon DEF UploadsOK

\* What VaultInv says of the indexes and the readers, after a step with or without a commit.
LEMMA StoreVault ==
    ASSUME VaultInv, now' = now, survivors' \subseteq survivors \cup {db'},
           recorded \subseteq recorded',
           \A q \in files \ files' : q \notin db.shard \/ Past(q, now, recorded),
           \A q \in db.shard \ db'.shard : Past(q, now, recorded),
           IndexTimed(db', recorded'),
           \A q \in db'.shard \ db.shard : q \in files' \/ Past(q, now, recorded)
    PROVE  /\ (\A d \in survivors \cup {db} :
                  IndexTimed(d, recorded) /\ StoredOK(d.shard, files, db, now, recorded))'
           /\ \A r : ReaderOK(r, files, db, now, recorded)
                       => ReaderOK(r, files, db, now, recorded)'
<1>1. /\ \A S : StoredOK(S, files, db, now, recorded)
                  => StoredOK(S, files', db', now, recorded')
      /\ \A r : ReaderOK(r, files, db, now, recorded)
                  => ReaderOK(r, files', db', now, recorded')
    BY StoredKept, Zenon
<1>2. StoredOK(db.shard, files', db', now, recorded')
    BY <1>1, Zenon DEF VaultInv
<1>3. StoredOK(db'.shard, files', db', now, recorded')
    <2>1. \A q : Past(q, now, recorded) => Past(q, now, recorded')
        BY Zenon DEF Past
    <2> QED BY <1>2, <2>1, Zenon DEF StoredOK
<1>4. \A d \in survivors : IndexTimed(d, recorded') /\ StoredOK(d.shard, files', db', now, recorded')
    BY <1>1, Zenon DEF VaultInv, IndexTimed
<1> QED BY <1>1, <1>3, <1>4, Zenon

\* A step of an upload after its lock that leaves the store alone.
LEMMA QuietVault ==
    ASSUME ServerInv, VaultInv, NEW u \in Handlers, StepOf(u, handler, handler'),
           \/ handler'[u] = IdleHandler
           \/ /\ handler[u].pc \notin {"idle", "verified"} /\ handler'[u].pc # "commit"
              /\ handler'[u].p = handler[u].p,
           UNCHANGED <<now, db, survivors, files, reader, pruner, recorded>>
    PROVE  VaultInv'
<1>1. UploadsOK(handler', files, now, recorded)
    BY UploadsStep, Zenon DEF ServerInv, VaultInv
<1> QED BY <1>1, Zenon DEF VaultInv

\* The start of an upload and its lock.
LEMMA StartVault ==
    ASSUME ServerInv, VaultInv, NEW u \in Handlers,
           LockAndHas(u) \/ \E p \in Promises : VerifyPromise(u, p)
    PROVE  VaultInv'
<1>0. handler \in [Handlers -> {IdleHandler} \cup BusyHandler]
    BY Zenon DEF ServerInv, HandlersOK
<1>1. UNCHANGED <<now, db, survivors, files, reader, pruner, recorded>>
    BY Zenon DEF LockAndHas, VerifyPromise, envVars, storeVars
<1>2. CASE \E p \in Promises : VerifyPromise(u, p)
    <2>1. PICK p \in Promises : VerifyPromise(u, p)
        BY <1>2, Zenon
    <2>2. /\ \A v \in Handlers \ {u} : handler'[v] = handler[v]
          /\ handler'[u].pc = "verified"
        BY <1>0, <2>1, Zenon DEF VerifyPromise
    <2>3. UploadsOK(handler', files, now, recorded)
        BY <2>2 DEF VaultInv, UploadsOK
    <2> QED BY <1>1, <2>3, Zenon DEF VaultInv
<1>3. CASE LockAndHas(u)
    <2>1. handler[u].pc = "verified" /\ ~Locked(handler[u].p.stripe)
        BY <1>3, Zenon DEF LockAndHas, uploadLock
    <2>2. handler[u] \in BusyHandler
        BY <2>1, BusyFields, Zenon DEF ServerInv
    <2>3. /\ \A v \in Handlers \ {u} : handler'[v] = handler[v]
          /\ handler'[u].pc \in {"sign", "reserve"}
          /\ handler'[u].p = handler[u].p
        BY <1>0, <1>3, <2>2, Zenon DEF LockAndHas, BusyHandler
    <2>4. \A v \in Handlers : handler[v].pc \notin {"idle", "verified"}
                                => handler[v].p.stripe # handler[u].p.stripe
        BY <2>1, Zenon DEF Locked
    <2>5. UploadsOK(handler', files, now, recorded)
        BY <2>1, <2>3, <2>4 DEF VaultInv, UploadsOK
    <2> QED BY <1>1, <2>5, Zenon DEF VaultInv
<1> QED BY <1>2, <1>3, Zenon

\* The rename puts the file where a marker may be waiting for it.
LEMMA PublishVault ==
    ASSUME ServerInv, VaultInv, NEW u \in Handlers, Publish(u)
    PROVE  VaultInv'
<1>1. /\ handler[u].pc = "publish" /\ Goto(u, "commit") /\ files' = files \cup {handler[u].p}
      /\ UNCHANGED <<now, db, survivors, reader, pruner, recorded>>
    BY Zenon DEF Publish, envVars
<1>2. /\ StepOf(u, handler, handler') /\ handler'[u].pc = "commit"
      /\ handler'[u].p = handler[u].p
    BY <1>1, GotoStep, Zenon DEF ServerInv
<1>3. UploadsOK(handler', files', now, recorded)
    <2>1. handler[u].pc \notin {"idle", "verified"} /\ handler[u].p \in files'
        BY <1>1
    <2>2. HandlersOK(handler) /\ UploadsOK(handler, files, now, recorded)
          /\ recorded \subseteq recorded
        BY Zenon DEF ServerInv, VaultInv
    <2>3. files \subseteq files'
        BY <1>1, Zenon
    <2>4. handler'[u].pc = "commit" => handler'[u].p \in files'
        BY <1>2, <2>1, Zenon
    <2>5. \A v \in Handlers \ {u} : handler[v].pc = "commit" /\ handler[v].p \in files
                                      => handler[v].p \in files' \/ Past(handler[v].p, now, recorded)
        BY <2>3, Zenon
    <2> QED BY <1>2, <2>1, <2>2, <2>4, <2>5, UploadsStep, Zenon
<1>4. /\ (\A d \in survivors \cup {db} :
             IndexTimed(d, recorded) /\ StoredOK(d.shard, files, db, now, recorded))'
      /\ \A r : ReaderOK(r, files, db, now, recorded) => ReaderOK(r, files, db, now, recorded)'
    BY <1>1, StoreVault, Zenon DEF VaultInv
<1> QED BY <1>1, <1>3, <1>4, Zenon DEF VaultInv

\* The batch of a Put records the prune time the upload was verified with.
LEMMA CommitVault ==
    ASSUME ServerInv, VaultInv, NEW u \in Handlers, CommitPut(u)
    PROVE  VaultInv'
<1> DEFINE p == handler[u].p
           m == Minute(handler[u].pruneAt)
<1>1. /\ handler[u].pc = "commit" /\ Goto(u, "sign") /\ Commit(PutBatch(p, handler[u].pruneAt))
      /\ recorded' = recorded \cup {<<m, p>>} /\ UNCHANGED <<now, files, reader, pruner>>
    BY Zenon DEF CommitPut, envVars
<1>2. /\ db' = [pp |-> db.pp \cup {p}, shard |-> db.shard \cup {p},
                prune |-> db.prune \cup {<<m, p>>}]
      /\ survivors' \subseteq survivors \cup {db'}
    BY <1>1, Zenon DEF Commit, PutBatch
<1>3. /\ StepOf(u, handler, handler') /\ handler'[u].pc = "sign"
      /\ handler'[u].p = handler[u].p
    BY <1>1, GotoStep, Zenon DEF ServerInv
<1>4. UploadsOK(handler', files', now', recorded')
    <2>1. handler[u].pc \notin {"idle", "verified"} /\ handler'[u].pc # "commit"
        BY <1>1, <1>3
    <2>2. UploadsOK(handler', files, now, recorded)
        BY <1>3, <2>1, UploadsStep, Zenon DEF ServerInv, VaultInv
    <2>3. \A q : Past(q, now, recorded) => Past(q, now, recorded')
        BY <1>1, Zenon DEF Past
    <2> QED BY <1>1, <2>2, <2>3, Zenon DEF UploadsOK
<1>5. /\ p \in files \/ Past(p, now, recorded)
      /\ p \in Promises /\ m \in Int
    <2>1. p \in Promises /\ handler[u].pruneAt \in Nat
        BY <1>1, BusyFields, Zenon DEF ServerInv
    <2>2. m \in Nat
        BY <2>1, MinuteLater, Zenon
    <2>3. m \in Int
        BY <2>2
    <2> QED BY <1>1, <2>1, <2>3, Zenon DEF VaultInv, UploadsOK
<1> HIDE DEF p, m
<1>6. recorded' \subseteq Keys /\ recorded \subseteq recorded'
    <2>1. <<m, p>> \in Keys
        BY <1>5 DEF Keys
    <2> QED BY <1>1, <2>1, Zenon DEF VaultInv
<1>7. IndexTimed(db', recorded')
    <2>1. <<m, p>>[1] = m /\ <<m, p>>[2] = p
        BY Zenon
    <2>2. db'.shard = db.shard \cup {p} /\ db'.prune = db.prune \cup {<<m, p>>}
        BY <1>2, Zenon
    <2>3. db'.prune \subseteq recorded'
        BY <1>1, <2>2, Zenon DEF VaultInv, IndexTimed
    <2>4. \A q \in db'.shard : \E k \in recorded' : k[2] = q
        BY <1>1, <2>1, <2>2, Zenon DEF VaultInv, IndexTimed
    <2> QED BY <2>3, <2>4, Zenon DEF IndexTimed
<1>8. /\ (\A d \in survivors \cup {db} :
             IndexTimed(d, recorded) /\ StoredOK(d.shard, files, db, now, recorded))'
      /\ \A r : ReaderOK(r, files, db, now, recorded) => ReaderOK(r, files, db, now, recorded)'
    <2>1. db'.shard = db.shard \cup {p}
        BY <1>2, Zenon
    <2> QED BY <1>1, <1>2, <1>5, <1>6, <1>7, <2>1, StoreVault, Zenon
<1>9. PrunerIndexed(pruner, db')
    BY <1>2, Zenon DEF VaultInv, PrunerIndexed
<1>10. (\A r \in Readers : ReaderOK(reader[r], files, db, now, recorded))'
    BY <1>1, <1>8, Zenon DEF VaultInv
<1> QED BY <1>1, <1>4, <1>6, <1>8, <1>9, <1>10, Zenon DEF VaultInv

\* A failing commit removes only a file without a marker, of no other upload.
LEMMA CommitFailsVault ==
    ASSUME ServerInv, VaultInv, NEW u \in Handlers, CommitPutFails(u)
    PROVE  VaultInv'
<1> DEFINE p == handler[u].p
<1>1. /\ handler[u].pc = "commit" /\ Return(u)
      /\ files' = IF p \in db.shard THEN files ELSE files \ {p}
      /\ UNCHANGED <<now, db, survivors, reader, pruner, recorded>>
    BY Zenon DEF CommitPutFails
<1>2. StepOf(u, handler, handler') /\ handler'[u] = IdleHandler
    BY <1>1, ReturnStep, Zenon DEF Return, ServerInv, HandlersOK
<1>3. \A v \in Handlers \ {u} : handler[v].pc = "commit" => handler[v].p # p
    BY <1>1, Zenon DEF VaultInv, UploadsOK
<1>4. UploadsOK(handler', files', now, recorded)
    BY <1>1, <1>2, <1>3, UploadsStep DEF ServerInv, VaultInv
<1>5. /\ (\A d \in survivors \cup {db} :
                 IndexTimed(d, recorded) /\ StoredOK(d.shard, files, db, now, recorded))'
      /\ \A r : ReaderOK(r, files, db, now, recorded) => ReaderOK(r, files, db, now, recorded)'
    BY <1>1, StoreVault, Zenon DEF VaultInv
<1> QED BY <1>1, <1>4, <1>5, Zenon DEF VaultInv

\* Every step of an upload keeps the invariant.
LEMMA UploadVault ==
    ASSUME ServerInv, VaultInv, NEW u \in Handlers,
           UploadStep(u) \/ UploadFault(u)
    PROVE  VaultInv'
<1>1. CASE LockAndHas(u)
    BY <1>1, StartVault, Zenon
<1>2. CASE ReserveAdd(u)
    <2>1. PICK pc \in {"publish", "over"} : Goto(u, pc)
        BY <1>2, Zenon DEF ReserveAdd, Staged
    <2>2. handler[u].pc = "reserve" /\ UNCHANGED <<now, db, survivors, files, reader, pruner, recorded>>
        BY <1>2, Zenon DEF ReserveAdd, envVars
    <2>3. /\ StepOf(u, handler, handler') /\ handler'[u].pc = pc
          /\ handler'[u].p = handler[u].p
        BY <2>1, <2>2, GotoStep, Zenon DEF ServerInv
    <2> QED BY <2>2, <2>3, QuietVault, Zenon
<1>3. CASE ReserveUndo(u) \/ AbortPut(u) \/ SignPromise(u) \/ SignFails(u)
    <2>1. Return(u) /\ UNCHANGED <<now, db, survivors, files, reader, pruner, recorded>>
        BY <1>3, Zenon DEF ReserveUndo, AbortPut, SignPromise, SignFails, envVars, storeVars
    <2>2. StepOf(u, handler, handler') /\ handler'[u] = IdleHandler
        BY <2>1, ReturnStep, Zenon DEF Return, ServerInv, HandlersOK
    <2> QED BY <2>1, <2>2, QuietVault, Zenon
<1>4. CASE Publish(u) \/ CommitPut(u) \/ CommitPutFails(u)
    BY <1>4, PublishVault, CommitVault, CommitFailsVault, Zenon
<1> QED BY <1>1, <1>2, <1>3, <1>4, Zenon DEF UploadStep, UploadFault

\* The prune loop removes what is past its time, and holds keys of the index.
LEMMA PruneVault ==
    ASSUME ServerInv, VaultInv, PruneStep \/ PruneFails
    PROVE  VaultInv'
<1>0. now' = now /\ UNCHANGED <<handler, reader, recorded>>
    BY Zenon DEF PruneStep, PruneStart, PruneStat, PruneRemove, PruneCommit, PruneRelease,
           RecomputeBudget, PruneFails, envVars
<1>1. CASE PruneRemove
    <2> DEFINE k == pruner.key
    <2>1. /\ pruner.pc = "remove" /\ files' = files \ {k[2]} /\ UNCHANGED <<db, survivors>>
          /\ pruner' = [pc |-> "stat", todo |-> pruner.todo, batch |-> pruner.batch \cup {k},
                        freed |-> pruner.freed + IF pruner.seen THEN k[2].size ELSE 0]
        BY <1>1, Zenon DEF PruneRemove
    <2>2. k \in db.prune /\ k \in DueKeys(now)
        BY <2>1, PrunerFields, Zenon DEF VaultInv, PrunerIndexed, ServerInv
    <2>3. Past(k[2], now, recorded)
        BY <2>2, DueIsPast, Zenon DEF VaultInv
    <2>4. PrunerIndexed(pruner', db)
        BY <2>1, <2>2, Zenon DEF VaultInv, PrunerIndexed
    <2> HIDE DEF k
    <2>5. UploadsOK(handler, files', now, recorded)
        BY <2>1, <2>3, Zenon DEF VaultInv, UploadsOK
    <2>6. /\ (\A d \in survivors \cup {db} :
                 IndexTimed(d, recorded) /\ StoredOK(d.shard, files, db, now, recorded))'
          /\ \A r : ReaderOK(r, files, db, now, recorded) => ReaderOK(r, files, db, now, recorded)'
        BY <1>0, <2>1, <2>3, StoreVault, Zenon DEF VaultInv
    <2> QED BY <1>0, <2>1, <2>4, <2>5, <2>6, Zenon DEF VaultInv
<1>2. CASE PruneCommit
    <2> DEFINE gone == {k[2] : k \in pruner.batch}
    <2>1. /\ pruner.pc = "stat" /\ pruner' = [pc |-> "release", freed |-> pruner.freed]
          /\ Commit(PruneBatch(pruner.batch)) /\ UNCHANGED files
        BY <1>2, Zenon DEF PruneCommit
    <2>2. /\ db' = [pp |-> db.pp \ gone, shard |-> db.shard \ gone,
                    prune |-> db.prune \ pruner.batch]
          /\ survivors' \subseteq survivors \cup {db'}
        BY <2>1, Zenon DEF Commit, PruneBatch
    <2>3. \A k \in pruner.batch : Past(k[2], now, recorded)
        BY <2>1, PrunerFields, DueIsPast, Zenon DEF VaultInv, PrunerIndexed, ServerInv
    <2>4. \A q \in gone : Past(q, now, recorded)
        BY <2>3, Zenon
    <2> HIDE DEF gone
    <2>6. IndexTimed(db', recorded')
        BY <1>0, <2>2, Zenon DEF VaultInv, IndexTimed
    <2>7. /\ (\A d \in survivors \cup {db} :
                 IndexTimed(d, recorded) /\ StoredOK(d.shard, files, db, now, recorded))'
          /\ \A r : ReaderOK(r, files, db, now, recorded) => ReaderOK(r, files, db, now, recorded)'
        BY <1>0, <2>1, <2>2, <2>4, <2>6, StoreVault, Zenon
    <2>8. PrunerIndexed(pruner', db')
        BY <2>1, Zenon DEF PrunerIndexed
    <2> QED BY <1>0, <2>1, <2>7, <2>8, Zenon DEF VaultInv
<1>3. ASSUME UNCHANGED <<db, survivors, files>>, PrunerIndexed(pruner', db) PROVE VaultInv'
    BY <1>0, <1>3, Zenon DEF VaultInv
<1>4. CASE PruneStart
    BY <1>3, <1>4, Zenon DEF PruneStart, PrunerIndexed, PruneKeys, storeVars
<1>5. ASSUME NEW k, PruneStat(k) PROVE VaultInv'
    <2>1. /\ pruner.pc = "stat" /\ k \in pruner.todo /\ UNCHANGED <<db, survivors, files>>
          /\ pruner' = [pc |-> "remove", todo |-> pruner.todo \ {k}, batch |-> pruner.batch,
                        freed |-> pruner.freed, key |-> k, seen |-> k[2] \in files]
        BY <1>5, Zenon DEF PruneStat, storeVars
    <2>2. PrunerIndexed(pruner', db)
        BY <2>1, Zenon DEF VaultInv, PrunerIndexed
    <2> QED BY <1>3, <2>1, <2>2, Zenon
<1>6. CASE PruneRelease \/ RecomputeBudget \/ PruneFails
    <2>1. UNCHANGED <<db, survivors, files>>
        BY <1>6, Zenon DEF PruneRelease, RecomputeBudget, PruneFails, storeVars
    <2>2. pruner'.pc \in {"release", "budget", "idle"}
        BY <1>6, SMTT(20) DEF PruneRelease, RecomputeBudget, PruneFails, IdlePruner
    <2> QED BY <1>3, <2>1, <2>2, Zenon DEF PrunerIndexed
<1> QED BY <1>1, <1>2, <1>4, <1>5, <1>6, Zenon DEF PruneStep

\* The first of a set of promises is one of them.
LEMMA FirstIn == ASSUME NEW S \in SUBSET Promises, S # {} PROVE First(S) \in S
<1> DEFINE ids == {p.id : p \in S}
<1>1. ids \subseteq Nat /\ ids # {}
    BY ServerAssumption, Zenon
<1>2. PICK n \in ids : \A m \in ids : n <= m
    <2> HIDE DEF ids
    <2> QED BY <1>1, LeastNatural, Zenon
<1>3. \E p \in S : \A q \in S : p.id <= q.id
    BY <1>2, Zenon
<1> QED BY <1>3, Zenon DEF First

\* A reader only drops a marker whose file it found missing.
LEMMA LookOK ==
    ASSUME NEW S \in SUBSET Promises, StoredOK(S, files, db, now, recorded)
    PROVE  ReaderOK(Look(S), files, db, now, recorded)
<1>1. CASE S = {} \/ First(S) \in files
    BY <1>1, Zenon DEF Look, ReaderOK
<1>2. CASE S # {} /\ First(S) \notin files
    <2>1. First(S) \in S /\ Past(First(S), now, recorded)
        BY <1>2, FirstIn, Zenon DEF StoredOK
    <2>2. Look(S) = [pc |-> "drop", todo |-> S \ {First(S)}, p |-> First(S)]
        BY <1>2, Zenon DEF Look
    <2> QED BY <2>1, <2>2, SMTT(20) DEF ReaderOK, StoredOK
<1> QED BY <1>1, <1>2, Zenon

\* Downloads keep the invariant.
LEMMA ReaderVault ==
    ASSUME ServerInv, VaultInv, NEW r \in Readers,
           GetDropMarker(r) \/ \E p \in Promises : GetMissing(r, p.com)
    PROVE  VaultInv'
<1>1. CASE \E p \in Promises : GetMissing(r, p.com)
    <2>1. PICK p \in Promises : GetMissing(r, p.com)
        BY <1>1, Zenon
    <2> DEFINE S == {q \in db.shard : q.com = p.com}
    <2>2. /\ reader' = [reader EXCEPT ![r] = Look(S)]
          /\ UNCHANGED <<now, db, survivors, files, handler, pruner, recorded>>
        BY <2>1, Zenon DEF GetMissing, envVars, storeVars
    <2>3. S \in SUBSET Promises /\ StoredOK(S, files, db, now, recorded)
        BY Zenon DEF ServerInv, IndexOK, VaultInv, StoredOK
    <2>4. ReaderOK(Look(S), files, db, now, recorded)
        BY <2>3, LookOK, Zenon
    <2> HIDE DEF S
    <2>5. \A t \in Readers : reader'[t] = IF t = r THEN Look(S) ELSE reader[t]
        BY <2>2, Zenon DEF VaultInv
    <2>6. reader' = [t \in Readers |-> reader'[t]]
        BY <2>2, Zenon DEF VaultInv
    <2> QED BY <2>2, <2>4, <2>5, <2>6, Zenon DEF VaultInv
<1>2. CASE GetDropMarker(r)
    <2> DEFINE p == reader[r].p
               S == reader[r].todo
    <2>1. /\ reader[r].pc = "drop" /\ Commit([db EXCEPT !.shard = db.shard \ {p}])
          /\ reader' = [reader EXCEPT ![r] = Look(S)]
          /\ UNCHANGED <<now, files, handler, pruner, recorded>>
        BY <1>2, Zenon DEF GetDropMarker, envVars, VaultInv
    <2>2. Past(p, now, recorded) /\ S \in SUBSET Promises /\ StoredOK(S, files, db, now, recorded)
        BY <2>1 DEF VaultInv, ReaderOK, IdleReader
    <2> HIDE DEF p, S
    <2>3. /\ db'.shard = db.shard \ {p} /\ db'.prune = db.prune
          /\ survivors' \subseteq survivors \cup {db'}
        BY <2>1, Zenon DEF Commit, ServerInv, IndexOK
    <2>4. IndexTimed(db', recorded')
        BY <2>1, <2>3, Zenon DEF VaultInv, IndexTimed
    <2>5. /\ (\A d \in survivors \cup {db} :
                 IndexTimed(d, recorded) /\ StoredOK(d.shard, files, db, now, recorded))'
          /\ \A t : ReaderOK(t, files, db, now, recorded) => ReaderOK(t, files, db, now, recorded)'
        BY <2>1, <2>2, <2>3, <2>4, StoreVault, ZenonT(30)
    <2>6. ReaderOK(Look(S), files, db, now, recorded)
        BY <2>2, LookOK, Zenon
    <2>7. \A t \in Readers : reader'[t] = IF t = r THEN Look(S) ELSE reader[t]
        BY <2>1, Zenon DEF VaultInv
    <2>8. reader' = [t \in Readers |-> reader'[t]]
        BY <2>1, Zenon DEF VaultInv
    <2>9. \A t \in Readers : ReaderOK(reader'[t], files, db, now, recorded)
        BY <2>6, <2>7, Zenon DEF VaultInv
    <2>10. PrunerIndexed(pruner, db')
        BY <2>3, Zenon DEF VaultInv, PrunerIndexed
    <2>11. (\A t \in Readers : ReaderOK(reader[t], files, db, now, recorded))'
        BY <2>5, <2>9, Zenon
    <2> QED BY <2>1, <2>5, <2>8, <2>10, <2>11, ZenonT(30) DEF VaultInv
<1> QED BY <1>1, <1>2, Zenon

\* A crash falls back to an index whose missing files are past their time.
LEMMA ProcessVault ==
    ASSUME ServerInv, VaultInv, Crash \/ Restart \/ Tick
    PROVE  VaultInv'
<1>1. CASE Crash
    <2>1. PICK d \in survivors : db' = d /\ survivors' = {d}
        BY <1>1, Zenon DEF Crash
    <2>2. /\ handler' = [u \in Handlers |-> IdleHandler] /\ pruner' = IdlePruner
          /\ reader' = [r \in Readers |-> IdleReader] /\ UNCHANGED <<now, files, recorded>>
        BY <1>1, Zenon DEF Crash
    <2>3. IndexTimed(d, recorded) /\ StoredOK(d.shard, files, d, now, recorded)
        BY Zenon DEF VaultInv, StoredOK
    <2>4. UploadsOK(handler', files, now, recorded)
        BY <2>2, Zenon DEF UploadsOK, IdleHandler
    <2>5. PrunerIndexed(pruner', db')
        BY <2>2, Zenon DEF PrunerIndexed, IdlePruner
    <2>6. reader' = [r \in Readers |-> reader'[r]] /\ \A r \in Readers : reader'[r] = IdleReader
        BY <2>2, Zenon
    <2>7. (\A r \in Readers : ReaderOK(reader[r], files, db, now, recorded))'
        BY <2>6, Zenon DEF ReaderOK
    <2> QED BY <2>1, <2>2, <2>3, <2>4, <2>5, <2>6, <2>7, ZenonT(30) DEF VaultInv
<1>2. CASE Restart
    <2>1. UNCHANGED <<now, db, survivors, files, handler, reader, pruner, recorded>>
        BY <1>2, Zenon DEF Restart
    <2> QED BY <2>1, Zenon DEF VaultInv
<1>3. CASE Tick
    <2>1. /\ now' = now + 1 /\ survivors' = {db}
          /\ UNCHANGED <<db, files, handler, reader, pruner, recorded>>
        BY <1>3, Zenon DEF Tick
    <2>2. \A q : Past(q, now, recorded) => Past(q, now', recorded)
        <3>1. now \in Nat /\ recorded \in SUBSET Keys
            BY DEF ServerInv, EnvOK, VaultInv
        <3> QED BY <2>1, <3>1, PastLater, Zenon
    <2>3. \A S : StoredOK(S, files, db, now, recorded) => StoredOK(S, files, db, now', recorded)
        BY <2>2, Zenon DEF StoredOK
    <2>4. \A r \in Readers : ReaderOK(reader[r], files, db, now', recorded)
        BY <2>2, <2>3, Zenon DEF VaultInv, ReaderOK
    <2>5. UploadsOK(handler, files, now', recorded)
        BY <2>2, Zenon DEF VaultInv, UploadsOK
    <2>6. IndexTimed(db, recorded) /\ StoredOK(db.shard, files, db, now', recorded)
        BY <2>3, Zenon DEF VaultInv
    <2> QED BY <2>1, <2>4, <2>5, <2>6, Zenon DEF VaultInv
<1> QED BY <1>1, <1>2, <1>3, Zenon

\* The invariant of the refinement.
LEMMA VaultInvInductive ==
    /\ Init => VaultInv
    /\ ServerInv /\ VaultInv /\ [Next]_vars => VaultInv'
<1>1. ASSUME Init PROVE VaultInv
    <2>1. IndexTimed(EmptyIndex, recorded) /\ StoredOK(EmptyIndex.shard, files, db, now, recorded)
        BY Zenon DEF IndexTimed, StoredOK, EmptyIndex
    <2>2. UploadsOK(handler, files, now, recorded)
        BY <1>1, Zenon DEF Init, UploadsOK, IdleHandler
    <2>3. PrunerIndexed(pruner, db)
        BY <1>1, Zenon DEF Init, PrunerIndexed, IdlePruner
    <2>4. reader = [r \in Readers |-> reader[r]]
          /\ \A r \in Readers : ReaderOK(reader[r], files, db, now, recorded)
        BY <1>1, Zenon DEF Init, ReaderOK
    <2>5. survivors \cup {db} = {EmptyIndex} /\ recorded \subseteq Keys
        BY <1>1, Zenon DEF Init
    <2> QED BY <2>1, <2>2, <2>3, <2>4, <2>5, Zenon DEF VaultInv
<1>2. ASSUME ServerInv, VaultInv, [Next]_vars PROVE VaultInv'
    <2>1. CASE \E u \in Handlers, p \in Promises : VerifyPromise(u, p)
        BY <1>2, <2>1, StartVault, Zenon
    <2>2. CASE \E u \in Handlers : UploadStep(u) \/ UploadFault(u)
        BY <1>2, <2>2, UploadVault, Zenon
    <2>3. CASE PruneStep \/ PruneFails
        BY <1>2, <2>3, PruneVault, Zenon
    <2>4. CASE \E r \in Readers : GetDropMarker(r) \/ \E p \in Promises : GetMissing(r, p.com)
        BY <1>2, <2>4, ReaderVault, Zenon
    <2>5. CASE UNCHANGED vars
        BY <1>2, <2>5, Zenon DEF VaultInv, vars, envVars, storeVars
    <2> QED BY <1>2, <2>1, <2>2, <2>3, <2>4, <2>5, ProcessVault, ZenonT(30) DEF Next
<1> QED BY <1>1, <1>2, Zenon

\* The refinement mapping of Vault, and what it makes of a step.
KeptNow == {p \in signed : Has(p)}
DueNow == [p \in Promises |-> {k[1] : k \in {j \in recorded : j[2] = p}}]

VaultStep == Vault!VaultNext \/ UNCHANGED <<now, crashes, KeptNow, DueNow>>

\* A step that changes neither the index, the files nor the signed promises is a stutter.
LEMMA StutterRefines ==
    ASSUME UNCHANGED <<now, crashes, signed, recorded, db, files>>
    PROVE  VaultStep
<1>1. UNCHANGED <<now, crashes, KeptNow, DueNow>>
    BY Zenon DEF KeptNow, DueNow, Has
<1> QED BY <1>1, Zenon DEF VaultStep

\* A step that only takes files and markers is an Expire, if a shard that can no longer be
\* read is past a recorded minute.
LEMMA ExpireRefines ==
    ASSUME UNCHANGED <<now, crashes, signed, recorded>>, files' \subseteq files,
           db'.shard \subseteq db.shard,
           \A p \in KeptNow \ KeptNow' : p \in Promises /\ Past(p, now, recorded)
    PROVE  VaultStep
<1>1. KeptNow' \subseteq KeptNow
    BY Zenon DEF KeptNow, Has
<1>2. ASSUME NEW p \in KeptNow \ KeptNow' PROVE \E m \in DueNow[p] : m < Minute(now)
    <2>1. PICK k \in recorded : k[2] = p /\ k[1] < Minute(now)
        BY <1>2, Zenon DEF Past
    <2>2. k[1] \in DueNow[p]
        BY <1>2, <2>1, Zenon DEF DueNow
    <2> QED BY <2>1, <2>2, Zenon
<1>3. UNCHANGED DueNow
    BY Zenon DEF DueNow
<1>4. Vault!Expire
    BY <1>1, <1>2, <1>3, Zenon DEF Vault!Expire, Vault!Minute, Minute, KeptNow, DueNow
<1> QED BY <1>4, Zenon DEF VaultStep, Vault!VaultNext

\* A step that adds a file of one promise, or its marker and a recorded key, is a Store.
LEMMA StoreRefines ==
    ASSUME NEW p \in Promises, NEW m, UNCHANGED <<now, crashes, signed>>,
           files' \in {files, files \cup {p}}, db'.shard \in {db.shard, db.shard \cup {p}},
           recorded' = recorded \cup {<<m, p>>}
    PROVE  VaultStep
<1>1. KeptNow' \in {KeptNow, KeptNow \cup {p}}
    <2>1. \A q : q # p => (q \in KeptNow' <=> q \in KeptNow)
        BY DEF KeptNow, Has
    <2>2. p \in KeptNow => p \in KeptNow'
        BY Zenon DEF KeptNow, Has
    <2> QED BY <2>1, <2>2
<1>2. <<m, p>>[1] = m /\ <<m, p>>[2] = p
    BY Zenon
<1>3. DueNow'[p] = DueNow[p] \cup {m} /\ m \in DueNow'[p]
    <2>1. \A x : x \in DueNow'[p] <=> \E k \in recorded' : k[2] = p /\ k[1] = x
        BY Zenon DEF DueNow
    <2>2. \A x : x \in DueNow[p] <=> \E k \in recorded : k[2] = p /\ k[1] = x
        BY Zenon DEF DueNow
    <2>3. ASSUME NEW x PROVE x \in DueNow'[p] <=> x \in DueNow[p] \/ x = m
        <3>1. \A k : k \in recorded' <=> k \in recorded \/ k = <<m, p>>
            BY Zenon
        <3>2. x \in DueNow'[p] => x \in DueNow[p] \/ x = m
            BY <1>2, <2>1, <2>2, <3>1, Zenon
        <3>3. x \in DueNow[p] => x \in DueNow'[p]
            BY <2>1, <2>2, <3>1, Zenon
        <3>4. x = m => \E k \in recorded' : k[2] = p /\ k[1] = x
            BY <1>2, <3>1, Zenon
        <3> QED BY <2>1, <3>2, <3>3, <3>4, Zenon
    <2> QED BY <2>3, Zenon
<1>4. ASSUME NEW q \in Promises \ {p} PROVE DueNow'[q] = DueNow[q]
    <2>1. {j \in recorded' : j[2] = q} = {j \in recorded : j[2] = q}
        BY <1>2, <1>4, Zenon
    <2> QED BY <2>1, <1>4, Zenon DEF DueNow
<1>5. DueNow' = [DueNow EXCEPT ![p] = DueNow[p] \cup {m}]
    <2>1. DueNow' = [q \in Promises |-> DueNow'[q]] /\ DueNow = [q \in Promises |-> DueNow[q]]
        BY Zenon DEF DueNow
    <2> HIDE DEF DueNow
    <2> QED BY <1>3, <1>4, <2>1, Zenon
<1>6. Vault!Store(p)
    BY <1>1, <1>3, <1>5, Zenon DEF Vault!Store, KeptNow, DueNow
<1> QED BY <1>6, Zenon DEF VaultStep, Vault!VaultNext

\* A signature for a shard that is there comes with a recorded prune minute.
LEMMA SignRefines ==
    ASSUME VaultInv, NEW p \in Promises, signed' = signed \cup {p},
           UNCHANGED <<now, crashes, recorded, db, files>>
    PROVE  VaultStep
<1>1. CASE Has(p)
    <2>1. KeptNow' = KeptNow \cup {p}
        BY <1>1, Zenon DEF KeptNow, Has
    <2>2. PICK k \in recorded : k[2] = p
        BY <1>1, Zenon DEF Has, VaultInv, IndexTimed
    <2>3. DueNow[p] # {}
        BY <2>2, Zenon DEF DueNow
    <2>4. UNCHANGED DueNow
        BY Zenon DEF DueNow
    <2>5. Vault!Sign(p)
        BY <2>1, <2>3, <2>4, Zenon DEF Vault!Sign, KeptNow, DueNow
    <2> QED BY <2>5, Zenon DEF VaultStep, Vault!VaultNext
<1>2. CASE ~Has(p)
    <2>1. UNCHANGED <<KeptNow, DueNow>>
        BY <1>2, Zenon DEF KeptNow, DueNow, Has
    <2> QED BY <2>1, Zenon DEF VaultStep
<1> QED BY <1>1, <1>2, Zenon

\* The steps of an upload.
LEMMA UploadRefines ==
    ASSUME ServerInv, VaultInv, NEW u \in Handlers, UploadStep(u) \/ UploadFault(u)
    PROVE  VaultStep
<1> DEFINE p == handler[u].p
<1>1. CASE LockAndHas(u) \/ ReserveAdd(u) \/ ReserveUndo(u) \/ AbortPut(u) \/ SignFails(u)
    BY <1>1, StutterRefines, Zenon
       DEF LockAndHas, ReserveAdd, ReserveUndo, AbortPut, SignFails, envVars, storeVars
<1>2. CASE Publish(u)
    <2>1. /\ handler[u].pc # "idle" /\ files' = files \cup {p}
          /\ UNCHANGED <<now, crashes, db, signed, recorded>>
        BY <1>2, Zenon DEF Publish, envVars
    <2>2. p \in Promises
        BY <2>1, BusyFields, Zenon DEF ServerInv
    <2>3. CASE p \in db.shard
        <3>1. PICK k \in recorded : k[2] = p
            BY <2>3, Zenon DEF VaultInv, IndexTimed
        <3>2. <<k[1], p>> = k
            BY <3>1 DEF VaultInv, Keys
        <3>3. recorded' = recorded \cup {<<k[1], p>>}
            BY <2>1, <3>2, Zenon
        <3> QED BY <2>1, <2>2, <3>3, StoreRefines, Zenon
    <2>4. CASE p \notin db.shard
        BY <2>1, <2>4, Zenon DEF VaultStep, KeptNow, DueNow, Has
    <2> QED BY <2>3, <2>4, Zenon
<1>3. CASE CommitPut(u)
    <2>1. /\ handler[u].pc # "idle" /\ UNCHANGED <<now, crashes, files, signed>>
          /\ db'.shard = db.shard \cup {p}
          /\ recorded' = recorded \cup {<<Minute(handler[u].pruneAt), p>>}
        BY <1>3, Zenon DEF CommitPut, Commit, PutBatch, envVars
    <2> QED BY <2>1, BusyFields, StoreRefines, Zenon DEF ServerInv
<1>4. CASE CommitPutFails(u)
    <2>1. /\ files' = IF p \in db.shard THEN files ELSE files \ {p}
          /\ UNCHANGED <<now, crashes, db, signed, recorded>>
        BY <1>4, Zenon DEF CommitPutFails
    <2>2. KeptNow' = KeptNow
        BY <2>1, Zenon DEF KeptNow, Has
    <2> QED BY <2>1, <2>2, Zenon DEF VaultStep, DueNow
<1>5. CASE SignPromise(u)
    <2>1. /\ handler[u].pc # "idle" /\ signed' = signed \cup {p}
          /\ UNCHANGED <<now, crashes, recorded, db, files>>
        BY <1>5, Zenon DEF SignPromise, envVars, storeVars
    <2> QED BY <2>1, BusyFields, SignRefines, Zenon DEF ServerInv
<1> QED BY <1>1, <1>2, <1>3, <1>4, <1>5, ZenonT(30) DEF UploadStep, UploadFault

\* The steps of the prune loop.
LEMMA PruneRefines ==
    ASSUME ServerInv, VaultInv, PruneStep \/ PruneFails
    PROVE  VaultStep
<1>1. CASE PruneRemove
    <2> DEFINE k == pruner.key
    <2>1. /\ pruner.pc = "remove" /\ files' = files \ {k[2]}
          /\ UNCHANGED <<now, crashes, signed, recorded, db>>
        BY <1>1, Zenon DEF PruneRemove, envVars
    <2>2. k \in db.prune /\ k \in DueKeys(now) /\ k[2] \in Promises
        BY <2>1, PrunerFields, Zenon DEF VaultInv, PrunerIndexed, ServerInv, DueKeys, Keys
    <2>4. Past(k[2], now, recorded)
        BY <2>2, DueIsPast, Zenon DEF VaultInv
    <2>3. \A p \in KeptNow \ KeptNow' : p = k[2]
        BY <2>1, Zenon DEF KeptNow, Has
    <2> HIDE DEF k
    <2> QED BY <2>1, <2>2, <2>3, <2>4, ExpireRefines, Zenon
<1>2. CASE PruneCommit
    <2> DEFINE gone == {k[2] : k \in pruner.batch}
    <2>1. /\ pruner.pc = "stat" /\ UNCHANGED <<now, crashes, signed, recorded, files>>
          /\ db'.shard = db.shard \ gone
        BY <1>2, Zenon DEF PruneCommit, Commit, PruneBatch, envVars
    <2>2. \A k \in pruner.batch : k \in db.prune /\ k \in DueKeys(now)
        BY <2>1, PrunerFields, Zenon DEF VaultInv, PrunerIndexed, ServerInv
    <2>3. \A k \in pruner.batch : Past(k[2], now, recorded) /\ k[2] \in Promises
        BY <2>2, DueIsPast, Zenon DEF VaultInv, DueKeys, Keys
    <2>4. \A p \in KeptNow \ KeptNow' : p \in gone
        BY <2>1, Zenon DEF KeptNow, Has
    <2>5. \A p \in KeptNow \ KeptNow' : p \in Promises /\ Past(p, now, recorded)
        BY <2>3, <2>4, Zenon
    <2> HIDE DEF gone
    <2> QED BY <2>1, <2>5, ExpireRefines, Zenon
<1>3. CASE PruneStart \/ PruneRelease \/ RecomputeBudget \/ PruneFails \/ \E k : PruneStat(k)
    BY <1>3, StutterRefines, Zenon
       DEF PruneStart, PruneRelease, RecomputeBudget, PruneFails, PruneStat, envVars, storeVars
<1> QED BY <1>1, <1>2, <1>3, Zenon DEF PruneStep

\* A step of the server is a step of the vault or a stutter.
LEMMA StepRefines ==
    ASSUME ServerInv, VaultInv, [Next]_vars
    PROVE  VaultStep
<1>1. CASE \E u \in Handlers, p \in Promises : VerifyPromise(u, p)
    BY <1>1, StutterRefines, Zenon DEF VerifyPromise, envVars, storeVars
<1>2. CASE \E u \in Handlers : UploadStep(u) \/ UploadFault(u)
    BY <1>2, UploadRefines, Zenon
<1>3. CASE PruneStep \/ PruneFails
    BY <1>3, PruneRefines, Zenon
<1>4. CASE \E r \in Readers, p \in Promises : GetMissing(r, p.com)
    BY <1>4, StutterRefines, Zenon DEF GetMissing, envVars, storeVars
<1>5. ASSUME NEW r \in Readers, GetDropMarker(r) PROVE VaultStep
    <2> DEFINE p == reader[r].p
    <2>1. /\ reader[r].pc = "drop" /\ UNCHANGED <<now, crashes, signed, recorded, files>>
          /\ db' = [db EXCEPT !.shard = db.shard \ {p}]
        BY <1>5, Zenon DEF GetDropMarker, Commit, envVars
    <2>2. db'.shard = db.shard \ {p}
        BY <2>1, Zenon DEF ServerInv, IndexOK
    <2>3. Past(p, now, recorded) /\ p \in Promises
        BY <2>1 DEF VaultInv, ReaderOK, IdleReader
    <2>4. \A q \in KeptNow \ KeptNow' : q = p
        BY <2>1, <2>2, Zenon DEF KeptNow, Has
    <2> HIDE DEF p
    <2> QED BY <2>1, <2>2, <2>3, <2>4, ExpireRefines, ZenonT(30)
<1>6. CASE Crash
    <2>1. crashes' = crashes + 1 /\ UNCHANGED <<now, signed, recorded, files>>
        BY <1>6, Zenon DEF Crash
    <2>2. KeptNow' \subseteq Promises
        BY <2>1, Zenon DEF KeptNow, ServerInv
    <2>3. Vault!Crash
        BY <2>1, <2>2, Zenon DEF Vault!Crash, KeptNow, DueNow
    <2> QED BY <2>3, Zenon DEF VaultStep, Vault!VaultNext
<1>7. CASE Restart
    BY <1>7, StutterRefines, Zenon DEF Restart
<1>8. CASE Tick
    <2>1. now' = now + 1 /\ UNCHANGED <<crashes, signed, recorded, db, files>>
        BY <1>8, Zenon DEF Tick
    <2>2. UNCHANGED <<KeptNow, DueNow>> /\ now' > now
        BY <2>1 DEF KeptNow, DueNow, Has, ServerInv, EnvOK
    <2>3. Vault!Tick
        BY <2>1, <2>2, Zenon DEF Vault!Tick, KeptNow, DueNow
    <2> QED BY <2>3, Zenon DEF VaultStep, Vault!VaultNext
<1>9. CASE UNCHANGED vars
    BY <1>9, StutterRefines, Zenon DEF vars, envVars, storeVars
<1> QED BY <1>1, <1>2, <1>3, <1>4, <1>5, <1>6, <1>7, <1>8, <1>9, ZenonT(30) DEF Next

\* The split store keeps what ShardVault promises: a signed shard that can be read stays so
\* until a prune minute recorded for it has passed or the process crashes, for every
\* schedule of parameters and any number of uploads, downloads, prunes and failures.
THEOREM ShardsKept == Spec => KeepsShards
<1>1. Init => Vault!VaultInit
    BY DEF Init, Vault!VaultInit, EmptyIndex
<1>2. Spec => []VaultInv
    BY ServerInvariant, VaultInvInductive, PTL DEF Spec
<1>3. ServerInv /\ VaultInv /\ [Next]_vars
        => [Vault!VaultNext]_<<now, crashes, KeptNow, DueNow>>
    BY StepRefines, Zenon DEF VaultStep
<1> QED
    BY <1>1, <1>2, <1>3, ServerInvariant, PTL
       DEF KeepsShards, Vault!VaultSpec, Spec, KeptNow, DueNow
=============================================================================
