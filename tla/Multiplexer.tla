---------------------------- MODULE Multiplexer -----------------------------
(***************************************************************************)
(* The multiplexer between CometBFT and the application: it runs one of    *)
(* several embedded binaries, or the native application, by app version,   *)
(* and switches when the version changes.                                  *)
(*                                                                         *)
(* Its own state is in memory.  A restart reads the version from CometBFT's*)
(* state, before the handshake brings that state up to date.  CometBFT is  *)
(* external: it stores a block, finalizes it, saves the response, commits  *)
(* and saves its state, and its handshake repeats what a crash cut short.  *)
(* The query connection calls the multiplexer concurrently: getApp holds   *)
(* m.mu while it stops one binary and starts the next, each of which takes *)
(* time and may fail.                                                      *)
(***************************************************************************)
EXTENDS Integers, FiniteSets, FiniteSetsExt

CONSTANTS
    Embedded,       \* app versions with an embedded binary
    V1Versions,     \* those that speak ABCI v1
    Schedules,      \* functions: height -> app version after that block
    HaltHeights,    \* halt-height in app.toml (0: not configured)
    MaxCrashes,     \* bound on the crashes explored
    MaxErrors,      \* bound on the stops and starts of an application that fail
    Snapshots       \* heights of which peers offer a snapshot

NoVersion == 0

Native == 0         \* the native application, as a binary

ASSUME VersionsAssumption ==
    /\ IsFiniteSet(Embedded) /\ Embedded # {} /\ Embedded \subseteq Nat \ {0}
    /\ V1Versions \subseteq Embedded
    /\ HaltHeights \subseteq Nat /\ MaxCrashes \in Nat /\ MaxErrors \in Nat
    /\ \A s \in Schedules : /\ Max(DOMAIN s) \in Nat /\ DOMAIN s = 0 .. Max(DOMAIN s)
                            /\ \A h \in DOMAIN s : s[h] \in Nat \ {0}
                            /\ \A g, h \in DOMAIN s : g <= h => s[g] <= s[h]
    /\ \A s \in Schedules : Snapshots \subseteq DOMAIN s

VARIABLES
    mux,            \* the Multiplexer: [appVersion, nextAppVersion, started,
                    \*   activeVersion, nativeApp, child, halt]
    lock,           \* m.mu: "free", or the caller whose getApp is switching applications
    pc,             \* where the consensus connection is, or "down"
    schedule,       \* the chain: the app version each block leaves
    store,          \* CometBFT's block store height
    state,          \* CometBFT's saved state: [height, app]
    response,       \* the last height with a saved FinalizeBlock response
    appHeight,      \* the application's committed height
    offered,        \* the snapshot being restored (0: none)
    query,          \* the query connection: "idle", "called", "native" or "embedded"
    ran,            \* history: the last block handed to a binary
    crashes,        \* history: crashes so far
    errors,         \* history: stops and starts of an application that failed
    mocked,         \* history: this start replayed a block to a mock
    lowered         \* history: this start was offered a snapshot of an older binary

cometVars == <<store, state, response, offered>>
history == <<ran, crashes, errors, mocked, lowered>>
muxVars == <<mux, lock, pc, schedule, cometVars, appHeight, query, history>>

LastHeight == Max(DOMAIN schedule)

-----------------------------------------------------------------------------
(* The multiplexer's operations, on its state                              *)

GetForAppVersion(v) ==
    IF v > Max(Embedded) THEN NoVersion
    ELSE IF v \in Embedded THEN v
    ELSE Min(Embedded)

stopEmbeddedApp(m) ==
    IF m.child = 0 THEN m
    ELSE [m EXCEPT !.child = 0, !.started = FALSE, !.activeVersion = NoVersion]

startNativeApp(m) == [m EXCEPT !.nativeApp = TRUE, !.started = TRUE]

\* Records the version before its binary has started.
startEmbeddedApp_early(m, v, ok) ==
    [m EXCEPT !.child = IF ok THEN v ELSE 0, !.activeVersion = v, !.started = TRUE]

\* Once the old binary is stopped.
startEmbeddedApp(m, v, ok) ==
    IF ok THEN [m EXCEPT !.child = v, !.activeVersion = v, !.started = TRUE] ELSE m

\* Whether getApp has to stop or start something before it returns an application.
Switches(m) ==
    LET v == GetForAppVersion(m.appVersion)
    IN  IF v = NoVersion THEN m.child # 0 \/ ~m.nativeApp
        ELSE ~m.started \/ v > m.activeVersion

getAppStops_embedded(m) ==
    IF GetForAppVersion(m.appVersion) = NoVersion THEN m ELSE stopEmbeddedApp(m)

\* getApp, up to the point where no embedded binary runs ...
getAppStops(m) == stopEmbeddedApp(m)

\* ... and from there: the states it can leave.  A native application whose servers do not
\* start is there nevertheless.
getAppStarts(m, ok) ==
    LET v == GetForAppVersion(m.appVersion)
    IN  IF v # NoVersion THEN {startEmbeddedApp(m, v, ok)}
        ELSE IF m.nativeApp THEN {m}
        ELSE {startNativeApp(m)} \cup IF ok THEN {} ELSE {m}

\* The binary behind what getApp returns.
Serving(m) == IF GetForAppVersion(m.appVersion) = NoVersion THEN Native ELSE m.activeVersion

\* The binary a block of this app version has to run on.
BinaryFor(v) ==
    IF v > Max(Embedded) THEN Native ELSE IF v \in Embedded THEN v ELSE Min(Embedded)

NewMultiplexer(v, h) ==
    [appVersion |-> v, nextAppVersion |-> 0, started |-> FALSE,
     activeVersion |-> NoVersion, nativeApp |-> FALSE, child |-> 0, halt |-> h]

startApp(m) ==
    LET v == GetForAppVersion(m.appVersion)
    IN  IF v = NoVersion THEN startNativeApp(m)
        ELSE [m EXCEPT !.child = v, !.activeVersion = v, !.started = TRUE]

-----------------------------------------------------------------------------
(* getApp                                                                  *)

\* getApp returns at once ...
Ready == lock = "free" /\ ~Switches(mux)

\* ... and the application behind it answers.  With WaitForReady a call to an embedded
\* application waits until one listens; none can while the native one has the database.
Answers == Serving(mux) = Native \/ (mux.child # 0 /\ ~mux.nativeApp)

\* The connections that are about to call getApp.
Calls(c) == IF c = "query" THEN query = "called"
            ELSE pc \in {"handshake", "ready", "saved", "upgrading", "offering"}

Handle == IF Serving(mux') = Native THEN "native" ELSE "embedded"

\* An error of getApp is one of the call: of a query, or a failure of consensus.
Fails(c) ==
    /\ errors < MaxErrors
    /\ errors' = errors + 1
    /\ IF c = "query" THEN query' = "idle" /\ UNCHANGED pc ELSE pc' = "failed" /\ UNCHANGED query

StopRunning(c) ==
    /\ Calls(c) /\ lock = "free" /\ Switches(mux)
    /\ \/ mux' = getAppStops(mux) /\ lock' = c /\ UNCHANGED <<pc, query, errors>>
       \/ mux.child # 0 /\ Fails(c) /\ UNCHANGED <<mux, lock>>
    /\ UNCHANGED <<schedule, cometVars, appHeight, ran, crashes, mocked, lowered>>

StartNext(c) ==
    /\ lock = c
    /\ \/ /\ mux' \in getAppStarts(mux, TRUE)
          /\ query' = IF c = "query" THEN Handle ELSE query
          /\ UNCHANGED <<pc, errors>>
       \/ mux' \in getAppStarts(mux, FALSE) /\ Fails(c)
    /\ lock' = "free"
    /\ UNCHANGED <<schedule, cometVars, appHeight, ran, crashes, mocked, lowered>>

-----------------------------------------------------------------------------
(* Start and handshake                                                     *)

Start_genesis ==
    /\ pc = "down"
    /\ \E h \in HaltHeights : mux' = startApp(NewMultiplexer(schedule[0], h))
    /\ pc' = "handshake"
    /\ mocked' = FALSE /\ lowered' = FALSE
    /\ UNCHANGED <<lock, schedule, cometVars, appHeight, query, ran, crashes, errors>>

\* start reads the version of CometBFT's saved state and starts that binary.
Start ==
    /\ pc = "down"
    /\ \E h \in HaltHeights : mux' = startApp(NewMultiplexer(state.app, h))
    /\ pc' = "handshake"
    /\ mocked' = FALSE /\ lowered' = FALSE
    /\ UNCHANGED <<lock, schedule, cometVars, appHeight, query, ran, crashes, errors>>

\* The handshake asks the application for its height.  A block the
\* application has already committed is replayed to a mock from the saved
\* response; one it has not is replayed to the application.
Handshake ==
    /\ pc = "handshake" /\ Ready /\ Answers
    /\ \/ /\ appHeight = state.height
          /\ pc' = "ready"
          /\ UNCHANGED <<state, mocked>>
       \/ /\ appHeight = state.height + 1
          /\ IF response = appHeight
             THEN /\ state' = [height |-> appHeight, app |-> schedule[appHeight]]
                  /\ pc' = "ready"
                  /\ mocked' = TRUE
             ELSE pc' = "failed" /\ UNCHANGED <<state, mocked>>
    /\ UNCHANGED <<mux, lock, schedule, store, response, offered, appHeight, query,
                   ran, crashes, errors, lowered>>

-----------------------------------------------------------------------------
(* A block                                                                 *)

SaveBlock ==
    /\ pc = "ready" /\ offered = 0
    /\ store = state.height /\ store < LastHeight
    /\ store' = store + 1
    /\ UNCHANGED <<mux, lock, pc, schedule, state, response, offered, appHeight, query, history>>

checkHaltConditions(m, h) == m.halt > 0 /\ h >= m.halt

\* The client of an ABCI v1 application commits before FinalizeBlock returns.
HeightAfterFinalize(m, h) == IF Serving(m) \in V1Versions THEN h ELSE appHeight

\* The application of another version cannot execute the block and fails.  Every
\* application reports the version in ConsensusParamUpdates.
FinalizeBlock ==
    LET h == state.height + 1
    IN  /\ pc = "ready" /\ store = h
        /\ IF checkHaltConditions(mux, h)
           THEN pc' = "failed" /\ UNCHANGED <<mux, appHeight, ran>>
           ELSE /\ Ready /\ Answers
                /\ ran' = [height |-> h, binary |-> Serving(mux), mocked |-> mocked,
                           lowered |-> lowered]
                /\ IF Serving(mux) = BinaryFor(state.app)
                   THEN /\ mux' = [mux EXCEPT !.nextAppVersion = schedule[h]]
                        /\ appHeight' = HeightAfterFinalize(mux, h)
                        /\ pc' = "finalized"
                   ELSE pc' = "failed" /\ UNCHANGED <<mux, appHeight>>
        /\ UNCHANGED <<lock, schedule, cometVars, query, crashes, errors, mocked, lowered>>

SaveResponse ==
    /\ pc = "finalized"
    /\ response' = state.height + 1
    /\ pc' = "saved"
    /\ UNCHANGED <<mux, lock, schedule, store, state, offered, appHeight, query, history>>

\* Commit: the application commits, durably ...
CommitApp ==
    /\ pc = "saved" /\ Ready /\ Answers
    /\ appHeight' = state.height + 1
    /\ pc' = "durable"
    /\ UNCHANGED <<mux, lock, schedule, cometVars, query, history>>

Commit_noSwitch ==
    /\ pc = "durable"
    /\ pc' = "committed"
    /\ UNCHANGED <<mux, lock, schedule, cometVars, appHeight, query, history>>

\* ... the multiplexer takes the version of the last FinalizeBlock, without m.mu ...
Commit ==
    /\ pc = "durable"
    /\ mux' = [mux EXCEPT !.appVersion = mux.nextAppVersion]
    /\ pc' = IF mux.appVersion # mux.nextAppVersion THEN "upgrading" ELSE "committed"
    /\ UNCHANGED <<lock, schedule, cometVars, appHeight, query, history>>

\* ... and gets its application.
CommitUpgraded ==
    /\ pc = "upgrading" /\ Ready
    /\ pc' = "committed"
    /\ UNCHANGED <<mux, lock, schedule, cometVars, appHeight, query, history>>

SaveState ==
    /\ pc = "committed"
    /\ state' = [height |-> state.height + 1, app |-> schedule[state.height + 1]]
    /\ pc' = "ready"
    /\ UNCHANGED <<mux, lock, schedule, store, response, offered, appHeight, query, history>>

-----------------------------------------------------------------------------
(* State sync: a new node is offered snapshots, the highest first, and     *)
(* goes on to an older one when one cannot be restored.                    *)

Older(v, w) == v < w /\ BinaryFor(v) # BinaryFor(w)

OfferSnapshot ==
    /\ pc = "ready" /\ store = 0 /\ appHeight = 0 /\ lock = "free"
    /\ \E h \in Snapshots \ {0} :
          /\ offered # 0 => h < offered
          /\ offered' = h
          /\ mux' = [mux EXCEPT !.appVersion = schedule[h]]
          /\ lowered' = (lowered \/ Older(schedule[h], mux.appVersion))
    /\ pc' = "offering"
    /\ UNCHANGED <<lock, schedule, store, state, response, appHeight, query, ran, crashes,
                   errors, mocked>>

OfferAnswered ==
    /\ pc = "offering" /\ Ready /\ Answers
    /\ pc' = "ready"
    /\ UNCHANGED <<mux, lock, schedule, cometVars, appHeight, query, history>>

ApplySnapshotChunk ==
    /\ pc = "ready" /\ offered # 0 /\ Ready /\ Answers
    /\ appHeight' = offered
    /\ store' = offered
    /\ state' = [height |-> offered, app |-> schedule[offered]]
    /\ offered' = 0
    /\ UNCHANGED <<mux, lock, pc, schedule, response, query, history>>

-----------------------------------------------------------------------------
(* Queries, and the end of the process                                     *)

Query ==
    /\ pc # "down" /\ query = "idle"
    /\ query' = "called"
    /\ UNCHANGED <<mux, lock, pc, schedule, cometVars, appHeight, history>>

\* getApp under m.mu gives a handle; the call on it is made without m.mu.
QueryHandle ==
    /\ query = "called" /\ Ready
    /\ UNCHANGED <<mux, lock, pc, schedule, cometVars, appHeight, history>>
    /\ query' = Handle

\* WaitForReady: a call to an embedded application waits until one is there.
QueryCall ==
    /\ \/ query = "native"
       \/ query = "embedded" /\ mux.child # 0 /\ ~mux.nativeApp
    /\ query' = "idle"
    /\ UNCHANGED <<mux, lock, pc, schedule, cometVars, appHeight, history>>

\* Everything in memory is lost.
Down ==
    /\ pc' = "down" /\ lock' = "free"
    /\ mux' = NewMultiplexer(0, 0)
    /\ query' = "idle"
    /\ offered' = 0
    /\ UNCHANGED <<schedule, store, state, response, appHeight, ran, errors, mocked, lowered>>

Crash ==
    /\ pc \notin {"down", "failed"}
    /\ crashes < MaxCrashes
    /\ crashes' = crashes + 1
    /\ Down

\* The operator ends and restarts a node whose consensus failed.
Stop ==
    /\ pc = "failed"
    /\ Down
    /\ UNCHANGED crashes

MuxInit ==
    /\ schedule \in Schedules
    /\ mux = NewMultiplexer(0, 0) /\ lock = "free"
    /\ pc = "down"
    /\ store = 0 /\ response = 0 /\ appHeight = 0 /\ offered = 0
    /\ state = [height |-> 0, app |-> schedule[0]]
    /\ query = "idle"
    /\ ran = [height |-> 0, binary |-> Native, mocked |-> FALSE, lowered |-> FALSE]
    /\ crashes = 0 /\ errors = 0 /\ mocked = FALSE /\ lowered = FALSE

Consensus ==
    \/ Start \/ Handshake \/ SaveBlock \/ FinalizeBlock \/ SaveResponse
    \/ CommitApp \/ Commit \/ CommitUpgraded \/ SaveState \/ Stop
    \/ StopRunning("consensus") \/ StartNext("consensus")

Querying == QueryHandle \/ QueryCall \/ StopRunning("query") \/ StartNext("query")

StateSync == OfferAnswered \/ ApplySnapshotChunk

MuxNext == Consensus \/ OfferSnapshot \/ StateSync \/ Query \/ Querying \/ Crash

MuxSpec == MuxInit /\ [][MuxNext]_muxVars

\* The node is restarted when it is down, sooner or later without a halt
\* height; blocks are produced, a snapshot is restored, and the goroutine of
\* a query is scheduled.
FairMuxSpec ==
    /\ MuxSpec
    /\ WF_muxVars(Consensus)
    /\ SF_muxVars(Start /\ mux'.halt = 0)
    /\ WF_muxVars(StateSync)
    /\ WF_muxVars(Querying)

-----------------------------------------------------------------------------
(* Properties                                                              *)

\* The types of the multiplexer's state: started exactly when an application
\* runs, which one does outside a switch, and the heights CometBFT's
\* handshake relies on in order.
MuxTypeOK ==
    /\ mux.child \in Embedded \cup {0}
    /\ mux.activeVersion = mux.child
    /\ mux.started <=> (mux.nativeApp \/ mux.child # 0)
    /\ state.height <= appHeight /\ appHeight <= store
    /\ pc = "ready" => mux.started

\* A block goes to the binary of the version the chain is at, and a snapshot is restored by
\* that of its version, unless this start replayed a block behind the multiplexer's back or
\* was offered a snapshot of an older binary than the one it had started.
WrongBinaryOnlyAfterMock ==
    /\ ran.height > 0 /\ ~ran.mocked /\ ~ran.lowered =>
          ran.binary = BinaryFor(schedule[ran.height - 1])
    /\ offered # 0 /\ pc = "ready" /\ ~lowered => Serving(mux) = BinaryFor(schedule[offered])

\* getApp hands a block to the binary of the version the chain is at.
BlockRunsOnItsVersion ==
    ran.height > 0 => ran.binary = BinaryFor(schedule[ran.height - 1])

\* The application's database has one owner: the native application and an embedded binary
\* never run together, whatever switch failed or crashed half way, unless a snapshot of an
\* older binary was offered after one that had started the native application.
OneApplication ==
    /\ MuxTypeOK
    /\ mux.nativeApp /\ mux.child # 0 => lowered /\ offered # 0

\* "the multiplexer either uses this instance, or the version set in activeVersion"
\* (Multiplexer.nativeApp).
OneOwner == ~(mux.nativeApp /\ mux.child # 0)

\* The application has committed a block whose response was lost: CometBFT cannot replay it.
ResponseLost == pc = "down" /\ appHeight > state.height /\ response < appHeight

\* Whatever crash, failed switch or wrong version intervenes, the node catches up with the
\* chain, with two exceptions: a crash between the commit that an ABCI v1 binary makes inside
\* FinalizeBlock and the saved response, and an embedded binary started beside the native
\* application.
NodeCatchesUp ==
    <>(\/ state.height = LastHeight
       \/ ResponseLost /\ BinaryFor(state.app) \in V1Versions
       \/ mux.nativeApp /\ mux.child # 0)

\* The node catches up with the chain from every crash.
NeverStuck == <>(state.height = LastHeight)

\* A query returns even when the embedded binary is exchanged under it, and when the new one
\* does not start.  Once the native application has taken over, nothing listens any more.
QueryReturns == query # "idle" ~> query = "idle" \/ mux.nativeApp

\* Every query returns.
AnyQueryReturns == query # "idle" ~> query = "idle"
=============================================================================
