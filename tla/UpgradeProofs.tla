---------------------------- MODULE UpgradeProofs ---------------------------
(***************************************************************************)
(* An upgrade, from the signal to the binary.  Signal: the schedule of     *)
(* x/signal and EndBlocker and the quorum that TryUpgrade acts on, for     *)
(* every validator set, every assignment of powers, every delay and every  *)
(* height.  Multiplexer: one application runs, the one of the chain's      *)
(* version, and the handshake repeats what a crash cut short, for every    *)
(* set of embedded binaries without a gap, every chain whose version only  *)
(* grows (as Signal's does), every halt height, and any number of crashes, *)
(* restarts and queries.                                                   *)
(***************************************************************************)
EXTENDS Signal, Multiplexer, SumTheorems, TLAPS

-----------------------------------------------------------------------------
(* Signalling                                                              *)

\* While messages are delivered no plan is waiting; between two blocks the plan
\* that waits is the one of the running version, due in the next block.
PlanInStep ==
    /\ stage = "deliver" => plan = NoUpgrade
    /\ stage = "ended" /\ plan = NoUpgrade =>
           appVersion = GenesisVersion \/ appVersion \in done
    /\ stage = "ended" /\ plan # NoUpgrade =>
           plan.version = appVersion /\ plan.height = height + 1

DoneIsPast == \A w \in done : w <= appVersion

\* Staking gives power only to validators it knows.
PowerIsRegistered == \A v \in Validators \ registered : power[v] = 0

PendingFromQuorum ==
    IsUpgradePending => /\ upgrade.version = quorumAt.version
                        /\ upgrade.height = quorumAt.height + UpgradeHeightDelay

\* The properties are not inductive one by one: that the handler runs in time
\* needs the height of the pending upgrade and of the plan, and that a plan is
\* accepted needs the versions already handled to lie in the past.
SignalInv ==
    /\ SignalTypeOK
    /\ PendingCanApply
    /\ SignalsNotStale
    /\ MigratedBeforeMessages
    /\ ScheduleNeverFails
    /\ PlanInStep
    /\ DoneIsPast
    /\ PendingFromQuorum
    /\ PowerIsRegistered

-----------------------------------------------------------------------------

\* A nonempty set of naturals has a smallest element, so Min chooses a member.
LEMMA MinIsMember ==
    ASSUME NEW S \in SUBSET Nat, S # {}
    PROVE  Min(S) \in S
BY LeastNatural, Zenon DEF Min

\* A finite nonempty set of naturals has a largest element.
LEMMA MaxIsMember ==
    ASSUME NEW S \in SUBSET Nat, IsFiniteSet(S), S # {}
    PROVE  \E x \in S : \A y \in S : y <= x
<1> DEFINE R == {xy \in S \X S : xy[1] < xy[2]}
<1>1. \A v, w \in S : <<v, w>> \in R <=> v < w
    BY Zenon
<1> HIDE DEF R
<1>2. \A v, w \in S : v # w => <<v, w>> \in R \/ <<w, v>> \in R
    BY <1>1
<1>3. \A u, v, w \in S : <<u, v>> \in R /\ <<v, w>> \in R => <<u, w>> \in R
    BY <1>1
<1>4. PICK x \in S : \A y \in S \ {x} : <<y, x>> \in R
    BY <1>2, <1>3, LastExists, Zenon
<1>5. ASSUME NEW y \in S PROVE y <= x
    <2>1. y # x => y < x
        BY <1>1, <1>4, Zenon
    <2> QED
        BY <2>1
<1> QED
    BY <1>5, Zenon

\* The version TallyVotingPower returns with a quorum is one that was signalled.
LEMMA TallyReturnsSignal ==
    ASSUME SignalTypeOK, TallyVotingPower.hasQuorum
    PROVE  TallyVotingPower.version \in Versions
<1>1. Reaching # {} /\ TallyVotingPower.version = signals[Min(Reaching)]
    BY Zenon DEF TallyVotingPower
<1>2. Reaching \in SUBSET Nat /\ Reaching \subseteq Signallers
    BY SignalAssumption, Zenon DEF Reaching, Signallers
<1>3. Min(Reaching) \in Signallers
    BY <1>1, <1>2, MinIsMember, Zenon
<1> QED
    BY <1>1, <1>3, Zenon DEF Signallers, SignalTypeOK

\* At genesis nothing is signalled, pending, planned or handled.
LEMMA InitSignal == Init => SignalInv
<1> SUFFICES ASSUME Init PROVE SignalInv
    BY Zenon
<1>1. power \in [Validators -> Nat]
    BY SignalAssumption, Zenon DEF Init, PowerUpdates
<1>2. SignalTypeOK
    BY <1>1, SignalAssumption DEF Init, SignalTypeOK
<1>3. PowerIsRegistered
    BY Zenon DEF Init, PowerUpdates, PowerIsRegistered
<1> QED
    BY <1>2, <1>3, Zenon DEF Init, SignalInv, PendingCanApply, SignalsNotStale, MigratedBeforeMessages,
       ScheduleNeverFails, PlanInStep, DoneIsPast, PendingFromQuorum, IsUpgradePending

\* A signal is for the running version or a later one.
LEMMA SignalVersionSignal ==
    ASSUME SignalInv, NEW v \in Validators, NEW w \in Versions, SignalVersion(v, w)
    PROVE  SignalInv'
<1>1. /\ signals' = [signals EXCEPT ![v] = w]
      /\ w >= appVersion
      /\ UNCHANGED <<stage, height, appVersion, plan, done, registered, power, upgrade, quorumAt>>
    BY Zenon DEF SignalVersion, VersionAllowed, chainVars, stakingVars
<1>2. SignalTypeOK'
    BY <1>1, Zenon DEF SignalInv, SignalTypeOK
<1>3. SignalsNotStale'
    BY <1>1, Zenon DEF SignalInv, SignalTypeOK, SignalsNotStale
<1> QED
    BY <1>1, <1>2, <1>3, Zenon DEF SignalInv, PendingCanApply, MigratedBeforeMessages,
       ScheduleNeverFails, PlanInStep, DoneIsPast, PendingFromQuorum, PowerIsRegistered,
       IsUpgradePending

\* TryUpgrade stores an upgrade to a later version at a later height, or none.
LEMMA TryUpgradeSignal ==
    ASSUME SignalInv, TryUpgrade
    PROVE  SignalInv'
<1> DEFINE tally == TallyVotingPower
<1>1. /\ stage = "deliver"
      /\ signals' = DeleteValidatorVersions(tally.visited \ registered)
      /\ UNCHANGED <<stage, height, appVersion, plan, done, registered, power>>
    BY Zenon DEF TryUpgrade, chainVars, stakingVars
<1>2. \A v \in Validators : signals'[v] = signals[v] \/ signals'[v] = NoSignal
    BY <1>1, Zenon DEF DeleteValidatorVersions
<1>3. signals' \in [Validators -> Versions \union {NoSignal}]
    BY <1>1, Zenon DEF DeleteValidatorVersions, SignalInv, SignalTypeOK
<1>4. SignalsNotStale'
    BY <1>1, <1>2, Zenon DEF SignalInv, SignalsNotStale
<1>5. CASE tally.hasQuorum
    <2>1. /\ upgrade' = [version |-> tally.version, height |-> height + UpgradeHeightDelay]
          /\ quorumAt' = [version |-> tally.version, height |-> height]
          /\ tally.version > appVersion
        BY <1>5, Zenon DEF TryUpgrade, StoreUpgrade, scheduledHeight, UpgradeAllowed
    <2>2. tally.version \in Versions
        BY <1>5, TallyReturnsSignal, Zenon DEF SignalInv
    <2> HIDE DEF tally
    <2>3. SignalTypeOK'
        <3>1. height + UpgradeHeightDelay \in Nat /\ height \in Nat
            BY SignalAssumption DEF SignalInv, SignalTypeOK
        <3>2. upgrade' \in UpgradeRecord /\ quorumAt' \in UpgradeRecord
            BY <2>1, <2>2, <3>1, Zenon DEF UpgradeRecord
        <3> QED
            BY <1>1, <1>3, <3>2, Zenon DEF SignalInv, SignalTypeOK
    <2>4. PendingCanApply' /\ PendingFromQuorum'
        BY <1>1, <2>1, <2>2, SignalAssumption
        DEF SignalInv, SignalTypeOK, PendingCanApply, PendingFromQuorum, IsUpgradePending
    <2> QED
        BY <1>1, <1>4, <2>3, <2>4, Zenon DEF SignalInv, MigratedBeforeMessages, ScheduleNeverFails,
           PlanInStep, DoneIsPast, PowerIsRegistered
<1>6. CASE ~tally.hasQuorum
    <2>1. UNCHANGED <<upgrade, quorumAt>>
        BY <1>6, Zenon DEF TryUpgrade, StoreUpgrade
    <2>2. SignalTypeOK'
        BY <1>1, <1>3, <2>1, Zenon DEF SignalInv, SignalTypeOK
    <2> QED
        BY <1>1, <1>4, <2>1, <2>2, Zenon DEF SignalInv, PendingCanApply, PendingFromQuorum,
           IsUpgradePending, MigratedBeforeMessages, ScheduleNeverFails, PlanInStep, DoneIsPast,
           PowerIsRegistered
<1> QED
    BY <1>5, <1>6, Zenon

\* EndBlocker schedules a plan for the next block whenever it changes the version.
LEMMA EndBlockerSignal ==
    ASSUME SignalInv, NEW p \in PowerUpdates, EndBlocker(p)
    PROVE  SignalInv'
<1>1. /\ stage = "deliver" /\ plan = NoUpgrade
      /\ power' = p
      /\ UNCHANGED <<height, done, registered, quorumAt>>
    BY Zenon DEF EndBlocker, SignalInv, PlanInStep
<1>2. power' \in [Validators -> Nat] /\ PowerIsRegistered'
    BY <1>1, SignalAssumption, Zenon DEF PowerUpdates, PowerIsRegistered
<1>3. CASE ShouldUpgrade /\ upgrade.version > appVersion
    <2>1. /\ upgrade \in UpgradeRecord
          /\ upgrade.height = height
          /\ upgrade.version \in Versions
          /\ upgrade.version \in Nat \ {0} /\ appVersion \in Nat /\ height \in Nat
        <3>1. upgrade \in UpgradeRecord
            BY <1>3, Zenon DEF ShouldUpgrade, IsUpgradePending, SignalInv, SignalTypeOK
        <3>2. /\ upgrade.height \in Nat /\ upgrade.version \in Versions
              /\ height \in Nat /\ appVersion \in Versions
            BY <3>1, Zenon DEF UpgradeRecord, SignalInv, SignalTypeOK
        <3>3. upgrade.height = height
            BY <1>3, <3>2 DEF ShouldUpgrade, SignalInv, PendingCanApply
        <3> QED
            BY <3>1, <3>2, <3>3, SignalAssumption, Zenon
    <2> DEFINE q == [version |-> upgrade.version, height |-> planHeight]
    <2>2. q.height = height + 1 /\ q.version = upgrade.version /\ q \in UpgradeRecord
        BY <2>1 DEF planHeight, UpgradeRecord
    <2>3. ScheduleUpgradeAccepts(q)
        <3>1. \A w \in done : w \in Nat /\ w <= appVersion
            BY SignalAssumption, Zenon DEF SignalInv, SignalTypeOK, DoneIsPast
        <3> QED
            BY <1>3, <2>1, <2>2, <3>1 DEF ScheduleUpgradeAccepts
    <2>4. /\ stage' = "ended" /\ plan' = q /\ appVersion' = upgrade.version
          /\ signals' = [v \in Validators |-> NoSignal] /\ upgrade' = NoUpgrade
        BY <1>3, <2>3, Zenon DEF EndBlocker, UpgradeApp, ResetTally
    <2>5. SignalTypeOK'
        BY <1>1, <1>2, <2>1, <2>2, <2>4, Zenon DEF SignalInv, SignalTypeOK
    <2>6. SignalsNotStale'
        BY <2>4, Zenon DEF SignalsNotStale
    <2>7. PlanInStep'
        BY <1>1, <2>1, <2>2, <2>4, Zenon DEF PlanInStep, NoUpgrade
    <2>8. DoneIsPast'
        BY <1>1, <1>3, <2>1, <2>4, SignalAssumption DEF SignalInv, SignalTypeOK, DoneIsPast
    <2> QED
        BY <1>2, <2>4, <2>5, <2>6, <2>7, <2>8, Zenon DEF SignalInv, PendingCanApply, IsUpgradePending,
           MigratedBeforeMessages, ScheduleNeverFails, PendingFromQuorum
<1>4. CASE ~(ShouldUpgrade /\ upgrade.version > appVersion)
    <2>1. stage' = "ended" /\ UNCHANGED <<plan, appVersion, signals, upgrade>>
        BY <1>4, Zenon DEF EndBlocker
    <2>2. SignalTypeOK'
        BY <1>1, <1>2, <2>1, Zenon DEF SignalInv, SignalTypeOK
    <2>3. PendingCanApply'
        BY <1>1, <1>4, <2>1 DEF SignalInv, SignalTypeOK, PendingCanApply, IsUpgradePending,
           ShouldUpgrade, UpgradeRecord
    <2>4. PlanInStep'
        BY <1>1, <2>1, Zenon DEF SignalInv, PlanInStep, MigratedBeforeMessages
    <2> QED
        BY <1>1, <1>2, <2>1, <2>2, <2>3, <2>4, Zenon DEF SignalInv, SignalsNotStale, DoneIsPast,
           IsUpgradePending, MigratedBeforeMessages, ScheduleNeverFails, PendingFromQuorum
<1> QED
    BY <1>3, <1>4, Zenon

\* PreBlocker runs the waiting plan, which is the running version's.
LEMMA PreBlockerSignal ==
    ASSUME SignalInv, PreBlocker
    PROVE  SignalInv'
<1>1. /\ stage = "ended" /\ stage' = "deliver" /\ height' = height + 1
      /\ UNCHANGED <<appVersion, signals, upgrade, quorumAt, registered, power>>
    BY Zenon DEF PreBlocker, signalVars, stakingVars
<1>2. height \in Nat \ {0} /\ appVersion \in Versions /\ appVersion \in Nat
    BY SignalAssumption, Zenon DEF SignalInv, SignalTypeOK
<1>3. /\ plan' = NoUpgrade
      /\ done' \subseteq done \union {appVersion}
      /\ appVersion = GenesisVersion \/ appVersion \in done'
    <2>1. CASE plan = NoUpgrade
        BY <1>1, <2>1, Zenon DEF PreBlocker, SignalInv, PlanInStep
    <2>2. CASE plan # NoUpgrade
        BY <1>1, <1>2, <2>2 DEF PreBlocker, SignalInv, PlanInStep
    <2> QED
        BY <2>1, <2>2, Zenon
<1>4. SignalTypeOK'
    BY <1>1, <1>2, <1>3 DEF SignalInv, SignalTypeOK
<1>5. PendingCanApply'
    BY <1>1, <1>2 DEF SignalInv, SignalTypeOK, PendingCanApply, IsUpgradePending, UpgradeRecord
<1>6. DoneIsPast'
    BY <1>1, <1>2, <1>3 DEF SignalInv, DoneIsPast
<1> QED
    BY <1>1, <1>3, <1>4, <1>5, <1>6, Zenon DEF SignalInv, SignalsNotStale, MigratedBeforeMessages,
       ScheduleNeverFails, PlanInStep, PendingFromQuorum, PowerIsRegistered, IsUpgradePending

\* Every step preserves the invariant.
LEMMA NextSignal == SignalInv /\ [Next]_vars => SignalInv'
<1> SUFFICES ASSUME SignalInv, [Next]_vars PROVE SignalInv'
    BY Zenon
<1>1. ASSUME NEW v \in Validators, CreateValidator(v) \/ RemoveValidator(v)
      PROVE  SignalInv'
    BY <1>1, Zenon DEF CreateValidator, RemoveValidator, chainVars, signalVars, SignalInv, SignalTypeOK,
       PendingCanApply, SignalsNotStale, MigratedBeforeMessages, ScheduleNeverFails, PlanInStep,
       DoneIsPast, PendingFromQuorum, PowerIsRegistered, IsUpgradePending
<1>2. CASE UNCHANGED vars
    BY <1>2, Zenon DEF vars, chainVars, signalVars, stakingVars, SignalInv, SignalTypeOK,
       PendingCanApply, SignalsNotStale, MigratedBeforeMessages, ScheduleNeverFails, PlanInStep,
       DoneIsPast, PendingFromQuorum, PowerIsRegistered, IsUpgradePending
<1> QED
    BY <1>1, <1>2, SignalVersionSignal, TryUpgradeSignal, EndBlockerSignal, PreBlockerSignal, Zenon
    DEF Next, EndBlock

-----------------------------------------------------------------------------
(* The tally.                                                              *)

\* The power of a set of validators is a natural number, and of a smaller set
\* no larger.
LEMMA PowerType ==
    ASSUME SignalTypeOK, NEW S \in SUBSET Validators
    PROVE  /\ IsFiniteSet(S)
           /\ PowerOf(S) \in Nat
           /\ \A R \in SUBSET S : PowerOf(R) <= PowerOf(S)
<1>1. IsFiniteSet(S) /\ \A v \in S : power[v] \in Nat
    BY FS_Subset, SignalAssumption, Zenon DEF SignalTypeOK
<1> QED
    BY <1>1, SumNat, SumMonotone, Zenon DEF PowerOf

\* Disjoint sets of validators add up.
LEMMA PowerUnion ==
    ASSUME SignalTypeOK, NEW S \in SUBSET Validators, NEW R \in SUBSET Validators,
           S \cap R = {}
    PROVE  PowerOf(S \cup R) = PowerOf(S) + PowerOf(R)
<1>1. IsFiniteSet(S) /\ IsFiniteSet(R)
    BY PowerType, Zenon
<1>2. \A v \in S \cup R : power[v] \in Int
    BY DEF SignalTypeOK
<1> QED
    BY <1>1, <1>2, SumUnion, Zenon DEF PowerOf

\* Validators without power do not count.
LEMMA PowerlessDropped ==
    ASSUME SignalTypeOK, NEW S \in SUBSET Validators, NEW R \in SUBSET S,
           \A v \in S \ R : power[v] = 0
    PROVE  PowerOf(S) = PowerOf(R)
<1>1. S \ R \in SUBSET Validators /\ R \in SUBSET Validators /\ R \cap (S \ R) = {}
      /\ R \cup (S \ R) = S
    BY Zenon
<1>2. IsFiniteSet(S \ R) /\ PowerOf(R) \in Nat
    BY <1>1, PowerType, Zenon
<1>3. PowerOf(S \ R) = 0
    BY <1>2, SumZero, Zenon DEF PowerOf
<1> QED
    BY <1>1, <1>2, <1>3, PowerUnion

\* Reaching the threshold is having five sixths of the total: rounding up loses
\* nothing and adds nothing.
LEMMA ThresholdIsFiveSixths ==
    ASSUME SignalTypeOK, NEW n \in Nat
    PROVE  n >= GetVotingPowerThreshold <=> 6 * n >= 5 * GetLastTotalPower
<1>1. GetLastTotalPower \in Nat
    BY PowerType, Zenon DEF GetLastTotalPower
<1> QED
    BY <1>1 DEF GetVotingPowerThreshold

\* The version that is returned with a quorum has five sixths of the power.
LEMMA TallyHasQuorum ==
    ASSUME SignalTypeOK, Reaching # {}
    PROVE  /\ signals[Min(Reaching)] \in Versions
           /\ 6 * PowerOf(BondedFor(signals[Min(Reaching)])) >= 5 * GetLastTotalPower
<1> DEFINE x == Min(Reaching)
           w == signals[x]
           S == {u \in BondedFor(w) : u <= x}
<1>1. x \in Reaching
    <2>1. Reaching \in SUBSET Nat
        BY SignalAssumption, Zenon DEF Reaching, Signallers
    <2> QED
        BY <2>1, MinIsMember, Zenon
<1>2. PowerOf(S) >= GetVotingPowerThreshold /\ w \in Versions
    BY <1>1, Zenon DEF Reaching, Signallers, SignalTypeOK
<1>3. S \in SUBSET BondedFor(w) /\ BondedFor(w) \in SUBSET Validators /\ S \in SUBSET Validators
    BY Zenon DEF BondedFor, Signallers
<1> HIDE DEF x, w, S
<1>4. PowerOf(S) \in Nat /\ PowerOf(BondedFor(w)) \in Nat /\ PowerOf(S) <= PowerOf(BondedFor(w))
    BY <1>3, PowerType, Zenon
<1>5. 6 * PowerOf(S) >= 5 * GetLastTotalPower
    BY <1>2, <1>4, ThresholdIsFiveSixths, Zenon
<1>6. GetLastTotalPower \in Nat
    BY PowerType, Zenon DEF GetLastTotalPower
<1>7. 6 * PowerOf(BondedFor(w)) >= 5 * GetLastTotalPower
    BY <1>4, <1>5, <1>6
<1> QED
    BY <1>2, <1>7, Zenon DEF w, x

\* A version whose signallers have five sixths of a positive total power is seen:
\* the last of them in key order completes the count.
LEMMA QuorumIsReached ==
    ASSUME SignalTypeOK, GetLastTotalPower > 0, NEW w \in Versions,
           PowerOf(BondedFor(w)) >= GetVotingPowerThreshold
    PROVE  Reaching # {}
<1> DEFINE S == BondedFor(w)
<1>1. S \in SUBSET Validators /\ S \subseteq Nat
    BY SignalAssumption, Zenon DEF BondedFor, Signallers
<1>2. IsFiniteSet(S) /\ PowerOf(S) \in Nat /\ GetLastTotalPower \in Nat
    BY <1>1, PowerType, Zenon DEF GetLastTotalPower
<1>3. S # {}
    <2>1. PowerOf({}) = 0
        BY SumEmpty, Zenon DEF PowerOf
    <2>2. 6 * PowerOf(S) >= 5 * GetLastTotalPower
        BY <1>2, ThresholdIsFiveSixths, Zenon
    <2> HIDE DEF S
    <2>3. PowerOf(S) # 0
        BY <1>2, <2>2
    <2> QED
        BY <2>1, <2>3, Zenon
<1>4. PICK x \in S : \A u \in S : u <= x
    BY <1>1, <1>2, <1>3, MaxIsMember, Zenon
<1>5. {u \in S : u <= x} = S
    BY <1>4, Zenon
<1>6. x \in Signallers /\ IsBonded(x) /\ signals[x] = w
    BY <1>4, Zenon DEF BondedFor
<1>7. x \in Reaching
    BY <1>5, <1>6, Zenon DEF Reaching
<1> QED
    BY <1>7, Zenon

\* No two versions have five sixths of a positive total power.
LEMMA OneQuorum ==
    ASSUME SignalTypeOK, GetLastTotalPower > 0, NEW w \in Versions, NEW u \in Versions,
           6 * PowerOf(BondedFor(w)) >= 5 * GetLastTotalPower,
           6 * PowerOf(BondedFor(u)) >= 5 * GetLastTotalPower
    PROVE  w = u
<1> SUFFICES ASSUME w # u PROVE FALSE
    BY Zenon
<1>1. /\ BondedFor(w) \in SUBSET Validators /\ BondedFor(u) \in SUBSET Validators
      /\ BondedFor(w) \cap BondedFor(u) = {}
    BY Zenon DEF BondedFor, Signallers
<1> DEFINE W == BondedFor(w)
           U == BondedFor(u)
<1> HIDE DEF W, U
<1>2. W \in SUBSET Validators /\ U \in SUBSET Validators /\ W \cup U \in SUBSET Validators
      /\ W \cap U = {}
    BY <1>1, Zenon DEF W, U
<1>3. PowerOf(W \cup U) = PowerOf(W) + PowerOf(U)
    BY <1>2, PowerUnion, Zenon
<1>4. /\ PowerOf(W) \in Nat /\ PowerOf(U) \in Nat /\ GetLastTotalPower \in Nat
      /\ PowerOf(W \cup U) <= GetLastTotalPower
    BY <1>2, PowerType, Zenon DEF GetLastTotalPower
<1>5. 6 * PowerOf(W) >= 5 * GetLastTotalPower /\ 6 * PowerOf(U) >= 5 * GetLastTotalPower
    BY Zenon DEF W, U
<1> QED
    BY <1>3, <1>4, <1>5

\* The version the tally returns is the only one with a quorum.
LEMMA TallyUnique == SignalTypeOK => QuorumUnique
<1> SUFFICES ASSUME SignalTypeOK, GetLastTotalPower > 0, NEW w \in Versions,
                    PowerOf(BondedFor(w)) >= GetVotingPowerThreshold
             PROVE  TallyVotingPower.hasQuorum /\ TallyVotingPower.version = w
    BY Zenon DEF QuorumUnique
<1>1. Reaching # {}
    BY QuorumIsReached, Zenon
<1>2. /\ signals[Min(Reaching)] \in Versions
      /\ 6 * PowerOf(BondedFor(signals[Min(Reaching)])) >= 5 * GetLastTotalPower
    BY <1>1, TallyHasQuorum, Zenon
<1>3. 6 * PowerOf(BondedFor(w)) >= 5 * GetLastTotalPower
    <2>1. BondedFor(w) \in SUBSET Validators
        BY Zenon DEF BondedFor, Signallers
    <2>2. PowerOf(BondedFor(w)) \in Nat
        BY <2>1, PowerType, Zenon
    <2> QED
        BY <2>2, ThresholdIsFiveSixths, Zenon
<1>4. signals[Min(Reaching)] = w
    BY <1>2, <1>3, OneQuorum, Zenon
<1> QED
    BY <1>1, <1>4, Zenon DEF TallyVotingPower

\* Signals of validators that have left or lost their power count in neither the
\* query nor the tally, and every other power is reported missing.
LEMMA QueriesAddUp == SignalTypeOK /\ PowerIsRegistered => QueriesAgree
<1> SUFFICES ASSUME SignalTypeOK, PowerIsRegistered, NEW w \in Versions
             PROVE  /\ VersionTally(w) + PowerOf(GetMissingValidators(w)) = GetLastTotalPower
                    /\ VersionTally(w) = PowerOf(BondedFor(w))
    BY Zenon DEF QueriesAgree
<1> DEFINE S == {v \in Signallers : signals[v] = w}
           M == GetMissingValidators(w)
           B == BondedFor(w)
<1>1. /\ S \in SUBSET Validators /\ B \in SUBSET S
      /\ Validators \ S \in SUBSET Validators
      /\ M \in SUBSET (Validators \ S)
    BY Zenon DEF BondedFor, Signallers, GetMissingValidators, SignalTypeOK
<1>2. \A v \in Validators : power[v] \in Nat /\ (v \notin registered => power[v] = 0)
    BY Zenon DEF SignalTypeOK, PowerIsRegistered
<1>3. \A v \in S \ B : power[v] = 0
    <2> SUFFICES ASSUME NEW v \in S \ B PROVE power[v] = 0
        BY Zenon
    <2>1. v \in Validators /\ ~(v \in registered /\ power[v] > 0)
        BY Zenon DEF BondedFor, IsBonded, Signallers
    <2> QED
        BY <1>2, <2>1
<1>4. \A v \in (Validators \ S) \ M : power[v] = 0
    <2> SUFFICES ASSUME NEW v \in (Validators \ S) \ M PROVE power[v] = 0
        BY Zenon
    <2>1. w # NoSignal
        BY SignalAssumption, Zenon DEF NoSignal
    <2>2. v \in Validators /\ signals[v] # w
        BY <2>1, Zenon DEF Signallers
    <2>3. ~(v \in registered /\ power[v] > 0)
        BY <2>2, Zenon DEF GetMissingValidators
    <2> QED
        BY <1>2, <2>2, <2>3
<1> HIDE DEF S, M, B
<1>5. PowerOf(S) = PowerOf(B)
    BY <1>1, <1>3, PowerlessDropped, Zenon
<1>6. PowerOf(Validators \ S) = PowerOf(M)
    BY <1>1, <1>4, PowerlessDropped, Zenon
<1>7. PowerOf(S \cup (Validators \ S)) = PowerOf(S) + PowerOf(Validators \ S)
    BY <1>1, PowerUnion, Zenon
<1>8. S \cup (Validators \ S) = Validators
    BY <1>1, Zenon
<1>9. PowerOf(Validators) = PowerOf(S) + PowerOf(M)
    BY <1>6, <1>7, <1>8, Zenon
<1> QED
    BY <1>5, <1>9, Zenon DEF S, M, B, VersionTally, GetLastTotalPower

-----------------------------------------------------------------------------

\* The inductive invariant holds in every reachable state.
THEOREM SignalInvariant == Spec => []SignalInv
BY InitSignal, NextSignal, PTL DEF Spec

\* The keeper's state, the plan and the staking view keep their types.
THEOREM SignalTypeCorrect == Spec => []SignalTypeOK
<1>1. SignalInv => SignalTypeOK
    BY Zenon DEF SignalInv
<1> QED
    BY <1>1, SignalInvariant, PTL

\* A stored upgrade can always be applied: EndBlocker never has to skip it.
THEOREM PendingAlwaysApplies == Spec => []PendingCanApply
<1>1. SignalInv => PendingCanApply
    BY Zenon DEF SignalInv
<1> QED
    BY <1>1, SignalInvariant, PTL

\* ResetTally and SignalVersion keep votes of earlier versions out of the tally.
THEOREM NoStaleSignals == Spec => []SignalsNotStale
<1>1. SignalInv => SignalsNotStale
    BY Zenon DEF SignalInv
<1> QED
    BY <1>1, SignalInvariant, PTL

\* No message is delivered under a version whose upgrade handler has not run.
THEOREM HandlerRunsFirst == Spec => []MigratedBeforeMessages
<1>1. SignalInv => MigratedBeforeMessages
    BY Zenon DEF SignalInv
<1> QED
    BY <1>1, SignalInvariant, PTL

\* EndBlocker's plan is never refused, so an upgrade does not halt the chain.
THEOREM PlanNeverRefused == Spec => []ScheduleNeverFails
<1>1. SignalInv => ScheduleNeverFails
    BY Zenon DEF SignalInv
<1> QED
    BY <1>1, SignalInvariant, PTL

\* The version rises only to the version of the last quorum, exactly the delay
\* after TryUpgrade found it.
THEOREM VersionOnSchedule == Spec => UpgradeOnSchedule
<1> DEFINE OnSchedule ==
        appVersion' # appVersion => /\ appVersion' > appVersion
                                    /\ appVersion' = quorumAt.version
                                    /\ height = quorumAt.height + UpgradeHeightDelay
<1>1. SignalInv /\ [Next]_vars => [OnSchedule]_vars
    <2> SUFFICES ASSUME SignalInv, Next, appVersion' # appVersion PROVE OnSchedule
        BY Zenon
    <2>1. PICK p \in PowerUpdates : EndBlocker(p)
        BY Zenon DEF Next, EndBlock, SignalVersion, TryUpgrade, CreateValidator, RemoveValidator,
           PreBlocker, chainVars
    <2>2. ShouldUpgrade /\ upgrade.version > appVersion /\ appVersion' = upgrade.version
        BY <2>1, Zenon DEF EndBlocker, UpgradeApp
    <2>3. stage = "deliver" /\ IsUpgradePending /\ height >= upgrade.height
        BY <2>1, <2>2, Zenon DEF EndBlocker, ShouldUpgrade
    <2>4. upgrade.height = height
        BY <2>3 DEF SignalInv, SignalTypeOK, PendingCanApply, UpgradeRecord, IsUpgradePending
    <2> QED
        BY <2>2, <2>3, <2>4, Zenon DEF SignalInv, PendingFromQuorum
<1> QED
    BY <1>1, SignalInvariant, PTL DEF Spec, UpgradeOnSchedule

\* The quorum TryUpgrade acts on is five sixths of the power, there is only one,
\* whatever the order of the keys, and it is what the queries report.
THEOREM QuorumIsSound == Spec => QuorumSound
<1> DEFINE FiveSixths ==
        upgrade = NoUpgrade /\ upgrade' # NoUpgrade =>
            6 * PowerOf(BondedFor(upgrade'.version)) >= 5 * GetLastTotalPower
<1>1. SignalInv => QuorumUnique /\ QueriesAgree
    BY TallyUnique, QueriesAddUp, Zenon DEF SignalInv
<1>2. SignalInv /\ [Next]_vars => [FiveSixths]_vars
    <2> SUFFICES ASSUME SignalInv, Next, upgrade = NoUpgrade, upgrade' # NoUpgrade
                 PROVE  6 * PowerOf(BondedFor(upgrade'.version)) >= 5 * GetLastTotalPower
        BY Zenon
    <2>1. TryUpgrade
        BY Zenon DEF Next, EndBlock, EndBlocker, UpgradeApp, ResetTally, SignalVersion,
           CreateValidator, RemoveValidator, PreBlocker, signalVars
    <2>2. TallyVotingPower.hasQuorum /\ upgrade'.version = TallyVotingPower.version
        BY <2>1 DEF TryUpgrade, StoreUpgrade
    <2>3. Reaching # {} /\ upgrade'.version = signals[Min(Reaching)]
        BY <2>2, Zenon DEF TallyVotingPower
    <2> QED
        BY <2>3, TallyHasQuorum, Zenon DEF SignalInv
<1> QED
    BY <1>1, <1>2, SignalInvariant, PTL DEF Spec, QuorumSound, QuorumIsFiveSixths

-----------------------------------------------------------------------------
(* What the theorems ask of the deployment                                 *)

\* The embedded versions follow each other, as those that the celestia-appd command lists
\* do; Validate does not ask for it, and GetForAppVersion answers a version in a gap with
\* the lowest binary.
NoGap == \E lo, hi \in Nat : lo <= hi /\ Embedded = lo .. hi

-----------------------------------------------------------------------------
(* The inductive invariant                                                 *)

MuxRecord == [appVersion : Nat, nextAppVersion : Nat, started : BOOLEAN, activeVersion : Nat,
              nativeApp : BOOLEAN, child : Nat, halt : Nat]

\* started and activeVersion say what runs.
Formed(m) ==
    /\ m \in MuxRecord
    /\ m.child \in Embedded \cup {0}
    /\ m.activeVersion = m.child
    /\ m.started <=> (m.nativeApp \/ m.child # 0)

\* Exactly the application of m's version runs.
Served(m) ==
    /\ Formed(m)
    /\ m.nativeApp <=> (m.appVersion > Max(Embedded))
    /\ m.child = GetForAppVersion(m.appVersion)

\* The native application runs beside a binary, or getApp would start one beside it.
Beside(m) == m.nativeApp /\ (m.child # 0 \/ m.appVersion <= Max(Embedded))

\* The embedded binary is not newer than the version.
Behind(m) == m.appVersion <= Max(Embedded) => m.child <= GetForAppVersion(m.appVersion)

\* Where consensus is when getApp has nothing to do, and where it is while it has.
Settled == {"handshake", "ready", "finalized", "saved", "durable", "committed"}
Unsettled == {"upgrading", "offering", "failed"}

\* What runs.  Only a switch leaves the application of the version out, and only a snapshot
\* of an older binary, while it is on offer, can bring in one too many.
AppInv ==
    /\ Formed(mux)
    /\ lock # "free" => mux.child = 0 /\ pc \in Unsettled
    /\ pc = "down" => ~mux.nativeApp /\ query = "idle"
    /\ pc \in Settled => ~Switches(mux)
    /\ Beside(mux) => lowered /\ offered # 0 /\ pc \in {"offering", "failed"}
    /\ mux.nativeApp /\ mux.child # 0 => ~Switches(mux)
    /\ ~lowered => Behind(mux)

\* The versions CometBFT and the multiplexer work with: the multiplexer's is the one of
\* CometBFT's state, or lags behind it once a block was replayed to a mock.
VersionInv ==
    /\ pc = "handshake" => mux.appVersion = state.app /\ offered = 0
    /\ pc \in {"ready", "finalized", "saved", "durable"} /\ offered = 0
          => mux.appVersion <= state.app /\ (~mocked => mux.appVersion = state.app)
    /\ pc \in {"finalized", "saved", "durable"}
          => mux.nextAppVersion = schedule[state.height + 1]
    /\ pc \in {"upgrading", "committed"} => mux.appVersion = schedule[state.height + 1]
    /\ pc = "offering" => offered # 0
    /\ offered # 0 => /\ pc \in {"ready", "offering", "failed"} /\ store = 0
                      /\ offered \in Snapshots /\ mux.appVersion = schedule[offered]

\* Where the heights are at each point of a block.
HeightInv ==
    /\ store \in DOMAIN schedule
    /\ state.height \in Nat /\ store \in {state.height, state.height + 1}
    /\ appHeight \in {state.height, state.height + 1} /\ appHeight <= store
    /\ pc \in {"ready", "offering"} => appHeight = state.height
    /\ pc \in {"finalized", "saved", "durable", "upgrading", "committed"}
          => store = state.height + 1
    /\ pc \in {"durable", "upgrading", "committed"} => appHeight = state.height + 1

MuxInv ==
    /\ schedule \in Schedules
    /\ pc \in Settled \cup Unsettled \cup {"down"}
    /\ offered \in Nat
    /\ state = [height |-> state.height, app |-> schedule[state.height]]
    /\ AppInv
    /\ VersionInv
    /\ HeightInv
    /\ ran.height > 0 /\ ~ran.mocked /\ ~ran.lowered
          => ran.binary = BinaryFor(schedule[ran.height - 1])

-----------------------------------------------------------------------------
(* The operators                                                           *)

\* What the embedded versions are and which binary belongs to a version.
LEMMA BinaryOfVersion ==
    ASSUME NoGap, NEW v \in Nat
    PROVE  /\ Max(Embedded) \in Nat
           /\ v > Max(Embedded) => GetForAppVersion(v) = 0
           /\ v <= Max(Embedded) => GetForAppVersion(v) \in Embedded
           /\ GetForAppVersion(v) \in Nat
           /\ GetForAppVersion(v) = 0 <=> v > Max(Embedded)
           /\ GetForAppVersion(v) = BinaryFor(v)
           /\ \A w \in Nat : v <= w /\ w <= Max(Embedded)
                               => GetForAppVersion(v) <= GetForAppVersion(w)
<1>1. PICK lo \in Nat, hi \in Nat : lo <= hi /\ Embedded = lo .. hi
    BY DEF NoGap
<1>2. lo > 0 /\ hi > 0
    BY <1>1, VersionsAssumption
<1>3. Max(Embedded) = hi
    <2>1. hi \in lo .. hi /\ \A y \in lo .. hi : hi >= y
        BY <1>1
    <2>2. Max(lo .. hi) \in lo .. hi /\ \A y \in lo .. hi : Max(lo .. hi) >= y
        BY <2>1, Zenon DEF Max
    <2> QED BY <1>1, <2>1, <2>2
<1>4. Min(Embedded) = lo
    <2>1. lo \in lo .. hi /\ \A y \in lo .. hi : lo <= y
        BY <1>1
    <2>2. Min(lo .. hi) \in lo .. hi /\ \A y \in lo .. hi : Min(lo .. hi) <= y
        BY <2>1, Zenon DEF Min
    <2> QED BY <1>1, <2>1, <2>2
<1>5. ASSUME NEW w \in Nat
      PROVE  GetForAppVersion(w) = IF w > hi THEN 0 ELSE IF w >= lo THEN w ELSE lo
    BY <1>1, <1>3, <1>4 DEF GetForAppVersion, NoVersion
<1>6. GetForAppVersion(v) = BinaryFor(v)
    BY Zenon DEF GetForAppVersion, BinaryFor, NoVersion, Native
<1> QED BY <1>1, <1>2, <1>3, <1>5, <1>6

\* A change of the version leaves the running application alone.
LEMMA VersionFields ==
    ASSUME NEW m \in MuxRecord, NEW v \in Nat
    PROVE  LET w == [m EXCEPT !.appVersion = v]
           IN  /\ w \in MuxRecord /\ w.appVersion = v
               /\ w.nextAppVersion = m.nextAppVersion /\ w.activeVersion = m.activeVersion
               /\ w.child = m.child /\ w.started = m.started /\ w.nativeApp = m.nativeApp
<1> DEFINE w == [m EXCEPT !.appVersion = v]
<1>1. w \in MuxRecord
    BY Zenon DEF MuxRecord
<1>2. /\ w.appVersion = v /\ w.nextAppVersion = m.nextAppVersion
      /\ w.activeVersion = m.activeVersion /\ w.child = m.child
    BY DEF MuxRecord
<1>3. w.started = m.started /\ w.nativeApp = m.nativeApp
    BY Zenon DEF MuxRecord
<1> QED BY <1>1, <1>2, <1>3, Zenon

\* So does recording the version of the next block.
LEMMA NextVersionFields ==
    ASSUME NEW m \in MuxRecord, NEW v \in Nat
    PROVE  LET w == [m EXCEPT !.nextAppVersion = v]
           IN  /\ w \in MuxRecord /\ w.nextAppVersion = v
               /\ w.appVersion = m.appVersion /\ w.activeVersion = m.activeVersion
               /\ w.child = m.child /\ w.started = m.started /\ w.nativeApp = m.nativeApp
<1> DEFINE w == [m EXCEPT !.nextAppVersion = v]
<1>1. w \in MuxRecord
    BY Zenon DEF MuxRecord
<1>2. /\ w.nextAppVersion = v /\ w.appVersion = m.appVersion
      /\ w.activeVersion = m.activeVersion /\ w.child = m.child
    BY DEF MuxRecord
<1>3. w.started = m.started /\ w.nativeApp = m.nativeApp
    BY Zenon DEF MuxRecord
<1> QED BY <1>1, <1>2, <1>3, Zenon

\* stopEmbeddedApp leaves no child and no active version.
LEMMA StopFields ==
    ASSUME NEW m \in MuxRecord, m.child # 0
    PROVE  LET w == stopEmbeddedApp(m)
           IN  /\ w \in MuxRecord /\ w.child = 0 /\ w.activeVersion = 0
               /\ w.appVersion = m.appVersion /\ w.nextAppVersion = m.nextAppVersion
               /\ w.nativeApp = m.nativeApp
<1> DEFINE w == [m EXCEPT !.child = 0, !.started = FALSE, !.activeVersion = 0]
<1>1. w \in MuxRecord
    <2>1. 0 \in Nat
        OBVIOUS
    <2> QED BY <2>1, Zenon DEF MuxRecord
<1>2. /\ w.child = 0 /\ w.activeVersion = 0 /\ w.appVersion = m.appVersion
      /\ w.nextAppVersion = m.nextAppVersion
    BY DEF MuxRecord
<1>3. w.nativeApp = m.nativeApp
    BY Zenon DEF MuxRecord
<1>4. stopEmbeddedApp(m) = w
    BY Zenon DEF stopEmbeddedApp, NoVersion
<1> QED BY <1>1, <1>2, <1>3, <1>4, Zenon

\* startNativeApp marks the native application started and touches no child.
LEMMA NativeFields ==
    ASSUME NEW m \in MuxRecord
    PROVE  LET w == startNativeApp(m)
           IN  /\ w \in MuxRecord /\ w.nativeApp = TRUE /\ w.started = TRUE
               /\ w.appVersion = m.appVersion /\ w.nextAppVersion = m.nextAppVersion
               /\ w.child = m.child /\ w.activeVersion = m.activeVersion
<1> DEFINE w == [m EXCEPT !.nativeApp = TRUE, !.started = TRUE]
<1>1. w \in MuxRecord
    BY Zenon DEF MuxRecord
<1>2. /\ w.child = m.child /\ w.activeVersion = m.activeVersion
      /\ w.appVersion = m.appVersion /\ w.nextAppVersion = m.nextAppVersion
    BY DEF MuxRecord
<1>3. w.nativeApp = TRUE /\ w.started = TRUE
    BY Zenon DEF MuxRecord
<1> QED BY <1>1, <1>2, <1>3, Zenon DEF startNativeApp

\* startEmbeddedApp, after the stop, makes b the child and the active version.
LEMMA EmbeddedFields ==
    ASSUME NEW m \in MuxRecord, NEW b \in Nat
    PROVE  LET w == [m EXCEPT !.child = b, !.activeVersion = b, !.started = TRUE]
           IN  /\ w \in MuxRecord /\ w.child = b /\ w.activeVersion = b /\ w.started = TRUE
               /\ w.appVersion = m.appVersion /\ w.nextAppVersion = m.nextAppVersion
               /\ w.nativeApp = m.nativeApp
<1> DEFINE w == [m EXCEPT !.child = b, !.activeVersion = b, !.started = TRUE]
<1>1. w \in MuxRecord
    BY Zenon DEF MuxRecord
<1>2. /\ w.child = b /\ w.activeVersion = b
      /\ w.appVersion = m.appVersion /\ w.nextAppVersion = m.nextAppVersion
    BY DEF MuxRecord
<1>3. w.nativeApp = m.nativeApp /\ w.started = TRUE
    BY Zenon DEF MuxRecord
<1> QED BY <1>1, <1>2, <1>3, Zenon

\* startApp runs the application of the version it is given.
LEMMA StartServes ==
    ASSUME NoGap, NEW v \in Nat, NEW h \in Nat
    PROVE  Served(startApp(NewMultiplexer(v, h))) /\ startApp(NewMultiplexer(v, h)).appVersion = v
<1> DEFINE b == GetForAppVersion(v)
           m == NewMultiplexer(v, h)
<1>1. b \in Nat /\ (b = 0 <=> v > Max(Embedded)) /\ (b # 0 => b \in Embedded)
    BY BinaryOfVersion
<1>2. m \in MuxRecord
    <2>1. 0 \in Nat
        OBVIOUS
    <2> QED BY <2>1, Zenon DEF NewMultiplexer, NoVersion, MuxRecord
<1>3. m.appVersion = v /\ m.child = 0 /\ m.activeVersion = 0
    BY DEF NewMultiplexer, NoVersion
<1>4. m.nativeApp = FALSE
    BY Zenon DEF NewMultiplexer
<1> HIDE DEF m
<1>5. CASE b = 0
    <2>1. startApp(m) = startNativeApp(m)
        BY <1>3, <1>5, Zenon DEF startApp, NoVersion
    <2>2. v > Max(Embedded)
        BY <1>1, <1>5, Zenon
    <2> DEFINE n == startNativeApp(m)
    <2>3. /\ n \in MuxRecord /\ n.child = 0 /\ n.activeVersion = 0 /\ n.started = TRUE
          /\ n.appVersion = v /\ n.nativeApp = TRUE
        BY <1>2, <1>3, NativeFields, Zenon
    <2> HIDE DEF n
    <2>4. Formed(n)
        BY <2>3, Zenon DEF Formed
    <2>5. Served(n)
        BY <1>5, <2>2, <2>3, <2>4, Zenon DEF Served
    <2> QED BY <2>1, <2>3, <2>5, Zenon DEF m, n
<1>6. CASE b # 0
    <2>1. startApp(m) = [m EXCEPT !.child = b, !.activeVersion = b, !.started = TRUE]
        BY <1>3, <1>6, Zenon DEF startApp, NoVersion
    <2>2. ~(v > Max(Embedded))
        BY <1>1, <1>6, Zenon
    <2> DEFINE n == [m EXCEPT !.child = b, !.activeVersion = b, !.started = TRUE]
    <2>3. /\ n \in MuxRecord /\ n.child = b /\ n.activeVersion = b /\ n.started = TRUE
          /\ n.appVersion = v /\ n.nativeApp = FALSE
        BY <1>1, <1>2, <1>3, <1>4, EmbeddedFields, Zenon
    <2> HIDE DEF n
    <2>4. Formed(n)
        BY <1>1, <1>6, <2>3, Zenon DEF Formed
    <2>5. Served(n)
        BY <2>2, <2>3, <2>4, Zenon DEF Served
    <2> QED BY <2>1, <2>3, <2>5, Zenon DEF m, n
<1> QED BY <1>5, <1>6

\* A multiplexer that runs exactly the application of its version has nothing to switch.
LEMMA ServedSettled ==
    ASSUME NoGap, NEW m, Served(m)
    PROVE  Formed(m) /\ ~Switches(m) /\ ~Beside(m) /\ Behind(m)
<1>1. /\ m \in MuxRecord /\ m.activeVersion = m.child
      /\ m.started <=> (m.nativeApp \/ m.child # 0)
      /\ m.nativeApp <=> (m.appVersion > Max(Embedded))
      /\ m.child = GetForAppVersion(m.appVersion)
    BY Zenon DEF Served, Formed
<1>2. m.appVersion \in Nat /\ m.child \in Nat
    BY <1>1 DEF MuxRecord
<1>3. /\ GetForAppVersion(m.appVersion) = 0 <=> m.appVersion > Max(Embedded)
      /\ Max(Embedded) \in Nat
    BY <1>2, BinaryOfVersion
<1>4. m.appVersion <= Max(Embedded) <=> ~(m.appVersion > Max(Embedded))
    BY <1>2, <1>3
<1>5. ~(m.child > m.child) /\ m.child <= m.child
    BY <1>2
<1>6. ~Switches(m)
    BY <1>1, <1>3, <1>5, Zenon DEF Switches, NoVersion
<1>7. ~Beside(m)
    BY <1>1, <1>3, <1>4, Zenon DEF Beside
<1>8. Behind(m)
    BY <1>1, <1>5, Zenon DEF Behind
<1> QED BY <1>6, <1>7, <1>8, Zenon DEF Served

\* What getApp returns when it has nothing to switch and nothing newer runs.
LEMMA SettledServes ==
    ASSUME NoGap, NEW m, Formed(m), ~Switches(m), Behind(m)
    PROVE  Serving(m) = BinaryFor(m.appVersion)
<1>1. m \in MuxRecord /\ m.activeVersion = m.child
    BY Zenon DEF Formed
<1>2. m.appVersion \in Nat /\ m.child \in Nat
    BY <1>1 DEF MuxRecord
<1> DEFINE b == GetForAppVersion(m.appVersion)
<1>3. /\ b \in Nat /\ (b = 0 <=> m.appVersion > Max(Embedded)) /\ b = BinaryFor(m.appVersion)
      /\ Max(Embedded) \in Nat
    BY <1>2, BinaryOfVersion
<1>4. CASE b = 0
    BY <1>3, <1>4, Zenon DEF Serving, Native, NoVersion
<1>5. CASE b # 0
    <2>1. ~(b > m.child)
        BY <1>1, <1>5, Zenon DEF Switches, NoVersion
    <2>2. m.appVersion <= Max(Embedded)
        BY <1>2, <1>3, <1>5
    <2>3. m.child <= b
        BY <2>2, Zenon DEF Behind
    <2> HIDE DEF b
    <2>4. m.child = b
        BY <1>2, <1>3, <2>1, <2>3
    <2> QED BY <1>1, <1>3, <1>5, <2>4, Zenon DEF Serving, NoVersion, b
<1> QED BY <1>4, <1>5

\* A version that does not go down leaves what runs behind it.
LEMMA LaterVersion ==
    ASSUME NoGap, NEW m, NEW n, m \in MuxRecord, n \in MuxRecord, Behind(m),
           m.appVersion <= n.appVersion, n.child = m.child
    PROVE  Behind(n)
<1>1. /\ m.appVersion \in Nat /\ n.appVersion \in Nat /\ m.child \in Nat
    BY DEF MuxRecord
<1>2. SUFFICES ASSUME n.appVersion <= Max(Embedded)
               PROVE  n.child <= GetForAppVersion(n.appVersion)
    BY Zenon DEF Behind
<1>3. Max(Embedded) \in Nat
    BY <1>1, BinaryOfVersion
<1>4. m.appVersion <= Max(Embedded)
    BY <1>1, <1>2, <1>3
<1>5. m.child <= GetForAppVersion(m.appVersion)
    BY <1>4, Zenon DEF Behind
<1>6. GetForAppVersion(m.appVersion) <= GetForAppVersion(n.appVersion)
    BY <1>1, <1>2, BinaryOfVersion
<1>7. GetForAppVersion(m.appVersion) \in Nat /\ GetForAppVersion(n.appVersion) \in Nat
    BY <1>1, BinaryOfVersion
<1> QED BY <1>1, <1>5, <1>6, <1>7

\* With nothing to switch, a child beside the native application belongs to its older version,
\* and then no call is answered.
LEMMA AnsweredAlone ==
    ASSUME NoGap, Formed(mux), ~Switches(mux), Answers
    PROVE  ~Beside(mux)
<1>1. mux \in MuxRecord /\ mux.activeVersion = mux.child
    BY Zenon DEF Formed
<1>2. mux.appVersion \in Nat /\ mux.child \in Nat
    BY <1>1 DEF MuxRecord
<1> DEFINE b == GetForAppVersion(mux.appVersion)
<1>3. b \in Nat /\ (b = 0 <=> mux.appVersion > Max(Embedded)) /\ Max(Embedded) \in Nat
    BY <1>2, BinaryOfVersion
<1>4. CASE b = 0
    <2>1. mux.child = 0
        BY <1>4, Zenon DEF Switches, NoVersion
    <2>2. ~(mux.appVersion <= Max(Embedded))
        BY <1>2, <1>3, <1>4
    <2> QED BY <2>1, <2>2, Zenon DEF Beside
<1>5. CASE b # 0
    <2>1. ~(b > mux.child)
        BY <1>1, <1>5, Zenon DEF Switches, NoVersion
    <2> HIDE DEF b
    <2>2. mux.child # 0
        BY <1>2, <1>3, <1>5, <2>1
    <2>3. Serving(mux) # Native
        BY <1>1, <1>5, <2>2, Zenon DEF Serving, Native, NoVersion, b
    <2> QED BY <2>3, Zenon DEF Answers, Beside
<1> QED BY <1>4, <1>5

\* getApp, up to the stop, leaves no child.
LEMMA StopsApp ==
    ASSUME NEW m, Formed(m), ~(m.nativeApp /\ m.child # 0)
    PROVE  LET w == getAppStops(m)
           IN  /\ Formed(w) /\ w.child = 0 /\ w.nativeApp = m.nativeApp
               /\ w.appVersion = m.appVersion /\ w.nextAppVersion = m.nextAppVersion
<1>1. /\ m \in MuxRecord /\ m.activeVersion = m.child /\ m.child \in Embedded \cup {0}
      /\ m.started <=> (m.nativeApp \/ m.child # 0)
    BY Zenon DEF Formed
<1>2. CASE m.child = 0
    <2>1. getAppStops(m) = m
        BY <1>2, Zenon DEF getAppStops, stopEmbeddedApp
    <2> QED BY <1>2, <2>1, Zenon
<1>3. CASE m.child # 0
    <2> DEFINE w == stopEmbeddedApp(m)
    <2>1. /\ w \in MuxRecord /\ w.child = 0 /\ w.activeVersion = 0
          /\ w.appVersion = m.appVersion /\ w.nextAppVersion = m.nextAppVersion
          /\ w.nativeApp = m.nativeApp
        BY <1>1, <1>3, StopFields, Zenon
    <2>2. w.started = FALSE
        BY <1>1, <1>3, Zenon DEF stopEmbeddedApp, NoVersion, MuxRecord
    <2>3. ~m.nativeApp
        BY <1>3
    <2> HIDE DEF w
    <2>4. Formed(w)
        BY <2>1, <2>2, <2>3, Zenon DEF Formed
    <2> QED BY <2>1, <2>4, Zenon DEF getAppStops, w
<1> QED BY <1>2, <1>3

\* getApp, from there, starts the application of the version or nothing.
LEMMA StartsApp ==
    ASSUME NoGap, NEW m, Formed(m), m.child = 0, NEW ok \in BOOLEAN, NEW n \in getAppStarts(m, ok)
    PROVE  /\ Formed(n) /\ Behind(n)
           /\ n.appVersion = m.appVersion /\ n.nextAppVersion = m.nextAppVersion
           /\ Beside(n) => Beside(m)
           /\ n.child # 0 => ~Switches(n)
<1>1. /\ m \in MuxRecord /\ m.activeVersion = 0 /\ (m.started <=> m.nativeApp)
    BY Zenon DEF Formed
<1>2. m.appVersion \in Nat
    BY <1>1 DEF MuxRecord
<1> DEFINE b == GetForAppVersion(m.appVersion)
<1>3. /\ b \in Nat /\ (b = 0 <=> m.appVersion > Max(Embedded)) /\ Max(Embedded) \in Nat
      /\ m.appVersion <= Max(Embedded) => b \in Embedded
    BY <1>2, BinaryOfVersion
<1>4. /\ 0 <= b /\ b <= b /\ ~(b > b)
      /\ m.appVersion <= Max(Embedded) <=> ~(m.appVersion > Max(Embedded))
    BY <1>2, <1>3
<1>5. Behind(m)
    BY <1>4, Zenon DEF Behind
<1>6. \/ n = m
      \/ b = 0 /\ n = startNativeApp(m)
      \/ b # 0 /\ n = [m EXCEPT !.child = b, !.activeVersion = b, !.started = TRUE]
    BY Zenon DEF getAppStarts, startEmbeddedApp, NoVersion
<1>7. CASE n = m
    BY <1>5, <1>7, Zenon
<1>8. CASE b = 0 /\ n = startNativeApp(m)
    <2>1. /\ n \in MuxRecord /\ n.nativeApp = TRUE /\ n.started = TRUE
          /\ n.appVersion = m.appVersion /\ n.nextAppVersion = m.nextAppVersion
          /\ n.child = 0 /\ n.activeVersion = 0
        BY <1>1, <1>8, NativeFields, Zenon
    <2>2. ~(n.appVersion <= Max(Embedded))
        BY <1>3, <1>4, <1>8, <2>1, Zenon
    <2>3. Formed(n) /\ Behind(n) /\ ~Beside(n)
        BY <2>1, <2>2, Zenon DEF Formed, Behind, Beside
    <2> QED BY <2>1, <2>3, Zenon
<1>9. CASE b # 0 /\ n = [m EXCEPT !.child = b, !.activeVersion = b, !.started = TRUE]
    <2>1. /\ n \in MuxRecord /\ n.child = b /\ n.activeVersion = b /\ n.started = TRUE
          /\ n.appVersion = m.appVersion /\ n.nextAppVersion = m.nextAppVersion
          /\ n.nativeApp = m.nativeApp
        BY <1>1, <1>3, <1>9, EmbeddedFields, Zenon
    <2>2. m.appVersion <= Max(Embedded) /\ b \in Embedded
        BY <1>3, <1>4, <1>9, Zenon
    <2>3. ~Switches(n)
        BY <1>4, <1>9, <2>1, Zenon DEF Switches, NoVersion
    <2>4. Formed(n)
        BY <1>9, <2>1, <2>2, Zenon DEF Formed
    <2>5. Behind(n)
        BY <1>4, <2>1, Zenon DEF Behind
    <2>6. Beside(n) => Beside(m)
        BY <2>1, <2>2, Zenon DEF Beside
    <2> QED BY <2>1, <2>3, <2>4, <2>5, <2>6, Zenon
<1> QED BY <1>6, <1>7, <1>8, <1>9

-----------------------------------------------------------------------------
(* The steps                                                               *)

\* What the chain's versions are.
LEMMA Schedule ==
    ASSUME NEW s \in Schedules
    PROVE  /\ Max(DOMAIN s) \in Nat /\ DOMAIN s = 0 .. Max(DOMAIN s)
           /\ \A h \in DOMAIN s : s[h] \in Nat
           /\ \A g, h \in DOMAIN s : g <= h => s[g] <= s[h]
           /\ Snapshots \subseteq DOMAIN s
    BY VersionsAssumption

\* The heights and versions of CometBFT's state.
LEMMA StateFacts ==
    ASSUME MuxInv
    PROVE  /\ state.height \in Nat /\ store \in Nat /\ appHeight \in Nat
           /\ state.height \in DOMAIN schedule /\ store \in DOMAIN schedule
           /\ state.app = schedule[state.height] /\ state.app \in Nat
           /\ schedule[store] \in Nat /\ state.app <= schedule[store]
<1>1. schedule \in Schedules /\ state = [height |-> state.height, app |-> schedule[state.height]]
    BY Zenon DEF MuxInv
<1>2. /\ store \in DOMAIN schedule /\ state.height \in Nat
      /\ store \in {state.height, state.height + 1}
      /\ appHeight \in {state.height, state.height + 1}
    BY Zenon DEF MuxInv, HeightInv
<1>3. state.app = schedule[state.height]
    BY <1>1
<1> DEFINE top == Max(DOMAIN schedule)
<1>4. /\ top \in Nat /\ DOMAIN schedule = 0 .. top
      /\ \A h \in DOMAIN schedule : schedule[h] \in Nat
      /\ \A g, h \in DOMAIN schedule : g <= h => schedule[g] <= schedule[h]
    BY <1>1, Schedule, Zenon
<1> HIDE DEF top
<1>5. state.height \in DOMAIN schedule /\ store \in Nat /\ appHeight \in Nat
      /\ state.height <= store
    BY <1>2, <1>4
<1> QED BY <1>2, <1>3, <1>4, <1>5

\* A new node satisfies the invariant.
LEMMA InitInv ==
    ASSUME NoGap, MuxInit
    PROVE  MuxInv
<1>1. 0 \in DOMAIN schedule
    BY Schedule DEF MuxInit
<1>2. /\ schedule \in Schedules /\ mux = NewMultiplexer(0, 0) /\ lock = "free" /\ pc = "down"
      /\ store = 0 /\ appHeight = 0 /\ offered = 0 /\ query = "idle"
    BY Zenon DEF MuxInit
<1>3. mux \in MuxRecord
    <2>1. 0 \in Nat
        OBVIOUS
    <2> QED BY <1>2, <2>1, Zenon DEF NewMultiplexer, NoVersion, MuxRecord
<1>4. mux.appVersion = 0 /\ mux.child = 0 /\ mux.activeVersion = 0
    BY <1>2 DEF NewMultiplexer, NoVersion
<1>5. mux.nativeApp = FALSE /\ mux.started = FALSE
    BY <1>2, Zenon DEF NewMultiplexer
<1>6. Formed(mux)
    BY <1>3, <1>4, <1>5, Zenon DEF Formed
<1>7. Behind(mux)
    <2>1. GetForAppVersion(0) \in Nat
        BY BinaryOfVersion
    <2>2. 0 <= GetForAppVersion(0)
        BY <2>1
    <2> QED BY <1>4, <2>2, Zenon DEF Behind
<1>8. AppInv
    BY <1>2, <1>5, <1>6, <1>7 DEF AppInv, Beside, Settled
<1>9. VersionInv
    BY <1>2 DEF VersionInv
<1>10. HeightInv
    BY <1>1 DEF MuxInit, HeightInv
<1> QED BY <1>8, <1>9, <1>10 DEF MuxInit, MuxInv

\* Start: startApp runs the binary of the saved state.
LEMMA StartKeeps ==
    ASSUME NoGap, MuxInv, Start
    PROVE  MuxInv'
<1>1. PICK h \in HaltHeights : mux' = startApp(NewMultiplexer(state.app, h))
    BY DEF Start
<1>2. h \in Nat
    BY VersionsAssumption
<1>3. state.app \in Nat /\ state.height \in Nat
    BY StateFacts
<1>4. Served(mux') /\ mux'.appVersion = state.app
    BY <1>1, <1>2, <1>3, StartServes, Zenon
<1>5. Formed(mux') /\ ~Switches(mux') /\ ~Beside(mux') /\ Behind(mux')
    BY <1>4, ServedSettled, Zenon
<1>6. /\ pc = "down" /\ pc' = "handshake" /\ lock' = lock
      /\ UNCHANGED <<schedule, store, state, response, offered, appHeight, ran>>
    BY Zenon DEF Start, cometVars
<1>7. lock = "free" /\ offered = 0
    BY <1>6 DEF MuxInv, AppInv, VersionInv, Unsettled
<1>8. AppInv'
    BY <1>5, <1>6, <1>7 DEF AppInv
<1>9. VersionInv'
    BY <1>4, <1>6, <1>7 DEF VersionInv
<1>10. HeightInv'
    BY <1>6 DEF MuxInv, HeightInv
<1>11. pc' \in Settled
    BY <1>6 DEF Settled
<1> QED BY <1>6, <1>8, <1>9, <1>10, <1>11, Zenon DEF MuxInv

\* A part of a switch changes neither a version nor a height.
LEMMA SwitchKeeps ==
    ASSUME MuxInv, Formed(mux'), mux'.appVersion = mux.appVersion,
           mux'.nextAppVersion = mux.nextAppVersion, Beside(mux') => Beside(mux),
           ~lowered => Behind(mux'), mux'.nativeApp /\ mux'.child # 0 => ~Switches(mux'),
           lock' # "free" => mux'.child = 0, pc \in Unsettled, pc' \in {pc, "failed"},
           UNCHANGED <<schedule, cometVars, appHeight, ran, crashes, mocked, lowered>>
    PROVE  MuxInv'
<1>1. UNCHANGED <<schedule, store, state, response, offered, appHeight, ran, mocked, lowered>>
    BY Zenon DEF cometVars
<1>2. pc' \in Unsettled /\ pc' \notin Settled /\ pc' # "down"
    BY DEF Unsettled, Settled
<1>3. Beside(mux') => lowered' /\ offered' # 0 /\ pc' \in {"offering", "failed"}
    <2>1. Beside(mux) => lowered /\ offered # 0 /\ pc \in {"offering", "failed"}
        BY Zenon DEF MuxInv, AppInv
    <2>2. pc \in {"offering", "failed"} => pc' \in {"offering", "failed"}
        BY Zenon
    <2>3. (lowered' <=> lowered) /\ offered' = offered
        BY <1>1
    <2> QED BY <2>1, <2>2, <2>3, Zenon
<1>4. AppInv'
    <2>1. ~lowered' => Behind(mux')
        <3>1. lowered' <=> lowered
            BY <1>1
        <3> QED BY <3>1, Zenon
    <2>2. pc' = "down" => ~mux'.nativeApp /\ query' = "idle"
        BY <1>2, Zenon
    <2>3. pc' \in Settled => ~Switches(mux')
        BY <1>2, Zenon
    <2>4. lock' # "free" => mux'.child = 0 /\ pc' \in Unsettled
        BY <1>2, Zenon
    <2> QED BY <1>3, <2>1, <2>2, <2>3, <2>4, Zenon DEF AppInv
<1>5. pc' = pc \/ pc' = "failed"
    OBVIOUS
<1>6. VersionInv'
    <2>1. pc = "upgrading" \/ pc = "offering" \/ pc = "failed"
        BY DEF Unsettled
    <2>2. pc' # "handshake" /\ pc' # "committed"
          /\ pc' \notin {"ready", "finalized", "saved", "durable"}
        BY <1>5, <2>1
    <2>3. pc' = "upgrading" => pc = "upgrading"
        BY <1>5, <2>1
    <2>4. pc' = "offering" => pc = "offering"
        BY <1>5, <2>1
    <2>5. VersionInv
        BY Zenon DEF MuxInv
    <2>6. offered # 0 => /\ pc' \in {"ready", "offering", "failed"}
                         /\ mux'.appVersion = schedule[offered]
        <3>1. offered # 0 => /\ pc \in {"ready", "offering", "failed"}
                             /\ mux.appVersion = schedule[offered]
            BY <2>5, Zenon DEF VersionInv
        <3>2. pc \in {"ready", "offering", "failed"} => pc' \in {"ready", "offering", "failed"}
            BY <1>5, Zenon
        <3> QED BY <3>1, <3>2, Zenon
    <2>7. pc' \in {"upgrading", "committed"} => pc \in {"upgrading", "committed"}
        BY <2>2, <2>3, Zenon
    <2>8. pc' \in {"finalized", "saved", "durable"}
             => pc' \in {"ready", "finalized", "saved", "durable"}
        OBVIOUS
    <2> QED BY <1>1, <2>2, <2>4, <2>5, <2>6, <2>7, <2>8, Zenon DEF VersionInv
<1>7. HeightInv'
    BY <1>1, <1>5 DEF MuxInv, HeightInv
<1> QED BY <1>1, <1>2, <1>4, <1>6, <1>7, Zenon DEF MuxInv

\* getApp stops what runs, or fails to.
LEMMA StopRunningKeeps ==
    ASSUME NoGap, MuxInv, NEW c \in {"consensus", "query"}, StopRunning(c)
    PROVE  MuxInv'
<1>1. Formed(mux) /\ Switches(mux) /\ ~(mux.nativeApp /\ mux.child # 0) /\ lock = "free"
    BY Zenon DEF MuxInv, AppInv, StopRunning
<1>2. pc \in Unsettled
    <2>1. pc \notin Settled
        BY <1>1, Zenon DEF MuxInv, AppInv
    <2>2. pc # "down"
        <3>1. CASE c = "query"
            <4>1. query = "called"
                BY <3>1, Zenon DEF StopRunning, Calls
            <4>2. query # "idle"
                BY <4>1
            <4> QED BY <4>2, Zenon DEF MuxInv, AppInv
        <3>2. CASE c # "query"
            <4>1. pc \in {"handshake", "ready", "saved", "upgrading", "offering"}
                BY <3>2, Zenon DEF StopRunning, Calls
            <4> QED BY <4>1
        <3> QED BY <3>1, <3>2
    <2> QED BY <2>1, <2>2, Zenon DEF MuxInv
<1>3. UNCHANGED <<schedule, cometVars, appHeight, ran, crashes, mocked, lowered>>
    BY Zenon DEF StopRunning
<1>4. \/ mux' = getAppStops(mux) /\ pc' = pc
      \/ mux' = mux /\ lock' = lock /\ (pc' = pc \/ pc' = "failed")
    BY Zenon DEF StopRunning, Fails
<1>5. CASE mux' = getAppStops(mux) /\ pc' = pc
    <2>1. /\ Formed(mux') /\ mux'.child = 0 /\ mux'.nativeApp = mux.nativeApp
          /\ mux'.appVersion = mux.appVersion /\ mux'.nextAppVersion = mux.nextAppVersion
        BY <1>1, <1>5, StopsApp, Zenon
    <2>2. Beside(mux') => Beside(mux)
        BY <2>1, Zenon DEF Beside
    <2>3. Behind(mux')
        <3>1. mux'.appVersion \in Nat
            BY <2>1 DEF Formed, MuxRecord
        <3>2. GetForAppVersion(mux'.appVersion) \in Nat
            BY <3>1, BinaryOfVersion
        <3>3. 0 <= GetForAppVersion(mux'.appVersion)
            BY <3>2
        <3> QED BY <2>1, <3>3, Zenon DEF Behind
    <2>4. pc' \in {pc, "failed"}
        BY <1>5
    <2> QED BY <1>2, <1>3, <2>1, <2>2, <2>3, <2>4, SwitchKeeps, Zenon
<1>6. CASE mux' = mux /\ lock' = lock /\ (pc' = pc \/ pc' = "failed")
    <2>1. pc' \in {pc, "failed"} /\ lock' = "free"
        BY <1>1, <1>6
    <2>2. ~lowered => Behind(mux')
        BY <1>6, Zenon DEF MuxInv, AppInv
    <2> QED BY <1>1, <1>2, <1>3, <1>6, <2>1, <2>2, SwitchKeeps, Zenon
<1> QED BY <1>4, <1>5, <1>6

\* getApp starts the next application, or fails to.
LEMMA StartNextKeeps ==
    ASSUME NoGap, MuxInv, NEW c \in {"consensus", "query"}, StartNext(c)
    PROVE  MuxInv'
<1>1. lock # "free"
    BY DEF StartNext
<1>2. Formed(mux) /\ mux.child = 0 /\ pc \in Unsettled
    BY <1>1, Zenon DEF MuxInv, AppInv
<1>3. PICK ok \in BOOLEAN : mux' \in getAppStarts(mux, ok)
    BY Zenon DEF StartNext
<1>4. /\ Formed(mux') /\ Behind(mux')
      /\ mux'.appVersion = mux.appVersion /\ mux'.nextAppVersion = mux.nextAppVersion
      /\ Beside(mux') => Beside(mux)
      /\ mux'.child # 0 => ~Switches(mux')
    BY <1>2, <1>3, StartsApp, Zenon
<1>5. /\ pc' = pc \/ pc' = "failed"
      /\ lock' = "free"
      /\ UNCHANGED <<schedule, cometVars, appHeight, ran, crashes, mocked, lowered>>
    BY Zenon DEF StartNext, Fails
<1>6. pc' \in {pc, "failed"}
    BY <1>5
<1> QED BY <1>2, <1>4, <1>5, <1>6, SwitchKeeps, Zenon

\* A step that leaves the application and m.mu alone, and does not come to a switch.
LEMMA AppStays ==
    ASSUME MuxInv, mux' = mux, lock' = lock, lowered' = lowered, pc \in Settled, pc' # "down",
           offered' = offered, pc' \in Unsettled => pc' = "failed"
    PROVE  AppInv'
<1>1. ~Switches(mux) /\ ~Beside(mux) /\ lock = "free" /\ Formed(mux)
    <2>1. pc \notin {"offering", "failed"} /\ pc \notin Unsettled
        BY DEF Settled, Unsettled
    <2> QED BY <2>1, Zenon DEF MuxInv, AppInv
<1>2. lowered' <=> lowered
    OBVIOUS
<1>3. (~lowered => Behind(mux)) /\ (mux.nativeApp /\ mux.child # 0 => ~Switches(mux))
    BY Zenon DEF MuxInv, AppInv
<1> QED BY <1>1, <1>2, <1>3, Zenon DEF AppInv

\* Handshake: a block replayed to the mock moves CometBFT's state past the multiplexer.
LEMMA HandshakeKeeps ==
    ASSUME NoGap, MuxInv, Handshake
    PROVE  MuxInv'
<1>0. HeightInv /\ VersionInv
    BY Zenon DEF MuxInv
<1>1. /\ mux' = mux /\ lock' = lock /\ pc = "handshake"
      /\ UNCHANGED <<schedule, store, response, offered, appHeight, ran>>
    BY Zenon DEF Handshake
<1>9. lowered' = lowered
    BY DEF Handshake
<1>2. mux.appVersion \in Nat
    BY DEF MuxInv, AppInv, Formed, MuxRecord
<1>4. /\ schedule[state.height] = state.app /\ state.app \in Nat /\ state.height \in Nat
      /\ schedule[store] \in Nat /\ state.app <= schedule[store] /\ store \in Nat
    BY StateFacts
<1>7. pc \in Settled /\ pc' \in {"ready", "failed"}
    BY <1>1 DEF Settled, Handshake
<1>8. AppInv'
    <2>1. pc' # "down" /\ (pc' \in Unsettled => pc' = "failed")
        BY <1>7 DEF Unsettled
    <2> QED BY <1>1, <1>7, <1>9, <2>1, AppStays, Zenon
<1>10. pc' \in Settled \cup Unsettled
    BY <1>7 DEF Settled, Unsettled
<1>5. CASE UNCHANGED state
    <2>1. \/ pc' = "ready" /\ appHeight = state.height /\ UNCHANGED mocked
          \/ pc' = "failed" /\ UNCHANGED mocked
          \/ appHeight = state.height + 1 /\ state'.height = appHeight
        BY <1>5 DEF Handshake
    <2>2. \/ pc' = "ready" /\ appHeight = state.height /\ UNCHANGED mocked
          \/ pc' = "failed" /\ UNCHANGED mocked
        BY <1>4, <1>5, <2>1
    <2>3. VersionInv'
        <3>1. mux.appVersion = state.app /\ offered = 0 /\ mux.appVersion <= state.app
            BY <1>0, <1>1, <1>2 DEF VersionInv
        <3> QED BY <1>1, <1>5, <2>2, <3>1 DEF VersionInv
    <2>4. HeightInv'
        BY <1>0, <1>1, <1>4, <1>5, <2>2 DEF HeightInv
    <2> QED BY <1>1, <1>5, <1>8, <1>10, <2>3, <2>4, Zenon DEF MuxInv
<1>6. CASE state' # state
    <2>1. appHeight = state.height + 1 /\ pc' = "ready" /\ mocked' = TRUE
        BY <1>6 DEF Handshake
    <2>2. state' = [height |-> appHeight, app |-> schedule[appHeight]]
        BY <1>6 DEF Handshake
    <2>3. state'.height = appHeight /\ state'.app = schedule[appHeight]
        BY <2>2
    <2>4. appHeight = store
        <3>1. /\ appHeight <= store /\ state.height \in Nat
              /\ store \in {state.height, state.height + 1}
            BY <1>0, Zenon DEF HeightInv
        <3> QED BY <2>1, <3>1
    <2>5. VersionInv'
        <3>1. mux.appVersion = state.app /\ offered = 0
            BY <1>0, <1>1, Zenon DEF VersionInv
        <3>2. mux.appVersion <= state'.app
            BY <1>4, <2>3, <2>4, <3>1
        <3> QED BY <1>1, <2>1, <3>1, <3>2 DEF VersionInv
    <2>6. HeightInv'
        BY <1>0, <1>1, <1>4, <2>1, <2>3, <2>4 DEF HeightInv
    <2>7. state' = [height |-> state'.height, app |-> schedule'[state'.height]]
        BY <1>1, <2>2, <2>3
    <2> QED BY <1>1, <1>8, <1>10, <2>5, <2>6, <2>7, Zenon DEF MuxInv
<1> QED BY <1>5, <1>6

\* The block store runs at most one block ahead.
LEMMA SaveBlockKeeps ==
    ASSUME MuxInv, SaveBlock
    PROVE  MuxInv'
<1>1. store + 1 \in DOMAIN schedule
    BY Schedule DEF MuxInv, HeightInv, SaveBlock, LastHeight
<1>2. /\ pc = "ready" /\ store' = store + 1 /\ store = state.height /\ offered = 0
      /\ UNCHANGED <<mux, lock, pc, schedule, state, offered, appHeight, ran, mocked, lowered>>
    BY Zenon DEF SaveBlock, history
<1>3. VersionInv'
    BY <1>2 DEF MuxInv, VersionInv
<1>4. HeightInv'
    BY <1>1, <1>2 DEF MuxInv, HeightInv
<1>5. AppInv'
    <2>1. pc \in Settled /\ pc' # "down" /\ pc' \notin Unsettled
        BY <1>2 DEF Settled, Unsettled
    <2> QED BY <1>2, <2>1, AppStays, Zenon
<1> QED BY <1>2, <1>3, <1>4, <1>5, Zenon DEF MuxInv

\* SaveResponse: from here on the handshake can replay the block.
LEMMA SaveResponseKeeps ==
    ASSUME MuxInv, SaveResponse
    PROVE  MuxInv'
<1>1. /\ pc = "finalized" /\ pc' = "saved"
      /\ UNCHANGED <<mux, lock, schedule, store, state, offered, appHeight, ran, mocked, lowered>>
    BY Zenon DEF SaveResponse, history
<1>2. VersionInv'
    BY <1>1 DEF MuxInv, VersionInv
<1>3. HeightInv'
    BY <1>1 DEF MuxInv, HeightInv
<1>4. pc \in Settled /\ pc' \in Settled /\ pc' # "down" /\ pc' \notin Unsettled
    BY <1>1 DEF Settled, Unsettled
<1>5. AppInv'
    BY <1>1, <1>4, AppStays, Zenon
<1> QED BY <1>1, <1>2, <1>3, <1>4, <1>5, Zenon DEF MuxInv

\* CommitApp: the application is one block ahead.
LEMMA CommitAppKeeps ==
    ASSUME MuxInv, CommitApp
    PROVE  MuxInv'
<1>1. /\ pc = "saved" /\ pc' = "durable" /\ appHeight' = state.height + 1
      /\ UNCHANGED <<mux, lock, schedule, store, state, offered, ran, mocked, lowered>>
    BY Zenon DEF CommitApp, cometVars, history
<1>2. VersionInv'
    BY <1>1 DEF MuxInv, VersionInv
<1>3. HeightInv'
    <2>1. /\ store \in DOMAIN schedule /\ state.height \in Nat /\ store = state.height + 1
        BY <1>1 DEF MuxInv, HeightInv
    <2>2. /\ store' \in {state'.height, state'.height + 1} /\ appHeight' <= store'
          /\ appHeight' \in {state'.height, state'.height + 1}
        BY <1>1, <2>1
    <2>3. pc' \notin {"ready", "offering"}
        BY <1>1
    <2> QED BY <1>1, <2>1, <2>2, <2>3, Zenon DEF HeightInv
<1>4. pc \in Settled /\ pc' \in Settled /\ pc' # "down" /\ pc' \notin Unsettled
    BY <1>1 DEF Settled, Unsettled
<1>5. AppInv'
    BY <1>1, <1>4, AppStays, Zenon
<1> QED BY <1>1, <1>2, <1>3, <1>4, <1>5, Zenon DEF MuxInv

\* CommitUpgraded and OfferAnswered: getApp has nothing left to do.
LEMMA SwitchedKeeps ==
    ASSUME NoGap, MuxInv, CommitUpgraded \/ OfferAnswered
    PROVE  MuxInv'
<1>1. /\ UNCHANGED <<mux, lock, schedule, store, state, offered, appHeight, ran, mocked, lowered>>
      /\ lock = "free" /\ ~Switches(mux)
    BY Zenon DEF CommitUpgraded, OfferAnswered, cometVars, history, Ready
<1>2. Formed(mux) /\ (~lowered => Behind(mux))
    BY Zenon DEF MuxInv, AppInv
<1>3. ~Beside(mux)
    <2>1. CASE CommitUpgraded
        <3>1. pc \notin {"offering", "failed"}
            BY <2>1 DEF CommitUpgraded
        <3> QED BY <3>1, Zenon DEF MuxInv, AppInv
    <2>2. CASE OfferAnswered
        BY <1>1, <1>2, <2>2, AnsweredAlone, Zenon DEF OfferAnswered
    <2> QED BY <2>1, <2>2
<1>4. \/ pc = "upgrading" /\ pc' = "committed"
      \/ pc = "offering" /\ pc' = "ready"
    BY Zenon DEF CommitUpgraded, OfferAnswered
<1>5. pc' \in Settled /\ pc' # "down"
    BY <1>4 DEF Settled
<1>6. AppInv'
    <2>1. lowered' <=> lowered
        BY <1>1
    <2> QED BY <1>1, <1>2, <1>3, <1>5, <2>1, Zenon DEF AppInv
<1>7. VersionInv'
    BY <1>1, <1>4 DEF MuxInv, VersionInv
<1>8. HeightInv'
    BY <1>1, <1>4 DEF MuxInv, HeightInv
<1> QED BY <1>1, <1>5, <1>6, <1>7, <1>8, Zenon DEF MuxInv

\* SaveState: CometBFT's state catches up with the application.
LEMMA SaveStateKeeps ==
    ASSUME MuxInv, SaveState
    PROVE  MuxInv'
<1>0. HeightInv /\ VersionInv
    BY Zenon DEF MuxInv
<1>1. /\ pc = "committed" /\ pc' = "ready"
      /\ UNCHANGED <<mux, lock, schedule, store, response, offered, appHeight, ran, mocked, lowered>>
    BY Zenon DEF SaveState, history
<1>7. state' = [height |-> state.height + 1, app |-> schedule[state.height + 1]]
    BY DEF SaveState
<1>2. state'.height = state.height + 1 /\ state'.app = schedule[state.height + 1]
    BY <1>7
<1>3. /\ state.height \in Nat /\ store \in Nat /\ store = state.height + 1
      /\ schedule[store] \in Nat
    BY <1>0, <1>1, StateFacts DEF HeightInv
<1>4. VersionInv'
    <2>1. mux.appVersion = schedule[store] /\ offered = 0
        BY <1>0, <1>1, <1>3 DEF VersionInv
    <2>2. mux.appVersion <= state'.app /\ mux.appVersion = state'.app
        BY <1>2, <1>3, <2>1
    <2> QED BY <1>1, <2>1, <2>2 DEF VersionInv
<1>5. HeightInv'
    BY <1>0, <1>1, <1>2, <1>3 DEF HeightInv
<1>6. state' = [height |-> state'.height, app |-> schedule'[state'.height]]
    BY <1>1, <1>2, <1>7
<1>8. pc \in Settled /\ pc' \in Settled /\ pc' # "down" /\ pc' \notin Unsettled
    BY <1>1 DEF Settled, Unsettled
<1>9. AppInv'
    BY <1>1, <1>8, AppStays, Zenon
<1> QED BY <1>1, <1>4, <1>5, <1>6, <1>8, <1>9, Zenon DEF MuxInv

\* A query, apart from the switch it may make.
LEMMA QueryKeeps ==
    ASSUME MuxInv, Query \/ QueryHandle \/ QueryCall
    PROVE  MuxInv'
<1>1. /\ UNCHANGED <<mux, lock, pc, schedule, store, state, offered, appHeight, ran, mocked, lowered>>
      /\ pc # "down" \/ query # "idle"
    <2>1. "called" # "idle" /\ "native" # "idle" /\ "embedded" # "idle"
        OBVIOUS
    <2> QED BY <2>1, Zenon DEF Query, QueryHandle, QueryCall, cometVars, history
<1>2. pc # "down"
    BY <1>1, Zenon DEF MuxInv, AppInv
<1>3. AppInv'
    <2>1. lowered' <=> lowered
        BY <1>1
    <2> QED BY <1>1, <1>2, <2>1, Zenon DEF MuxInv, AppInv
<1>4. VersionInv'
    <2>1. mocked' <=> mocked
        BY <1>1
    <2> QED BY <1>1, <2>1, Zenon DEF MuxInv, VersionInv
<1>5. HeightInv'
    BY <1>1, Zenon DEF MuxInv, HeightInv
<1> QED BY <1>1, <1>3, <1>4, <1>5, Zenon DEF MuxInv

\* A crash or a stop leaves nothing in memory.
LEMMA DownKeeps ==
    ASSUME NoGap, MuxInv, Crash \/ Stop
    PROVE  MuxInv'
<1>1. /\ pc' = "down" /\ lock' = "free" /\ mux' = NewMultiplexer(0, 0) /\ offered' = 0
      /\ query' = "idle"
      /\ UNCHANGED <<schedule, store, state, response, appHeight, ran>>
    BY Zenon DEF Crash, Stop, Down
<1>3. mux' \in MuxRecord
    <2>1. 0 \in Nat
        OBVIOUS
    <2> QED BY <1>1, <2>1, Zenon DEF NewMultiplexer, NoVersion, MuxRecord
<1>4. mux'.appVersion = 0 /\ mux'.child = 0 /\ mux'.activeVersion = 0
    BY <1>1 DEF NewMultiplexer, NoVersion
<1>5. mux'.nativeApp = FALSE /\ mux'.started = FALSE
    BY <1>1, Zenon DEF NewMultiplexer
<1>6. Formed(mux')
    BY <1>3, <1>4, <1>5, Zenon DEF Formed
<1>7. Behind(mux')
    <2>1. GetForAppVersion(0) \in Nat
        BY BinaryOfVersion
    <2>2. 0 <= GetForAppVersion(0)
        BY <2>1
    <2> QED BY <1>4, <2>2, Zenon DEF Behind
<1>8. AppInv'
    BY <1>1, <1>5, <1>6, <1>7 DEF AppInv, Beside, Settled
<1>9. VersionInv'
    BY <1>1 DEF VersionInv
<1>10. HeightInv'
    BY <1>1 DEF MuxInv, HeightInv
<1> QED BY <1>1, <1>8, <1>9, <1>10, Zenon DEF MuxInv

\* FinalizeBlock: the binary, and what an ABCI v1 application commits inside it.
LEMMA FinalizeBlockKeeps ==
    ASSUME NoGap, MuxInv, FinalizeBlock
    PROVE  MuxInv'
<1> DEFINE h == state.height + 1
<1>0. HeightInv /\ VersionInv /\ AppInv
    BY Zenon DEF MuxInv
<1>1. /\ pc = "ready" /\ store = h /\ lock' = lock
      /\ UNCHANGED <<schedule, store, state, response, offered, mocked, lowered>>
    BY Zenon DEF FinalizeBlock, cometVars
<1>2. pc \in Settled /\ pc \notin {"offering", "failed"} /\ pc \notin Unsettled
    BY <1>1 DEF Settled, Unsettled
<1>11. /\ Formed(mux) /\ ~Switches(mux) /\ ~Beside(mux) /\ lock = "free"
       /\ ~lowered => Behind(mux)
    BY <1>0, <1>2, Zenon DEF AppInv
<1>3. /\ state.height \in Nat /\ store \in DOMAIN schedule /\ schedule[h] \in Nat
      /\ state.app = schedule[state.height]
    BY <1>1, StateFacts
<1>4. appHeight = state.height
    BY <1>0, <1>1, Zenon DEF HeightInv
<1>5. offered = 0
    BY <1>0, <1>1, <1>3 DEF VersionInv
<1>6. mux.appVersion <= state.app /\ (~mocked => mux.appVersion = state.app)
    BY <1>0, <1>1, <1>5, Zenon DEF VersionInv
<1>9. ~lowered => Serving(mux) = BinaryFor(mux.appVersion)
    BY <1>11, SettledServes, Zenon
<1>10. ran'.height > 0 /\ ~ran'.mocked /\ ~ran'.lowered
          => ran'.binary = BinaryFor(schedule'[ran'.height - 1])
    <2> DEFINE w == [height |-> h, binary |-> Serving(mux), mocked |-> mocked, lowered |-> lowered]
    <2>1. ran' = ran \/ ran' = w
        BY Zenon DEF FinalizeBlock
    <2>2. CASE ran' = ran
        BY <1>1, <2>2, Zenon DEF MuxInv
    <2>3. CASE ran' = w
        <3>1. ran'.height = h /\ ran'.binary = Serving(mux)
            BY <2>3, Zenon
        <3>2. ran'.mocked = mocked /\ ran'.lowered = lowered
            BY <2>3, Zenon
        <3>3. h - 1 = state.height
            BY <1>3
        <3>4. ~mocked /\ ~lowered => Serving(mux) = BinaryFor(schedule[state.height])
            BY <1>3, <1>6, <1>9, Zenon
        <3> QED BY <1>1, <3>1, <3>2, <3>3, <3>4, Zenon
    <2> QED BY <2>1, <2>2, <2>3
<1>7. CASE mux' = mux /\ appHeight' = appHeight /\ pc' = "failed"
    <2>1. VersionInv'
        BY <1>1, <1>5, <1>7 DEF VersionInv
    <2>2. HeightInv'
        BY <1>0, <1>1, <1>7 DEF HeightInv
    <2>3. pc' # "down" /\ pc' \in Unsettled
        BY <1>7 DEF Unsettled
    <2>4. AppInv'
        BY <1>1, <1>2, <1>7, <2>3, AppStays, Zenon
    <2> QED BY <1>1, <1>10, <2>1, <2>2, <2>3, <2>4, Zenon DEF MuxInv
<1>8. CASE /\ pc' = "finalized" /\ mux' = [mux EXCEPT !.nextAppVersion = schedule[h]]
           /\ appHeight' = HeightAfterFinalize(mux, h)
    <2>2. /\ mux' \in MuxRecord /\ mux'.nextAppVersion = schedule[h]
          /\ mux'.appVersion = mux.appVersion /\ mux'.activeVersion = mux.activeVersion
          /\ mux'.child = mux.child /\ mux'.started = mux.started /\ mux'.nativeApp = mux.nativeApp
        BY <1>3, <1>8, <1>11, NextVersionFields, Zenon DEF Formed
    <2>3. Formed(mux')
        BY <1>11, <2>2, Zenon DEF Formed
    <2>4. ~Switches(mux') /\ ~Beside(mux')
        BY <1>11, <2>2, Zenon DEF Switches, Beside
    <2>5. ~lowered' => Behind(mux')
        <3>1. lowered' <=> lowered
            BY <1>1
        <3> QED BY <1>11, <2>2, <3>1, Zenon DEF Behind
    <2>6. pc' # "down" /\ pc' \in Settled
        BY <1>8 DEF Settled
    <2>7. AppInv'
        BY <1>1, <1>11, <2>3, <2>4, <2>5, <2>6, Zenon DEF AppInv
    <2>8. VersionInv'
        BY <1>1, <1>5, <1>6, <1>8, <2>2 DEF VersionInv
    <2>9. appHeight' \in {state.height, state.height + 1} /\ appHeight' <= store
        <3>1. appHeight' = state.height \/ appHeight' = h
            BY <1>4, <1>8, Zenon DEF HeightAfterFinalize
        <3> QED BY <1>1, <1>3, <3>1
    <2>10. HeightInv'
        BY <1>1, <1>3, <1>8, <2>9 DEF HeightInv
    <2> QED BY <1>1, <1>10, <2>6, <2>7, <2>8, <2>10, Zenon DEF MuxInv
<1> QED BY <1>7, <1>8, Zenon DEF FinalizeBlock

\* Commit: the multiplexer takes the version of the next block.
LEMMA CommitKeeps ==
    ASSUME NoGap, MuxInv, Commit
    PROVE  MuxInv'
<1> DEFINE v == schedule[state.height + 1]
           m == [mux EXCEPT !.appVersion = v]
<1>0. HeightInv /\ VersionInv /\ AppInv
    BY Zenon DEF MuxInv
<1>1. /\ pc = "durable" /\ lock' = lock
      /\ UNCHANGED <<schedule, store, state, response, offered, appHeight, ran, mocked, lowered>>
    BY Zenon DEF Commit, cometVars, history
<1>2. mux.nextAppVersion = v /\ offered = 0 /\ mux.appVersion <= state.app
    <2>1. offered = 0
        BY <1>0, <1>1 DEF VersionInv
    <2> QED BY <1>0, <1>1, <2>1, Zenon DEF VersionInv
<1>3. store = state.height + 1
    BY <1>0, <1>1, Zenon DEF HeightInv
<1>4. v \in Nat /\ state.app <= v /\ state.app \in Nat
    BY <1>3, StateFacts
<1>11. pc \in Settled /\ pc \notin {"offering", "failed"} /\ pc \notin Unsettled
    BY <1>1 DEF Settled, Unsettled
<1>12. /\ Formed(mux) /\ ~Switches(mux) /\ ~Beside(mux) /\ lock = "free"
       /\ ~lowered => Behind(mux)
    BY <1>0, <1>11, Zenon DEF AppInv
<1>5. mux \in MuxRecord /\ mux.appVersion \in Nat
    BY <1>12 DEF Formed, MuxRecord
<1>6. mux.appVersion <= v
    BY <1>2, <1>4, <1>5
<1>7. /\ m \in MuxRecord /\ m.appVersion = v
      /\ m.activeVersion = mux.activeVersion /\ m.child = mux.child
      /\ m.started = mux.started /\ m.nativeApp = mux.nativeApp
    BY <1>4, <1>5, VersionFields, Zenon
<1>8. /\ mux' = m
      /\ pc' = IF mux.appVersion # v THEN "upgrading" ELSE "committed"
    BY <1>2, Zenon DEF Commit
<1> HIDE DEF m, v
<1>13. Formed(m)
    BY <1>7, <1>12, Zenon DEF Formed
<1>14. ~lowered => Behind(m)
    BY <1>5, <1>6, <1>7, <1>12, LaterVersion, Zenon
<1>15. ~Beside(m)
    <2>1. Max(Embedded) \in Nat
        BY <1>4, BinaryOfVersion
    <2>2. m.appVersion <= Max(Embedded) => mux.appVersion <= Max(Embedded)
        BY <1>4, <1>5, <1>6, <1>7, <2>1
    <2> QED BY <1>7, <1>12, <2>2, Zenon DEF Beside
<1>16. pc' = "committed" => ~Switches(m)
    <2>1. pc' = "committed" => mux.appVersion = v
        BY <1>8
    <2> QED BY <1>7, <1>12, <2>1, Zenon DEF Switches
<1>17. /\ pc' \in Settled => pc' = "committed"
       /\ pc' # "down" /\ pc' \in Settled \cup Unsettled
    BY <1>8 DEF Settled, Unsettled
<1>18. AppInv'
    <2>1. lowered' <=> lowered
        BY <1>1
    <2>2. ~(mux'.nativeApp /\ mux'.child # 0)
        BY <1>8, <1>15, Zenon DEF Beside
    <2> QED BY <1>1, <1>8, <1>12, <1>13, <1>14, <1>15, <1>16, <1>17, <2>1, <2>2, Zenon DEF AppInv
<1>10. VersionInv'
    <2>1. mux'.appVersion = schedule'[state'.height + 1] /\ offered' = 0
        BY <1>1, <1>2, <1>7, <1>8, Zenon DEF v
    <2>2. pc' \in {"upgrading", "committed"}
        BY <1>8
    <2> QED BY <2>1, <2>2 DEF VersionInv
<1>19. HeightInv'
    BY <1>0, <1>1, <1>8 DEF HeightInv
<1> QED BY <1>1, <1>10, <1>17, <1>18, <1>19, Zenon DEF MuxInv

\* OfferSnapshot: the multiplexer takes the version of the snapshot, older or not.
LEMMA OfferSnapshotKeeps ==
    ASSUME NoGap, MuxInv, OfferSnapshot
    PROVE  MuxInv'
<1>0. HeightInv /\ VersionInv /\ AppInv /\ schedule \in Schedules
    BY Zenon DEF MuxInv
<1>1. PICK h \in Snapshots \ {0} :
          /\ offered' = h /\ mux' = [mux EXCEPT !.appVersion = schedule[h]]
          /\ lowered' = (lowered \/ Older(schedule[h], mux.appVersion))
    BY Zenon DEF OfferSnapshot
<1>2. /\ pc = "ready" /\ store = 0 /\ lock = "free" /\ lock' = lock /\ pc' = "offering"
      /\ UNCHANGED <<schedule, store, state, response, appHeight, ran>>
    BY Zenon DEF OfferSnapshot
<1> DEFINE v == schedule[h]
<1>3. h \in Nat /\ v \in Nat /\ h # 0 /\ h \in Snapshots
    <2> DEFINE top == Max(DOMAIN schedule)
    <2>1. /\ top \in Nat /\ DOMAIN schedule = 0 .. top
          /\ \A g \in DOMAIN schedule : schedule[g] \in Nat
          /\ Snapshots \subseteq DOMAIN schedule
        BY <1>0, Schedule, Zenon
    <2> HIDE DEF top
    <2> QED BY <2>1
<1>4. pc \in Settled /\ pc \notin {"offering", "failed"}
    BY <1>2 DEF Settled
<1>5. Formed(mux) /\ ~Switches(mux) /\ ~Beside(mux) /\ (~lowered => Behind(mux))
    BY <1>0, <1>4, Zenon DEF AppInv
<1>6. mux \in MuxRecord /\ mux.appVersion \in Nat /\ mux.activeVersion = mux.child
    BY <1>5 DEF Formed, MuxRecord
<1>7. /\ mux' \in MuxRecord /\ mux'.appVersion = v /\ mux'.nextAppVersion = mux.nextAppVersion
      /\ mux'.activeVersion = mux.activeVersion /\ mux'.child = mux.child
      /\ mux'.started = mux.started /\ mux'.nativeApp = mux.nativeApp
    BY <1>1, <1>3, <1>6, VersionFields, Zenon
<1> HIDE DEF v
<1>8. Formed(mux')
    BY <1>5, <1>7, Zenon DEF Formed
<1>9. ~lowered' => Behind(mux')
    <2> SUFFICES ASSUME ~lowered' PROVE Behind(mux')
        OBVIOUS
    <2>1. ~lowered /\ ~Older(v, mux.appVersion)
        BY <1>1, Zenon DEF v
    <2>2. ~(v < mux.appVersion) \/ BinaryFor(v) = BinaryFor(mux.appVersion)
        BY <2>1, Zenon DEF Older
    <2>3. CASE ~(v < mux.appVersion)
        <3>1. mux.appVersion <= mux'.appVersion
            BY <1>3, <1>6, <1>7, <2>3
        <3> QED BY <1>5, <1>6, <1>7, <2>1, <3>1, LaterVersion, Zenon
    <2>4. CASE BinaryFor(v) = BinaryFor(mux.appVersion)
        <3>1. GetForAppVersion(v) = GetForAppVersion(mux.appVersion)
            BY <2>4, Zenon DEF GetForAppVersion, BinaryFor, Native, NoVersion
        <3>2. v <= Max(Embedded) => mux.appVersion <= Max(Embedded)
            <4>1. /\ GetForAppVersion(v) = 0 <=> v > Max(Embedded)
                  /\ GetForAppVersion(mux.appVersion) = 0 <=> mux.appVersion > Max(Embedded)
                  /\ Max(Embedded) \in Nat
                BY <1>3, <1>6, BinaryOfVersion
            <4> QED BY <1>3, <1>6, <3>1, <4>1
        <3> QED BY <1>5, <1>7, <2>1, <3>1, <3>2, Zenon DEF Behind
    <2> QED BY <2>2, <2>3, <2>4
<1>10. Beside(mux') => lowered' /\ offered' # 0 /\ pc' \in {"offering", "failed"}
    <2> SUFFICES ASSUME Beside(mux') PROVE lowered'
        BY <1>1, <1>2, <1>3
    <2>1. mux.nativeApp /\ mux.child = 0 /\ ~(mux.appVersion <= Max(Embedded))
          /\ v <= Max(Embedded)
        BY <1>5, <1>7, Zenon DEF Beside
    <2>2. Max(Embedded) \in Nat
        BY <1>3, BinaryOfVersion
    <2>3. v < mux.appVersion /\ mux.appVersion > Max(Embedded)
        BY <1>3, <1>6, <2>1, <2>2
    <2>4. BinaryFor(v) # BinaryFor(mux.appVersion)
        <3>1. /\ GetForAppVersion(v) = 0 <=> v > Max(Embedded)
              /\ GetForAppVersion(v) = BinaryFor(v)
            BY <1>3, BinaryOfVersion
        <3>2. /\ GetForAppVersion(mux.appVersion) = 0 <=> mux.appVersion > Max(Embedded)
              /\ GetForAppVersion(mux.appVersion) = BinaryFor(mux.appVersion)
            BY <1>6, BinaryOfVersion
        <3>3. ~(v > Max(Embedded))
            BY <1>3, <2>1, <2>2
        <3> QED BY <2>3, <3>1, <3>2, <3>3, Zenon
    <2> QED BY <1>1, <2>3, <2>4, Zenon DEF Older, v
<1>11. ~(mux'.nativeApp /\ mux'.child # 0)
    BY <1>5, <1>7, Zenon DEF Beside
<1>12. pc' # "down" /\ pc' \notin Settled /\ pc' \in Unsettled
    BY <1>2 DEF Settled, Unsettled
<1>13. AppInv'
    BY <1>2, <1>8, <1>9, <1>10, <1>11, <1>12, Zenon DEF AppInv
<1>14. VersionInv'
    BY <1>1, <1>2, <1>3, <1>7 DEF VersionInv, v
<1>15. HeightInv'
    BY <1>0, <1>2 DEF HeightInv
<1> QED BY <1>1, <1>2, <1>3, <1>12, <1>13, <1>14, <1>15, Zenon DEF MuxInv

\* ApplySnapshotChunk: the node goes on from the height of the snapshot.
LEMMA ApplySnapshotChunkKeeps ==
    ASSUME NoGap, MuxInv, ApplySnapshotChunk
    PROVE  MuxInv'
<1>0. HeightInv /\ VersionInv /\ AppInv /\ schedule \in Schedules
    BY Zenon DEF MuxInv
<1>1. /\ pc = "ready" /\ offered # 0 /\ offered' = 0
      /\ appHeight' = offered /\ store' = offered
      /\ UNCHANGED <<mux, lock, pc, schedule, response, ran, mocked, lowered>>
    BY Zenon DEF ApplySnapshotChunk, history
<1>3. state' = [height |-> offered, app |-> schedule[offered]]
    BY DEF ApplySnapshotChunk
<1>4. state'.height = offered /\ state'.app = schedule[offered]
    BY <1>3
<1>5. mux.appVersion = schedule[offered] /\ offered \in Snapshots
    BY <1>0, <1>1, Zenon DEF VersionInv
<1>6. offered \in DOMAIN schedule /\ offered \in Nat
    BY <1>0, <1>5, Schedule, Zenon DEF MuxInv
<1>2. /\ Formed(mux) /\ ~Switches(mux) /\ ~Beside(mux) /\ lock = "free"
      /\ ~lowered => Behind(mux)
    <2>1. pc \in Settled /\ pc \notin {"offering", "failed"} /\ pc \notin Unsettled
        BY <1>1 DEF Settled, Unsettled
    <2> QED BY <1>0, <2>1, Zenon DEF AppInv
<1>7. mux.appVersion \in Nat
    BY <1>2 DEF Formed, MuxRecord
<1>8. VersionInv'
    <2>1. mux'.appVersion = state'.app /\ mux'.appVersion <= state'.app
        BY <1>1, <1>4, <1>5, <1>7
    <2> QED BY <1>1, <2>1 DEF VersionInv
<1>9. HeightInv'
    BY <1>1, <1>4, <1>6 DEF HeightInv
<1>10. state' = [height |-> state'.height, app |-> schedule'[state'.height]]
    BY <1>1, <1>3, <1>4
<1>11. AppInv'
    <2>1. (lowered' <=> lowered) /\ pc' # "down"
        BY <1>1
    <2> QED BY <1>1, <1>2, <2>1, Zenon DEF AppInv
<1>12. offered' \in Nat
    BY <1>1
<1> QED BY <1>1, <1>8, <1>9, <1>10, <1>11, <1>12, Zenon DEF MuxInv

\* Every step keeps the invariant.
LEMMA StepKeeps ==
    ASSUME NoGap, MuxInv, [MuxNext]_muxVars
    PROVE  MuxInv'
<1>1. CASE Start \/ Handshake \/ SaveBlock \/ FinalizeBlock
    BY <1>1, StartKeeps, HandshakeKeeps, SaveBlockKeeps, FinalizeBlockKeeps, Zenon
<1>2. CASE SaveResponse \/ CommitApp \/ Commit \/ CommitUpgraded \/ OfferAnswered \/ SaveState
    BY <1>2, SaveResponseKeeps, CommitAppKeeps, CommitKeeps, SwitchedKeeps, SaveStateKeeps, Zenon
<1>3. CASE OfferSnapshot \/ ApplySnapshotChunk \/ Crash \/ Stop
    BY <1>3, OfferSnapshotKeeps, ApplySnapshotChunkKeeps, DownKeeps, Zenon
<1>4. CASE Query \/ QueryHandle \/ QueryCall
    BY <1>4, QueryKeeps, Zenon
<1>5. CASE \E c \in {"consensus", "query"} : StopRunning(c) \/ StartNext(c)
    BY <1>5, StopRunningKeeps, StartNextKeeps, Zenon
<1>6. CASE UNCHANGED muxVars
    <2>1. /\ UNCHANGED <<mux, lock, pc, schedule, store, state, response, offered>>
          /\ UNCHANGED <<appHeight, query, ran, mocked, lowered>>
        BY <1>6, Zenon DEF muxVars, cometVars, history
    <2>2. (lowered' <=> lowered) /\ (mocked' <=> mocked)
        BY <2>1
    <2>3. AppInv'
        BY <2>1, <2>2, Zenon DEF MuxInv, AppInv
    <2>4. VersionInv'
        BY <2>1, <2>2, Zenon DEF MuxInv, VersionInv
    <2>5. HeightInv'
        BY <2>1, Zenon DEF MuxInv, HeightInv
    <2> QED BY <2>1, <2>3, <2>4, <2>5, Zenon DEF MuxInv
<1>7. "consensus" \in {"consensus", "query"} /\ "query" \in {"consensus", "query"}
    OBVIOUS
<1> QED BY <1>1, <1>2, <1>3, <1>4, <1>5, <1>6, <1>7, Zenon DEF MuxNext, Consensus, Querying, StateSync

-----------------------------------------------------------------------------
(* The theorems                                                            *)

\* The invariant on which the other theorems rest.
THEOREM MuxInvariant ==
    ASSUME NoGap
    PROVE  MuxSpec => []MuxInv
<1>1. MuxInit => MuxInv
    BY InitInv
<1>2. MuxInv /\ [MuxNext]_muxVars => MuxInv'
    BY StepKeeps
<1> QED BY <1>1, <1>2, PTL DEF MuxSpec

\* The application's database has one owner: whatever upgrades, crashes, restarts, failed
\* switches, restored snapshots and queries come together, getApp never leaves the native
\* application and an embedded binary running side by side, except while a snapshot of an
\* older binary is on offer; and started says whether one runs.
THEOREM OneApplicationRuns ==
    ASSUME NoGap
    PROVE  MuxSpec => []OneApplication
<1>1. MuxInv => OneApplication
    <2> SUFFICES ASSUME MuxInv PROVE OneApplication
        OBVIOUS
    <2>1. /\ state.height \in Nat /\ appHeight \in {state.height, state.height + 1}
          /\ appHeight <= store
        BY Zenon DEF MuxInv, HeightInv
    <2>2. state.height <= appHeight
        BY <2>1
    <2>3. Formed(mux)
        BY Zenon DEF MuxInv, AppInv
    <2>4. pc = "ready" => mux.started
        <3>1. pc = "ready" => ~Switches(mux)
            <4>1. "ready" \in Settled
                BY DEF Settled
            <4> QED BY <4>1, Zenon DEF MuxInv, AppInv
        <3>2. mux.nativeApp => mux.started
            BY <2>3, Zenon DEF Formed
        <3> QED BY <3>1, <3>2, Zenon DEF Switches
    <2>5. MuxTypeOK
        BY <2>1, <2>2, <2>3, <2>4, Zenon DEF MuxTypeOK, Formed
    <2>6. mux.nativeApp /\ mux.child # 0 => lowered /\ offered # 0
        BY Zenon DEF MuxInv, AppInv, Beside
    <2> QED BY <2>5, <2>6, Zenon DEF OneApplication
<1> QED BY <1>1, MuxInvariant, PTL

\* FinalizeBlock hands a block to the binary of the version the chain is at, unless the
\* handshake of this start replayed a block to a mock, which the multiplexer does not see, or
\* a snapshot of an older binary was offered; OfferSnapshot leaves a snapshot to the binary
\* of its version.
THEOREM BlocksRunOnTheirVersion ==
    ASSUME NoGap
    PROVE  MuxSpec => []WrongBinaryOnlyAfterMock
<1>1. MuxInv => WrongBinaryOnlyAfterMock
    <2> SUFFICES ASSUME MuxInv PROVE WrongBinaryOnlyAfterMock
        OBVIOUS
    <2>1. ASSUME offered # 0, pc = "ready", ~lowered
          PROVE  Serving(mux) = BinaryFor(schedule[offered])
        <3>1. mux.appVersion = schedule[offered]
            BY <2>1, Zenon DEF MuxInv, VersionInv
        <3>2. pc \in Settled
            BY <2>1 DEF Settled
        <3>3. Formed(mux) /\ ~Switches(mux) /\ Behind(mux)
            BY <2>1, <3>2, Zenon DEF MuxInv, AppInv
        <3> QED BY <3>1, <3>3, SettledServes, Zenon
    <2>2. ran.height > 0 /\ ~ran.mocked /\ ~ran.lowered
             => ran.binary = BinaryFor(schedule[ran.height - 1])
        BY Zenon DEF MuxInv
    <2> QED BY <2>1, <2>2, Zenon DEF WrongBinaryOnlyAfterMock
<1> QED BY <1>1, MuxInvariant, PTL
=============================================================================
