------------------------------- MODULE Signal -------------------------------
(***************************************************************************)
(* The x/signal keeper and the part of the application's block cycle that  *)
(* acts on it: validators signal a version, TryUpgrade tallies the power   *)
(* behind each version, and EndBlocker moves the chain to the new version  *)
(* UpgradeHeightDelay blocks after a quorum was found.                     *)
(*                                                                         *)
(* A message that returns an error is reverted by the SDK, so it is no     *)
(* step here: its checks are the guard.                                    *)
(***************************************************************************)
EXTENDS Integers, FiniteSets, FiniteSetsExt, Functions

CONSTANTS
    Validators,          \* operator addresses, numbered in store-key order
    Versions,            \* app versions a message may carry
    GenesisVersion,
    Powers,              \* consensus powers staking may assign (0: unbonded)
    UpgradeHeightDelay,  \* appconsts.GetUpgradeHeightDelay of this chain
    MaxHeight            \* bound on the heights explored

ASSUME SignalAssumption ==
    /\ Validators \subseteq Nat
    /\ IsFiniteSet(Validators)
    /\ Versions \subseteq Nat \ {0}
    /\ GenesisVersion \in Versions
    /\ Powers \subseteq Nat
    /\ 0 \in Powers
    /\ UpgradeHeightDelay \in Nat \ {0}
    /\ MaxHeight \in Nat \ {0}

VARIABLES
    stage,        \* "deliver", "ended" (after EndBlocker) or "halted"
    height,
    appVersion,   \* the version in the consensus params and block header
    signals,      \* the signal store: validator -> version (NoSignal: no key)
    upgrade,      \* the value under UpgradeKey (NoUpgrade: no key)
    plan,         \* the x/upgrade plan (NoUpgrade: none)
    done,         \* versions whose upgrade handler has run
    registered,   \* validators that staking knows
    power,        \* staking's last power of each validator (0: not bonded)
    quorumAt      \* history: the version and height of the last quorum found

chainVars == <<stage, height, appVersion, plan, done>>
signalVars == <<signals, upgrade, quorumAt>>
stakingVars == <<registered, power>>
vars == <<chainVars, signalVars, stakingVars>>

NoSignal == 0

NoUpgrade == [version |-> 0, height |-> 0]

UpgradeRecord == [version : Versions, height : Nat]

IsUpgradePending == upgrade # NoUpgrade

-----------------------------------------------------------------------------
(* Voting power.  staking sets a validator's bonded status and its last    *)
(* power together, at the end of a block, so bonded means positive power.  *)

IsBonded(v) == v \in registered /\ power[v] > 0

PowerOf(S) == SumFunctionOnSet(power, S)

GetLastTotalPower == PowerOf(Validators)

(* LegacyDec 5/6 times the total, Ceil, TruncateInt: the decimal is short  *)
(* of 5/6 by a third of 10^-18, which Ceil absorbs below 3 * 10^17 power.  *)
GetVotingPowerThreshold_floor == (5 * GetLastTotalPower) \div 6

GetVotingPowerThreshold == (5 * GetLastTotalPower + 5) \div 6

Signallers == {v \in Validators : signals[v] # NoSignal}

BondedFor(version) == {v \in Signallers : IsBonded(v) /\ signals[v] = version}

(* The validators at which the running count of TallyVotingPower, in key   *)
(* order, reaches the threshold.                                           *)
Reaching ==
    {v \in Signallers :
        /\ IsBonded(v)
        /\ PowerOf({u \in BondedFor(signals[v]) : u <= v})
               >= GetVotingPowerThreshold}

(* TallyVotingPower returns at the first validator that completes a        *)
(* quorum; it deletes the signals of the unknown validators it has passed. *)
TallyVotingPower ==
    IF Reaching = {}
    THEN [hasQuorum |-> FALSE, version |-> 0,
          visited |-> Signallers]
    ELSE [hasQuorum |-> TRUE, version |-> signals[Min(Reaching)],
          visited |-> {v \in Signallers : v <= Min(Reaching)}]

DeleteValidatorVersions(S) ==
    [v \in Validators |-> IF v \in S THEN NoSignal ELSE signals[v]]

(* The VersionTally and GetMissingValidators queries.                      *)
VersionTally(version) == PowerOf({v \in Signallers : signals[v] = version})

GetMissingValidators(version) ==
    {v \in registered : power[v] > 0 /\ signals[v] # version}

-----------------------------------------------------------------------------
(* Messages.                                                               *)

VersionAllowed(version) == version >= appVersion

SignalVersion(v, version) ==
    /\ stage = "deliver"
    /\ ~IsUpgradePending
    /\ VersionAllowed(version)
    /\ v \in registered
    /\ signals' = [signals EXCEPT ![v] = version]
    /\ UNCHANGED <<chainVars, stakingVars, upgrade, quorumAt>>

UpgradeAllowed(version) == version > appVersion

scheduledHeight_early == height + UpgradeHeightDelay - 1

scheduledHeight == height + UpgradeHeightDelay

StoreUpgrade(tally) ==
    IF tally.hasQuorum
    THEN /\ upgrade' = [version |-> tally.version, height |-> scheduledHeight]
         /\ quorumAt' = [version |-> tally.version, height |-> height]
    ELSE UNCHANGED <<upgrade, quorumAt>>

TryUpgrade ==
    LET tally == TallyVotingPower IN
    /\ stage = "deliver"
    /\ ~IsUpgradePending
    /\ tally.hasQuorum => /\ UpgradeAllowed(tally.version)
                          /\ scheduledHeight < MaxHeight
    /\ signals' = DeleteValidatorVersions(tally.visited \ registered)
    /\ StoreUpgrade(tally)
    /\ UNCHANGED <<chainVars, stakingVars>>

-----------------------------------------------------------------------------
(* The staking module, as the keeper sees it: a validator is created       *)
(* unbonded, and only one without power is removed.                        *)

CreateValidator(v) ==
    /\ stage = "deliver"
    /\ v \notin registered
    /\ registered' = registered \union {v}
    /\ UNCHANGED <<chainVars, signalVars, power>>

RemoveValidator(v) ==
    /\ stage = "deliver"
    /\ v \in registered
    /\ power[v] = 0
    /\ registered' = registered \ {v}
    /\ UNCHANGED <<chainVars, signalVars, power>>

PowerUpdates ==
    {p \in [Validators -> Powers] : \A v \in Validators \ registered : p[v] = 0}

-----------------------------------------------------------------------------
(* The block cycle.                                                        *)

ShouldUpgrade_late == IsUpgradePending /\ height > upgrade.height

ShouldUpgrade == IsUpgradePending /\ height >= upgrade.height

planHeight_late == upgrade.height + 2

planHeight == upgrade.height + 1

(* x/upgrade refuses a plan in the past and one that has been executed.    *)
ScheduleUpgradeAccepts(p) == p.height >= height /\ p.version \notin done

ResetTally ==
    /\ signals' = [v \in Validators |-> NoSignal]
    /\ upgrade' = NoUpgrade

UpgradeApp_versionKept ==
    /\ stage' = "ended"
    /\ plan' = [version |-> upgrade.version, height |-> planHeight]
    /\ ResetTally
    /\ UNCHANGED appVersion

UpgradeApp ==
    LET p == [version |-> upgrade.version, height |-> planHeight] IN
    IF ScheduleUpgradeAccepts(p)
    THEN /\ stage' = "ended"
         /\ plan' = p
         /\ appVersion' = upgrade.version
         /\ ResetTally
    ELSE /\ stage' = "halted"
         /\ UNCHANGED <<plan, appVersion, signals, upgrade>>

(* EndBlocker: the modules' end blockers run first (staking settles the    *)
(* powers), then a due upgrade to a higher version is applied.             *)
EndBlocker(p) ==
    /\ stage = "deliver"
    /\ height < MaxHeight
    /\ power' = p
    /\ IF ShouldUpgrade /\ upgrade.version > appVersion
       THEN UpgradeApp
       ELSE /\ stage' = "ended"
            /\ UNCHANGED <<plan, appVersion, signals, upgrade>>
    /\ UNCHANGED <<height, done, registered, quorumAt>>

(* PreBlocker of the next block: x/upgrade runs the handler of a due plan. *)
PreBlocker ==
    /\ stage = "ended"
    /\ stage' = "deliver"
    /\ height' = height + 1
    /\ IF plan # NoUpgrade /\ plan.height <= height + 1
       THEN /\ done' = done \union {plan.version}
            /\ plan' = NoUpgrade
       ELSE UNCHANGED <<done, plan>>
    /\ UNCHANGED <<appVersion, signalVars, stakingVars>>

EndBlock == \E p \in PowerUpdates : EndBlocker(p)

Init ==
    /\ stage = "deliver"
    /\ height = 1
    /\ appVersion = GenesisVersion
    /\ signals = [v \in Validators |-> NoSignal]
    /\ upgrade = NoUpgrade
    /\ plan = NoUpgrade
    /\ done = {}
    /\ registered \in SUBSET Validators
    /\ power \in PowerUpdates
    /\ quorumAt = NoUpgrade

Next ==
    \/ \E v \in Validators, w \in Versions : SignalVersion(v, w)
    \/ TryUpgrade
    \/ \E v \in Validators : CreateValidator(v) \/ RemoveValidator(v)
    \/ EndBlock
    \/ PreBlocker

Spec == Init /\ [][Next]_vars

(* Consensus keeps producing blocks: every block that has begun ends and   *)
(* is followed by the next.  Nobody is obliged to send a message.          *)
FairSpec == Spec /\ WF_vars(EndBlock) /\ WF_vars(PreBlocker)

-----------------------------------------------------------------------------
(* Properties.                                                             *)

SignalTypeOK ==
    /\ stage \in {"deliver", "ended", "halted"}
    /\ height \in Nat \ {0}
    /\ appVersion \in Versions
    /\ signals \in [Validators -> Versions \union {NoSignal}]
    /\ upgrade \in UpgradeRecord \union {NoUpgrade}
    /\ plan \in UpgradeRecord \union {NoUpgrade}
    /\ done \subseteq Versions
    /\ registered \subseteq Validators
    /\ power \in [Validators -> Nat]
    /\ quorumAt \in UpgradeRecord \union {NoUpgrade}

(* The upgrade that TryUpgrade has stored is to a version above the        *)
(* current one, at a height EndBlocker has not passed.  Otherwise          *)
(* EndBlocker's check (app.go) would skip it for good and IsUpgradePending *)
(* would reject every later signal.                                        *)
PendingCanApply ==
    IsUpgradePending => /\ upgrade.version > appVersion
                        /\ upgrade.height >= height
                        /\ stage = "ended" => upgrade.height > height

(* No signal in the store is for a version below the running one, across   *)
(* upgrades: SignalVersion's check and ResetTally together keep votes of   *)
(* the previous version out of the next tally.                             *)
SignalsNotStale ==
    \A v \in Validators : signals[v] # NoSignal => signals[v] >= appVersion

(* Before the first message of a block is delivered, the upgrade handler   *)
(* of the running version has run, so no message sees the new version over *)
(* unmigrated state: the plan EndBlocker schedules is due in exactly the   *)
(* next block.                                                             *)
MigratedBeforeMessages ==
    stage = "deliver" => \/ appVersion = GenesisVersion
                         \/ appVersion \in done

(* EndBlocker never fails to schedule its plan, which would halt the       *)
(* chain.                                                                  *)
ScheduleNeverFails == stage # "halted"

(* The early return of TallyVotingPower does not depend on the key order:  *)
(* a version that the whole of its signallers lift over the threshold is   *)
(* the version returned.                                                   *)
QuorumUnique ==
    GetLastTotalPower > 0 =>
        \A w \in Versions :
            PowerOf(BondedFor(w)) >= GetVotingPowerThreshold
                => TallyVotingPower.hasQuorum /\ TallyVotingPower.version = w

(* The two queries agree with each other and with the tally: the power     *)
(* behind a version and the power of the validators reported missing add   *)
(* up to the total, and the tally counts what the query shows.             *)
QueriesAgree ==
    \A w \in Versions :
        /\ VersionTally(w) + PowerOf(GetMissingValidators(w)) = GetLastTotalPower
        /\ VersionTally(w) = PowerOf(BondedFor(w))

(* TryUpgrade stores an upgrade only with five sixths of the total power   *)
(* behind it, whatever the rounding of the threshold.                      *)
QuorumIsFiveSixths ==
    [][upgrade = NoUpgrade /\ upgrade' # NoUpgrade =>
         6 * PowerOf(BondedFor(upgrade'.version)) >= 5 * GetLastTotalPower]_vars

(* What TryUpgrade acts on is a real and unique majority, and what the     *)
(* queries report: rounding, key order and validators that have left the   *)
(* set do not tell the tally and the queries apart.                        *)
QuorumSound == [](QuorumUnique /\ QueriesAgree) /\ QuorumIsFiveSixths

(* The app version only rises, and only to the version of the last quorum, *)
(* exactly UpgradeHeightDelay blocks after it was found.                   *)
UpgradeOnSchedule ==
    [][appVersion' # appVersion =>
         /\ appVersion' > appVersion
         /\ appVersion' = quorumAt.version
         /\ height = quorumAt.height + UpgradeHeightDelay]_vars

(* A stored upgrade takes place, and signalling opens again.               *)
PendingResolves ==
    \A w \in Versions :
        upgrade.version = w ~> (upgrade = NoUpgrade /\ appVersion = w)
=============================================================================
