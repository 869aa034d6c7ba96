----------------------------- MODULE ShardVault -----------------------------
(***************************************************************************)
(* What a Fibre validator promises by signing a payment promise: the shard *)
(* it was given stays retrievable until the minute of a prune time it was  *)
(* recorded with has passed, whatever uploads, downloads and prunes run    *)
(* beside it.  Only a crash (a new epoch) may take a shard early.          *)
(***************************************************************************)
EXTENDS Naturals

CONSTANTS Promises, TicksPerMinute

VARIABLES
    now,
    epoch,      \* number of crashes so far
    kept,       \* the signed promises whose shard is retrievable
    due         \* the prune minutes ever recorded for each promise

Minute(t) == t \div TicksPerMinute

VaultInit ==
    /\ now \in Nat
    /\ epoch = 0
    /\ kept = {}
    /\ due = [p \in Promises |-> {}]

\* A shard is recorded, with the minute it may be pruned after.
Store(p) ==
    /\ \E m \in due'[p] : due' = [due EXCEPT ![p] = @ \cup {m}]
    /\ kept' \in {kept, kept \cup {p}}
    /\ UNCHANGED <<now, epoch>>

\* The validator signs for a recorded shard.
Sign(p) ==
    /\ due[p] # {}
    /\ kept' = kept \cup {p}
    /\ UNCHANGED <<now, epoch, due>>

\* Shards go, none of them before its minute.
Expire ==
    /\ kept' \subseteq kept
    /\ \A p \in kept \ kept' : \E m \in due[p] : m < Minute(now)
    /\ UNCHANGED <<now, epoch, due>>

\* A crash may undo the last records, and the last removals of records.
Crash ==
    /\ epoch' = epoch + 1
    /\ kept' \in SUBSET Promises
    /\ UNCHANGED <<now, due>>

Tick ==
    /\ now' > now
    /\ UNCHANGED <<epoch, kept, due>>

VaultNext == (\E p \in Promises : Store(p) \/ Sign(p)) \/ Expire \/ Crash \/ Tick

VaultSpec == VaultInit /\ [][VaultNext]_<<now, epoch, kept, due>>
=============================================================================
