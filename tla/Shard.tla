------------------------------- MODULE Shard -------------------------------
(***************************************************************************)
(* The storage layer of internal/shard/shard.go: one key-value store per   *)
(* file of a directory, or a single one, and the routing of every key to   *)
(* one of them.  A store does what the KV contract says (modules KVMap and *)
(* KVStore); a call that returns an error may have taken effect or not.    *)
(***************************************************************************)
EXTENDS Integers, Sequences

CONSTANTS
    Keys, Vals, NoVal,   \* what a caller stores
    Strategy,            \* "single", "hash", "range" or another value
    Files,               \* the number of files, at least one
    Hash(_),             \* crc32.ChecksumIEEE of a key
    RangeOf(_)           \* the shard of the first range a key lies in, or 0

ASSUME FilesAssumption == Files \in Nat \ {0}
ASSUME HashAssumption == \A k \in Keys : Hash(k) \in Nat
ASSUME NoValAssumption == NoVal \notin Vals

VARIABLES
    stores,   \* stores[i]: the contents of file i, a function on the keys it has
    open      \* the files that are open

Shards == 1 .. Files

shardForKey(k) ==
    IF Strategy = "hash" THEN (Hash(k) % Files) + 1
    ELSE IF Strategy # "range" THEN 1
    ELSE IF RangeOf(k) # 0 THEN RangeOf(k) ELSE Files

\* A range may name a shard there is no file for: every call on the key panics.
Reachable(k) == shardForKey(k) \in Shards

\* Get
Has(k) == Reachable(k) /\ k \in DOMAIN stores[shardForKey(k)]
Value(k) == stores[shardForKey(k)][k]
Get(k) == IF Has(k) THEN Value(k) ELSE NoVal

Without(f, k) == [x \in DOMAIN f \ {k} |-> f[x]]
With(f, k, v) == [x \in DOMAIN f \cup {k} |-> IF x = k THEN v ELSE f[x]]

ShardInit ==
    /\ stores = [i \in Shards |-> <<>>]
    /\ open = {}

\* Mutant: the files are created anew.
Open_Truncates ==
    /\ open = {}
    /\ open' = Shards
    /\ stores' = [i \in Shards |-> <<>>]

Open ==
    /\ open = {}
    /\ open' = Shards
    /\ UNCHANGED stores

\* A store refuses its file: the ones opened before it are closed again.
OpenFails ==
    /\ open = {}
    /\ UNCHANGED <<stores, open>>

Set(k, v) ==
    /\ Reachable(k) /\ shardForKey(k) \in open
    /\ stores' = [stores EXCEPT ![shardForKey(k)] = With(@, k, v)]
    /\ UNCHANGED open

Del(k) ==
    /\ Reachable(k) /\ shardForKey(k) \in open /\ Has(k)
    /\ stores' = [stores EXCEPT ![shardForKey(k)] = Without(@, k)]
    /\ UNCHANGED open

\* Close stops at the first file that fails, and leaves those behind it open.
Close ==
    /\ open = Shards
    /\ \E i \in Shards : open' = {} \/ open' = {j \in Shards : j > i}
    /\ UNCHANGED stores

\* The process is gone; what the calls before did is in the files.
Exit ==
    /\ open' = {}
    /\ UNCHANGED stores

ShardNext ==
    \/ Open \/ OpenFails \/ Close \/ Exit
    \/ \E k \in Keys : Del(k) \/ \E v \in Vals : Set(k, v)

ShardSpec == ShardInit /\ [][ShardNext]_<<stores, open>>

AllKeys == Keys
AllVals == Vals
Map == INSTANCE KVMap WITH Keys <- AllKeys, Vals <- AllVals, map <- [k \in AllKeys |-> Get(k)]

\* What Set and Del promise of the key they are given.
Effect ==
    \A k \in AllKeys :
        /\ \A v \in AllVals : Set(k, v) => Get(k)' = v
        /\ Del(k) => Get(k)' = NoVal

\* The files together are one map: Get finds what the last Set or Del of the key
\* left, whichever shard the other keys are in, whatever has failed and after any
\* number of restarts.
StoreIsMap == Map!Spec /\ [][Effect]_<<stores, open>>
=============================================================================
