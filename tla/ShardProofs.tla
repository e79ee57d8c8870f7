---------------------------- MODULE ShardProofs ----------------------------
(***************************************************************************)
(* The files of a sharded database are one map, for every number of files, *)
(* every strategy, hash and set of ranges, and any sets of keys and values.*)
(***************************************************************************)
EXTENDS Shard, TLAPS

\* The inductive invariant: there is one store per file.
StorePerFile == DOMAIN stores = Shards

contents == [k \in AllKeys |-> Get(k)]

\* Get of a key depends on the store the key is routed to, and on no other.
LEMMA GetIsLocal ==
    ASSUME StorePerFile, NEW k \in Keys, NEW i \in Shards, NEW f,
           stores' = [stores EXCEPT ![i] = f],
           i = shardForKey(k) => (k \in DOMAIN f <=> Has(k)) /\ (Has(k) => f[k] = Value(k))
    PROVE  Get(k)' = Get(k)
<1>1. DOMAIN stores' = Shards /\ stores'[i] = f /\ \A j \in Shards : j # i => stores'[j] = stores[j]
  BY DEF StorePerFile
<1>2. CASE ~Reachable(k)
  BY <1>2 DEF Get, Has, Reachable, shardForKey, Shards
<1>3. CASE Reachable(k) /\ i # shardForKey(k)
  <2>1. stores'[shardForKey(k)] = stores[shardForKey(k)]
    BY <1>1, <1>3 DEF Reachable
  <2> QED
    BY <2>1, <1>3 DEF Get, Has, Value, Reachable, shardForKey, Shards
<1>4. CASE Reachable(k) /\ i = shardForKey(k)
  BY <1>1, <1>4 DEF Get, Has, Value, Reachable, shardForKey, Shards
<1> QED
  BY <1>2, <1>3, <1>4

\* A Set of one key is a Set of the map.
LEMMA SetStep ==
    ASSUME StorePerFile, NEW k \in Keys, NEW v \in Vals, Set(k, v)
    PROVE  /\ StorePerFile'
           /\ Get(k)' = v
           /\ Map!Set(k)
<1> DEFINE i == shardForKey(k)
           f == With(stores[i], k, v)
<1>1. i \in Shards /\ stores' = [stores EXCEPT ![i] = f]
  BY DEF Set, Reachable
<1>2. StorePerFile'
  BY <1>1 DEF StorePerFile, Shards
<1>3. stores'[i] = f
  BY <1>1 DEF StorePerFile
<1>4. Get(k)' = v
  <2>1. DOMAIN f = DOMAIN stores[i] \cup {k} /\ f[k] = v
    BY DEF With
  <2>2. shardForKey(k)' = i /\ Reachable(k)'
    BY <1>1 DEF Reachable, shardForKey, Shards
  <2> QED
    BY <1>3, <2>1, <2>2 DEF Get, Has, Value
<1>5. ASSUME NEW x \in Keys, x # k
      PROVE  Get(x)' = Get(x)
  <2>1. DOMAIN f = DOMAIN stores[i] \cup {k} /\ \A y \in DOMAIN stores[i] : y # k => f[y] = stores[i][y]
    BY DEF With
  <2>2. i = shardForKey(x) => (x \in DOMAIN f <=> Has(x)) /\ (Has(x) => f[x] = Value(x))
    BY <1>1, <1>5, <2>1 DEF Has, Value, Reachable
  <2> HIDE DEF f, i
  <2> QED
    BY <1>1, <2>2, GetIsLocal, Zenon
<1>6. contents' = [contents EXCEPT ![k] = v]
  BY <1>4, <1>5, Zenon DEF contents, AllKeys
<1>7. contents'[k] = v
  BY <1>4 DEF contents, AllKeys
<1> QED
  BY <1>2, <1>4, <1>6, <1>7, Zenon DEF Map!Set, contents, AllVals

\* A Del of one key is a Del of the map, or changes nothing.
LEMMA DelStep ==
    ASSUME StorePerFile, NEW k \in Keys, Del(k)
    PROVE  /\ StorePerFile'
           /\ Get(k)' = NoVal
           /\ Map!Del(k) \/ UNCHANGED contents
<1> DEFINE i == shardForKey(k)
           f == Without(stores[i], k)
<1>1. i \in Shards /\ stores' = [stores EXCEPT ![i] = f]
  BY DEF Del, Reachable
<1>2. StorePerFile'
  BY <1>1 DEF StorePerFile, Shards
<1>3. stores'[i] = f
  BY <1>1 DEF StorePerFile
<1>4. Get(k)' = NoVal
  <2>1. k \notin DOMAIN f
    BY DEF Without
  <2>2. shardForKey(k)' = i
    BY DEF shardForKey
  <2> QED
    BY <1>3, <2>1, <2>2 DEF Get, Has
<1>5. ASSUME NEW x \in Keys, x # k
      PROVE  Get(x)' = Get(x)
  <2>1. DOMAIN f = DOMAIN stores[i] \ {k} /\ \A y \in DOMAIN stores[i] : y # k => f[y] = stores[i][y]
    BY DEF Without
  <2>2. i = shardForKey(x) => (x \in DOMAIN f <=> Has(x)) /\ (Has(x) => f[x] = Value(x))
    BY <1>1, <1>5, <2>1 DEF Has, Value, Reachable
  <2> HIDE DEF f, i
  <2> QED
    BY <1>1, <2>2, GetIsLocal, Zenon
<1>6. contents' = [contents EXCEPT ![k] = NoVal]
  BY <1>4, <1>5, Zenon DEF contents, AllKeys
<1>7. CASE Get(k) = NoVal
  <2>1. contents[k] = NoVal
    BY <1>7 DEF contents, AllKeys
  <2>2. UNCHANGED contents
    BY <1>6, <2>1, Zenon DEF contents, AllKeys
  <2> QED
    BY <1>2, <1>4, <2>2
<1>8. CASE Get(k) # NoVal
  BY <1>2, <1>4, <1>6, <1>8 DEF Map!Del, contents, AllKeys
<1> QED
  BY <1>7, <1>8

\* No other step touches a store, or what Get finds.
LEMMA QuietStep ==
    ASSUME StorePerFile, UNCHANGED stores
    PROVE  StorePerFile' /\ UNCHANGED contents
<1>1. \A k : UNCHANGED <<shardForKey(k), Reachable(k)>>
  BY DEF shardForKey, Reachable, Shards
<1>2. \A k : UNCHANGED Get(k)
  BY <1>1 DEF Get, Has, Value
<1> QED
  BY <1>2 DEF StorePerFile, Shards, contents, AllKeys

\* StoreIsMap for all constants: Set and Del change what Get finds of their own
\* key, as promised, and of no other, and opening, closing (also half-way) and the
\* end of the process change nothing.
THEOREM ShardIsMap == ShardSpec => StoreIsMap
<1>1. ShardInit => StorePerFile /\ Map!Init
  BY DEF ShardInit, StorePerFile, Map!Init, Get, Has, Reachable, AllKeys
<1>2. ASSUME StorePerFile, [ShardNext]_<<stores, open>>
      PROVE  /\ StorePerFile'
             /\ [Map!Next]_contents
             /\ [Effect]_<<stores, open>>
  <2>1. StorePerFile' /\ [Map!Next]_contents
    <3>1. CASE UNCHANGED stores
      BY <1>2, <3>1, QuietStep
    <3>2. ASSUME NEW k \in Keys, NEW v \in Vals, Set(k, v)
          PROVE  StorePerFile' /\ [Map!Next]_contents
      BY <1>2, <3>2, SetStep DEF Map!Next, AllKeys
    <3>3. ASSUME NEW k \in Keys, Del(k)
          PROVE  StorePerFile' /\ [Map!Next]_contents
      BY <1>2, <3>3, DelStep DEF Map!Next, AllKeys
    <3> QED
      BY <1>2, <3>1, <3>2, <3>3 DEF ShardNext, Open, OpenFails, Close, Exit
  <2>2. Effect
    BY <1>2, SetStep, DelStep DEF Effect, AllKeys, AllVals
  <2> QED
    BY <2>1, <2>2
<1> QED
  BY <1>1, <1>2, PTL DEF ShardSpec, StoreIsMap, Map!Spec, contents
=============================================================================
