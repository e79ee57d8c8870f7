-------------------------- MODULE TxManagerProofs --------------------------
(***************************************************************************)
(* Theorems about the transaction manager, for any set of transactions,    *)
(* keys, values and isolation levels and any bounds.                       *)
(***************************************************************************)
EXTENDS TxManager, TLAPS, WellFoundedInduction, NaturalsInduction

(***************************************************************************)
(* Lemmas about the helpers                                                *)
(***************************************************************************)

\* A non-empty set of naturals has a least element.
LEMMA LeastExists ==
    ASSUME NEW S \in SUBSET Nat, S # {}
    PROVE  \E m \in S : \A v \in S : m <= v
<1>1. IsWellFoundedOn(OpToRel(<, Nat), Nat)
  BY NatLessThanWellFounded, Zenon
<1>2. PICK m \in S : \A v \in S : <<v, m>> \notin OpToRel(<, Nat)
  BY <1>1, WFMin, Zenon
<1>3. \A v \in S : ~(v < m)
  BY <1>2, Zenon DEF OpToRel
<1> QED
  BY <1>3

\* updateMinVer returns the least of the current and the ongoing versions.
LEMMA MinVerLeast ==
    ASSUME NEW ver \in Nat, NEW ong \in SUBSET Nat
    PROVE  /\ updateMinVer(ver, ong) \in ong \cup {ver}
           /\ \A v \in ong \cup {ver} : updateMinVer(ver, ong) <= v
<1>1. \E m \in ong \cup {ver} : \A v \in ong \cup {ver} : m <= v
  BY LeastExists
<1> QED
  BY <1>1, Zenon DEF updateMinVer

\* trimHistory returns a tail of the history, and everything in front of that
\* tail is older than the minimum.
LEMMA TrimDropsOld ==
    ASSUME NEW h \in Seq(CommittedTX), NEW minv \in Nat
    PROVE  /\ trimHistory(h, minv) \in Seq(CommittedTX)
           /\ \E d \in 0 .. Len(h) :
                /\ Len(trimHistory(h, minv)) = Len(h) - d
                /\ \A i \in 1 .. Len(h) - d : trimHistory(h, minv)[i] = h[d + i]
                /\ \A i \in 1 .. d : h[i].version < minv
<1> DEFINE reach == {i \in 1 .. Len(h) : h[i].version >= minv}
           cut == CHOOSE i \in reach : \A j \in reach : i <= j
<1>1. CASE reach = {}
  <2>1. trimHistory(h, minv) = h
    BY <1>1 DEF trimHistory
  <2> QED
    BY <2>1
<1>2. CASE reach # {}
  <2>1. cut \in reach /\ \A j \in reach : cut <= j
    <3>1. reach \in SUBSET Nat
      OBVIOUS
    <3> HIDE DEF reach
    <3>2. \E i \in reach : \A j \in reach : i <= j
      BY <1>2, <3>1, LeastExists
    <3> QED
      BY <3>2
  <2>2. trimHistory(h, minv) = SubSeq(h, cut, Len(h))
    BY <1>2, Zenon DEF trimHistory
  <2>3. cut \in 1 .. Len(h)
    BY <2>1
  <2> HIDE DEF cut
  <2>4. \A i \in 1 .. cut - 1 : h[i].version < minv
    <3> SUFFICES ASSUME NEW i \in 1 .. cut - 1 PROVE h[i].version < minv
      OBVIOUS
    <3>1. i \in 1 .. Len(h) /\ i \notin reach
      BY <2>1, <2>3
    <3>2. h[i] \in CommittedTX
      BY <3>1
    <3>3. h[i].version \in Nat
      BY <3>2 DEF CommittedTX
    <3> QED
      BY <3>1, <3>3
  <2>5. SubSeq(h, cut, Len(h)) \in Seq(CommittedTX)
    BY <2>3
  <2>6. /\ Len(SubSeq(h, cut, Len(h))) = Len(h) - (cut - 1)
        /\ \A i \in 1 .. Len(h) - (cut - 1) :
              SubSeq(h, cut, Len(h))[i] = h[(cut - 1) + i]
    BY <2>3
  <2>7. cut - 1 \in 0 .. Len(h)
    BY <2>3
  <2> QED
    BY <2>2, <2>4, <2>5, <2>6, <2>7, Zenon
<1> QED
  BY <1>1, <1>2

(***************************************************************************)
(* Type correctness                                                        *)
(***************************************************************************)

\* While a Commit holds the mutex its transaction is unfinished, the keys left
\* to write are pending ones, and those already written hold its values.
CommitRunning ==
    mu # NoTx =>
        /\ tx[mu].status = "active"
        /\ todo \subseteq WriteSet(mu)
        /\ \A k \in WriteSet(mu) \ todo : store[k] = tx[mu].pending[k]

\* Finishing a transaction, adding to its reads and writing one of its keys
\* keep the type of tx.
LEMMA TxUpdate ==
    ASSUME tx \in [Txs -> Tx], NEW t \in Txs
    PROVE  /\ [tx EXCEPT ![t].status = "committed"] \in [Txs -> Tx]
           /\ [tx EXCEPT ![t].status = "aborted"] \in [Txs -> Tx]
           /\ \A r \in KeyRange :
                [tx EXCEPT ![t].reads = @ \cup {r}] \in [Txs -> Tx]
           /\ \A k \in Keys, w \in Vals \cup {Nil} :
                [tx EXCEPT ![t].pending[k] = w] \in [Txs -> Tx]
<1>1. [tx EXCEPT ![t].status = "committed"] \in [Txs -> Tx]
  BY Zenon DEF Tx
<1>2. [tx EXCEPT ![t].status = "aborted"] \in [Txs -> Tx]
  BY DEF Tx
<1>3. ASSUME NEW r \in KeyRange
      PROVE  [tx EXCEPT ![t].reads = @ \cup {r}] \in [Txs -> Tx]
  BY SMTT(20) DEF Tx
<1>4. ASSUME NEW k \in Keys, NEW w \in Vals \cup {Nil}
      PROVE  [tx EXCEPT ![t].pending[k] = w] \in [Txs -> Tx]
  <2>1. [tx[t].pending EXCEPT ![k] = w] \in [Keys -> Vals \cup {Nil, Unset}]
    BY DEF Tx
  <2>2. [tx[t] EXCEPT !.pending = [tx[t].pending EXCEPT ![k] = w]] \in Tx
    BY <2>1, Zenon DEF Tx
  <2> QED
    BY <2>2
<1> QED
  BY <1>1, <1>2, <1>3, <1>4

\* Every step of the manager keeps the types: in particular updateMinVer and
\* trimHistory, both defined by a choice, return a natural and a history.
LEMMA TypeStep ==
    ASSUME TypeOK, CommitRunning, [Next]_vars
    PROVE  TypeOK'
<1> USE DEF TypeOK
<1>1. CASE UNCHANGED vars
  BY <1>1 DEF vars
<1>2. ASSUME NEW t \in Txs, NEW isolation \in Isolations, Begin(t, isolation)
      PROVE  TypeOK'
  <2>1. tx' \in [Txs -> Tx]
    BY <1>2 DEF Begin, Tx
  <2>2. version' \in Nat /\ ongoing' \subseteq Nat
    BY <1>2 DEF Begin
  <2>3. UNCHANGED <<history, minVer, mu, todo, store, log>>
    BY <1>2 DEF Begin
  <2> QED
    BY <2>1, <2>2, <2>3
<1>3. ASSUME NEW t \in Txs, CommitConflict(t)
      PROVE  TypeOK'
  <2>1. tx' \in [Txs -> Tx]
    BY <1>3, TxUpdate, Zenon DEF CommitConflict
  <2>2. ongoing' \subseteq Nat
    BY <1>3 DEF CommitConflict
  <2>3. UNCHANGED <<version, history, minVer, mu, todo, store, log>>
    BY <1>3 DEF CommitConflict
  <2> QED
    BY <2>1, <2>2, <2>3
<1>4. ASSUME NEW t \in Txs, CommitReadOnly(t)
      PROVE  TypeOK'
  <2>1. ongoing' \in SUBSET Nat
    BY <1>4 DEF CommitReadOnly
  <2>2. minVer' \in Nat
    BY <1>4, <2>1, MinVerLeast DEF CommitReadOnly
  <2>3. tx' \in [Txs -> Tx]
    BY <1>4, TxUpdate, Zenon DEF CommitReadOnly
  <2>4. UNCHANGED <<version, history, mu, todo, store, log>>
    BY <1>4 DEF CommitReadOnly
  <2> QED
    BY <2>1, <2>2, <2>3, <2>4
<1>5. ASSUME NEW t \in Txs, CommitStart(t)
      PROVE  TypeOK'
  <2>1. [version |-> tx[t].version, writes |-> WriteSet(t)] \in CommittedTX
    BY DEF Tx, WriteSet, CommittedTX
  <2> QED
    BY <1>5, <2>1 DEF CommitStart, WriteSet
<1>6. ASSUME NEW t \in Txs, NEW k \in Keys, CommitApply(t, k)
      PROVE  TypeOK'
  <2>1. mu # NoTx /\ tx[t].pending[k] \in Vals \cup {Nil}
    BY <1>6, TxsAssumption DEF CommitApply, CommitRunning, WriteSet, Tx
  <2> QED
    BY <1>6, <2>1 DEF CommitApply
<1>7. ASSUME NEW t \in Txs, NEW k \in Keys, CommitApplyFail(t, k)
      PROVE  TypeOK'
  <2>1. mu # NoTx /\ tx[t].pending[k] \in Vals \cup {Nil}
    BY <1>7, TxsAssumption DEF CommitApplyFail, CommitRunning, WriteSet, Tx
  <2> QED
    BY <1>7, <2>1 DEF CommitApplyFail
<1>8. ASSUME NEW t \in Txs, CommitFinish(t)
      PROVE  TypeOK'
  <2>1. ongoing' \in SUBSET Nat
    BY <1>8 DEF CommitFinish
  <2>2. minVer' \in Nat
    BY <1>8, <2>1, MinVerLeast DEF CommitFinish
  <2>3. history' \in Seq(CommittedTX)
    BY <1>8, <2>2, TrimDropsOld DEF CommitFinish
  <2>4. tx' \in [Txs -> Tx]
    BY <1>8, TxUpdate, Zenon DEF CommitFinish
  <2> QED
    BY <1>8, <2>1, <2>2, <2>3, <2>4 DEF CommitFinish
<1>9. ASSUME NEW t \in Txs, Abort(t)
      PROVE  TypeOK'
  <2>1. ongoing' \in SUBSET Nat
    BY <1>9 DEF Abort
  <2>2. minVer' \in Nat
    BY <1>9, <2>1, MinVerLeast DEF Abort
  <2>3. tx' \in [Txs -> Tx]
    BY <1>9, TxUpdate, Zenon DEF Abort
  <2>4. UNCHANGED <<version, history, mu, todo, store, log>>
    BY <1>9 DEF Abort
  <2> QED
    BY <2>1, <2>2, <2>3, <2>4
<1>10. ASSUME NEW t \in Txs, NEW k \in Keys, Get(t, k) \/ Seek(t, k)
       PROVE  TypeOK'
  <2>1. PointRange(k) \in KeyRange /\ [start |-> k, stop |-> 0] \in KeyRange
    BY DEF PointRange, KeyRange
  <2>2. PICK r \in KeyRange : tx' = [tx EXCEPT ![t].reads = @ \cup {r}]
    BY <1>10, <2>1 DEF Get, Seek
  <2>3. tx \in [Txs -> Tx]
    OBVIOUS
  <2>4. [tx EXCEPT ![t].reads = @ \cup {r}] \in [Txs -> Tx]
    BY <2>3, TxUpdate, Zenon
  <2> QED
    BY <1>10, <2>2, <2>4 DEF Get, Seek
<1>11. ASSUME NEW t \in Txs, NEW k \in Keys, Del(t, k)
       PROVE  TypeOK'
  <2>1. tx' \in [Txs -> Tx]
    BY <1>11, TxUpdate, Zenon DEF Del
  <2>2. UNCHANGED <<version, ongoing, history, minVer, mu, todo, store, log>>
    BY <1>11 DEF Del
  <2> QED
    BY <2>1, <2>2
<1>12. ASSUME NEW t \in Txs, NEW k \in Keys, NEW v \in Vals, Set(t, k, v)
       PROVE  TypeOK'
  <2>1. tx' \in [Txs -> Tx]
    BY <1>12, TxUpdate, Zenon DEF Set
  <2>2. UNCHANGED <<version, ongoing, history, minVer, mu, todo, store, log>>
    BY <1>12 DEF Set
  <2> QED
    BY <2>1, <2>2
<1> QED
  BY <1>1, <1>2, <1>3, <1>4, <1>5, <1>6, <1>7, <1>8, <1>9, <1>10, <1>11, <1>12
     DEF Next, CommitStep


(***************************************************************************)
(* Versions                                                                *)
(***************************************************************************)

\* The versions in play: none exceeds the counter, ongoing is exactly the set
\* of versions of unfinished transactions, no unfinished one shares its
\* version, and minVer is below them all.
VersionInv ==
    /\ minVer <= version
    /\ \A v \in ongoing : minVer <= v /\ v <= version
    /\ \A t \in Txs : tx[t].version <= version
    /\ \A t \in Txs : tx[t].status = "active" => tx[t].version \in ongoing
    /\ \A v \in ongoing :
          \E t \in Txs : tx[t].status = "active" /\ tx[t].version = v
    /\ \A t, u \in Txs :
          t # u /\ tx[t].status = "active" /\ tx[u].status # "new"
          => tx[t].version # tx[u].version

\* Finishing t, as Commit and Abort do, keeps the facts about versions,
\* whether minVer is recomputed or left alone.
LEMMA FinishVersion ==
    ASSUME TypeOK, VersionInv, NEW t \in Txs, tx[t].status = "active",
           NEW s \in {"committed", "aborted"},
           tx' = [tx EXCEPT ![t].status = s],
           ongoing' = ongoing \ {tx[t].version},
           version' = version,
           minVer' = minVer \/ minVer' = updateMinVer(version, ongoing')
    PROVE  VersionInv' /\ minVer' >= minVer
<1>1. /\ \A u \in Txs : tx'[u].version = tx[u].version
      /\ \A u \in Txs : tx'[u].status = IF u = t THEN s ELSE tx[u].status
  BY DEF TypeOK, Tx
<1>2. ongoing' \in SUBSET Nat /\ version \in Nat /\ minVer \in Nat
  BY DEF TypeOK
<1>3. minVer' = minVer \/ (minVer' \in ongoing' \cup {version}
                           /\ \A v \in ongoing' \cup {version} : minVer' <= v)
  BY <1>2, MinVerLeast
<1>4. minVer' >= minVer /\ minVer' <= version /\ minVer' \in Nat
  BY <1>2, <1>3 DEF VersionInv
<1>5. \A v \in ongoing' : minVer' <= v /\ v <= version
  BY <1>2, <1>3 DEF VersionInv
<1>6. \A u \in Txs : tx'[u].status = "active" => tx'[u].version \in ongoing'
  BY <1>1 DEF VersionInv
<1>7. ASSUME NEW v \in ongoing'
      PROVE  \E u \in Txs : tx'[u].status = "active" /\ tx'[u].version = v
  BY <1>1 DEF VersionInv
<1>8. \A u, w \in Txs :
         u # w /\ tx'[u].status = "active" /\ tx'[w].status # "new"
         => tx'[u].version # tx'[w].version
  BY <1>1 DEF VersionInv
<1> QED
  BY <1>1, <1>4, <1>5, <1>6, <1>7, <1>8 DEF VersionInv

\* The operations of a Tx: reads and pending writes, which take no lock.
TxOp(t, k) ==
    Get(t, k) \/ Seek(t, k) \/ Del(t, k) \/ \E v \in Vals : Set(t, k, v)

\* They change nothing but the reads and the pending writes of their own Tx,
\* which is not the one inside Commit.
LEMMA TxOps ==
    ASSUME TypeOK, NEW t \in Txs, NEW k \in Keys, TxOp(t, k)
    PROVE  /\ UNCHANGED <<version, ongoing, history, minVer, mu, todo, store, log>>
           /\ mu # t
           /\ \A u \in Txs : /\ tx'[u].version = tx[u].version
                             /\ tx'[u].status = tx[u].status
                             /\ u # t => tx'[u] = tx[u]
<1>1. CASE Get(t, k)
  BY <1>1 DEF Get, Usable, TypeOK, Tx
<1>2. CASE Seek(t, k)
  BY <1>2 DEF Seek, Usable, TypeOK, Tx
<1>3. CASE Del(t, k)
  BY <1>3 DEF Del, Usable, TypeOK, Tx
<1>4. ASSUME NEW v \in Vals, Set(t, k, v)
      PROVE  /\ UNCHANGED <<version, ongoing, history, minVer, mu, todo, store, log>>
             /\ mu # t
             /\ \A u \in Txs : /\ tx'[u].version = tx[u].version
                               /\ tx'[u].status = tx[u].status
                               /\ u # t => tx'[u] = tx[u]
  BY <1>4 DEF Set, Usable, TypeOK, Tx
<1> QED
  BY <1>1, <1>2, <1>3, <1>4 DEF TxOp

\* Every step keeps the facts about versions and never lowers minVer.
LEMMA VersionStep ==
    ASSUME TypeOK, CommitRunning, VersionInv, [Next]_vars
    PROVE  VersionInv' /\ minVer' >= minVer
<1>0. minVer \in Nat /\ version \in Nat /\ ongoing \in SUBSET Nat
  BY DEF TypeOK
<1>1. ASSUME UNCHANGED <<version, ongoing, minVer>>,
             \A u \in Txs : /\ tx'[u].version = tx[u].version
                            /\ tx'[u].status = tx[u].status
      PROVE  VersionInv' /\ minVer' >= minVer
  BY <1>0, <1>1 DEF VersionInv
<1>2. CASE UNCHANGED vars
  BY <1>1, <1>2 DEF vars
<1>3. ASSUME NEW t \in Txs, NEW isolation \in Isolations, Begin(t, isolation)
      PROVE  VersionInv' /\ minVer' >= minVer
  <2>1. \A u \in Txs :
           /\ tx'[u].version = IF u = t THEN version + 1 ELSE tx[u].version
           /\ tx'[u].status = IF u = t THEN "active" ELSE tx[u].status
    BY <1>3 DEF Begin, TypeOK, Tx
  <2>2. /\ version' = version + 1
        /\ ongoing' = ongoing \cup {version + 1}
        /\ minVer' = minVer
        /\ tx[t].status = "new"
    BY <1>3 DEF Begin
  <2>3. \A u \in Txs : tx[u].version \in Nat
    BY DEF TypeOK, Tx
  <2> QED
    BY <1>0, <2>1, <2>2, <2>3 DEF VersionInv
<1>4. ASSUME NEW t \in Txs, CommitConflict(t)
      PROVE  VersionInv' /\ minVer' >= minVer
  BY <1>4, FinishVersion, Zenon DEF CommitConflict
<1>5. ASSUME NEW t \in Txs, CommitReadOnly(t)
      PROVE  VersionInv' /\ minVer' >= minVer
  BY <1>5, FinishVersion, Zenon DEF CommitReadOnly
<1>6. ASSUME NEW t \in Txs, CommitStart(t)
      PROVE  VersionInv' /\ minVer' >= minVer
  BY <1>1, <1>6 DEF CommitStart
<1>7. ASSUME NEW t \in Txs, NEW k \in Keys,
             CommitApply(t, k) \/ CommitApplyFail(t, k)
      PROVE  VersionInv' /\ minVer' >= minVer
  BY <1>1, <1>7 DEF CommitApply, CommitApplyFail
<1>8. ASSUME NEW t \in Txs, CommitFinish(t)
      PROVE  VersionInv' /\ minVer' >= minVer
  <2>1. tx[t].status = "active"
    BY <1>8, TxsAssumption DEF CommitFinish, CommitRunning
  <2> QED
    BY <1>8, <2>1, FinishVersion, Zenon DEF CommitFinish
<1>9. ASSUME NEW t \in Txs, Abort(t)
      PROVE  VersionInv' /\ minVer' >= minVer
  BY <1>9, FinishVersion, Zenon DEF Abort
<1>10. ASSUME NEW t \in Txs, NEW k \in Keys, TxOp(t, k)
       PROVE  VersionInv' /\ minVer' >= minVer
  BY <1>1, <1>10, TxOps
<1> QED
  BY <1>2, <1>3, <1>4, <1>5, <1>6, <1>7, <1>8, <1>9, <1>10
     DEF Next, CommitStep, TxOp

(***************************************************************************)
(* The running Commit                                                      *)
(***************************************************************************)

\* Every step keeps what is known of the Commit that holds the mutex: the
\* operations that take no lock belong to other transactions.
LEMMA RunningStep ==
    ASSUME TypeOK, CommitRunning, [Next]_vars
    PROVE  CommitRunning'
<1>1. CASE UNCHANGED vars
  BY <1>1 DEF vars, CommitRunning, WriteSet
<1>2. ASSUME mu' = NoTx
      PROVE  CommitRunning'
  BY <1>2 DEF CommitRunning
<1>3. ASSUME NEW t \in Txs, CommitStart(t)
      PROVE  CommitRunning'
  BY <1>3 DEF CommitStart, CommitRunning, WriteSet
<1>4. ASSUME NEW t \in Txs, NEW k \in Keys, CommitApply(t, k)
      PROVE  CommitRunning'
  <2>1. mu # NoTx /\ mu' = t /\ mu = t /\ tx' = tx
    BY <1>4, TxsAssumption DEF CommitApply
  <2>2. \A j \in Keys : store'[j] = IF j = k THEN tx[t].pending[k] ELSE store[j]
    BY <1>4 DEF CommitApply, TypeOK
  <2> QED
    BY <1>4, <2>1, <2>2 DEF CommitApply, CommitRunning, WriteSet
<1>5. ASSUME NEW t \in Txs, NEW k \in Keys, TxOp(t, k)
      PROVE  CommitRunning'
  <2>1. mu' = mu /\ UNCHANGED <<todo, store>> /\ (mu # NoTx => tx'[mu] = tx[mu])
    BY <1>5, TxOps DEF TypeOK
  <2> QED
    BY <2>1 DEF CommitRunning, WriteSet
<1> QED
  BY <1>1, <1>2, <1>3, <1>4, <1>5
     DEF Next, CommitStep, TxOp, Begin, CommitConflict, CommitReadOnly,
         CommitApplyFail, CommitFinish, Abort

(***************************************************************************)
(* The conflict window                                                     *)
(***************************************************************************)

\* ConflictWindow in terms of positions, with the fact that makes it survive
\* Begin: no committed version exceeds the counter, so none reaches the
\* version Begin hands out next.
WindowInv ==
    /\ \A i \in 1 .. Len(log) : log[i].version <= version
    /\ Len(history) <= Len(log)
    /\ \A i \in 1 .. Len(history) :
          history[i] = log[(Len(log) - Len(history)) + i]
    /\ \A i \in 1 .. Len(log) - Len(history), v \in ongoing : log[i].version < v

\* Every step keeps the window: Begin adds only a version above all entries,
\* Commit extends both sequences alike, and trimHistory drops only what is
\* below the minVer computed just before.
LEMMA WindowStep ==
    ASSUME TypeOK, CommitRunning, VersionInv, WindowInv, [Next]_vars
    PROVE  WindowInv'
<1>0. /\ history \in Seq(CommittedTX) /\ log \in Seq(CommittedTX)
      /\ version \in Nat /\ ongoing \in SUBSET Nat
      /\ \A i \in 1 .. Len(log) : log[i].version \in Nat
  <2>1. /\ history \in Seq(CommittedTX) /\ log \in Seq(CommittedTX)
        /\ version \in Nat /\ ongoing \in SUBSET Nat
    BY DEF TypeOK
  <2>2. \A i \in 1 .. Len(log) : log[i] \in CommittedTX
    BY <2>1
  <2> QED
    BY <2>1, <2>2 DEF CommittedTX
<1>1. ASSUME UNCHANGED <<history, log, version>>, ongoing' \subseteq ongoing
      PROVE  WindowInv'
  BY <1>1 DEF WindowInv
<1>2. ASSUME NEW t \in Txs, NEW isolation \in Isolations, Begin(t, isolation)
      PROVE  WindowInv'
  <2>1. /\ UNCHANGED <<history, log>>
        /\ version' = version + 1
        /\ ongoing' = ongoing \cup {version + 1}
    BY <1>2 DEF Begin
  <2>2. \A i \in 1 .. Len(log) : log[i].version < version + 1
    BY <1>0 DEF WindowInv
  <2>3. Len(history) \in Nat /\ Len(log) \in Nat
    BY <1>0
  <2>4. \A i \in 1 .. Len(log) - Len(history), v \in ongoing' :
           log[i].version < v
    BY <2>1, <2>2, <2>3 DEF WindowInv
  <2>5. \A i \in 1 .. Len(log) : log[i].version <= version + 1
    BY <1>0, <2>2
  <2> QED
    BY <2>1, <2>4, <2>5 DEF WindowInv
<1>3. ASSUME NEW t \in Txs, CommitStart(t)
      PROVE  WindowInv'
  <2> DEFINE entry == [version |-> tx[t].version, writes |-> WriteSet(t)]
  <2>1. /\ entry \in CommittedTX
        /\ entry.version <= version
    BY DEF TypeOK, Tx, VersionInv, CommittedTX, WriteSet
  <2>2. /\ history' = Append(history, entry)
        /\ log' = Append(log, entry)
        /\ UNCHANGED <<version, ongoing>>
    BY <1>3 DEF CommitStart
  <2> HIDE DEF entry
  <2>3. /\ Len(history') = Len(history) + 1
        /\ Len(log') = Len(log) + 1
        /\ \A i \in 1 .. Len(history) : history'[i] = history[i]
        /\ \A i \in 1 .. Len(log) : log'[i] = log[i]
        /\ history'[Len(history) + 1] = entry
        /\ log'[Len(log) + 1] = entry
    BY <1>0, <2>1, <2>2
  <2>4. Len(history) \in Nat /\ Len(log) \in Nat
    BY <1>0
  <2>5. \A i \in 1 .. Len(log') : log'[i].version <= version'
    BY <2>1, <2>2, <2>3, <2>4 DEF WindowInv
  <2>6. \A i \in 1 .. Len(history') :
           history'[i] = log'[(Len(log') - Len(history')) + i]
    <3> SUFFICES ASSUME NEW i \in 1 .. Len(history')
                 PROVE  history'[i] = log'[(Len(log') - Len(history')) + i]
      OBVIOUS
    <3>1. Len(log') - Len(history') = Len(log) - Len(history)
      BY <2>3, <2>4
    <3>2. CASE i = Len(history) + 1
      <4>1. (Len(log) - Len(history)) + i = Len(log) + 1
        BY <2>4, <3>2
      <4> QED
        BY <2>3, <3>1, <3>2, <4>1
    <3>3. CASE i # Len(history) + 1
      <4>1. i \in 1 .. Len(history)
        BY <2>3, <2>4, <3>3
      <4>2. /\ history[i] = log[(Len(log) - Len(history)) + i]
            /\ Len(history) <= Len(log)
        BY <4>1 DEF WindowInv
      <4>3. (Len(log) - Len(history)) + i \in 1 .. Len(log)
        BY <2>4, <4>1, <4>2
      <4> QED
        BY <2>3, <3>1, <4>1, <4>2, <4>3
    <3> QED
      BY <3>2, <3>3
  <2>7. \A i \in 1 .. Len(log') - Len(history'), v \in ongoing' :
           log'[i].version < v
    BY <2>2, <2>3, <2>4 DEF WindowInv
  <2> QED
    BY <2>3, <2>4, <2>5, <2>6, <2>7 DEF WindowInv
<1>4. ASSUME NEW t \in Txs, CommitFinish(t)
      PROVE  WindowInv'
  <2>1. /\ UNCHANGED <<log, version>>
        /\ ongoing' = ongoing \ {tx[t].version}
        /\ minVer' = updateMinVer(version, ongoing')
        /\ history' = trimHistory(history, minVer')
    BY <1>4 DEF CommitFinish
  <2>2. minVer' \in Nat /\ \A v \in ongoing' : minVer' <= v
    <3>1. ongoing' \in SUBSET Nat
      BY <1>0, <2>1, Zenon
    <3>2. /\ minVer' \in ongoing' \cup {version}
          /\ \A v \in ongoing' \cup {version} : minVer' <= v
      BY <1>0, <2>1, <3>1, MinVerLeast
    <3> QED
      BY <1>0, <3>1, <3>2
  <2>3. PICK d \in 0 .. Len(history) :
           /\ Len(history') = Len(history) - d
           /\ \A i \in 1 .. Len(history) - d : history'[i] = history[d + i]
           /\ \A i \in 1 .. d : history[i].version < minVer'
    BY <1>0, <2>1, <2>2, TrimDropsOld, Zenon
  <2>4. Len(history) \in Nat /\ Len(log) \in Nat /\ d \in Nat
    BY <1>0
  <2>5. \A i \in 1 .. Len(history') :
           history'[i] = log'[(Len(log') - Len(history')) + i]
    <3> SUFFICES ASSUME NEW i \in 1 .. Len(history')
                 PROVE  history'[i] = log[(Len(log) - Len(history')) + i]
      BY <2>1, Zenon
    <3>1. history'[i] = history[d + i] /\ d + i \in 1 .. Len(history)
      BY <2>3, <2>4
    <3>2. history[d + i] = log[(Len(log) - Len(history)) + (d + i)]
      BY <3>1 DEF WindowInv
    <3>3. (Len(log) - Len(history)) + (d + i) = (Len(log) - Len(history')) + i
      BY <2>3, <2>4
    <3> QED
      BY <3>1, <3>2, <3>3
  <2>6. ASSUME NEW i \in 1 .. Len(log') - Len(history'), NEW v \in ongoing'
        PROVE  log'[i].version < v
    <3>1. CASE i <= Len(log) - Len(history)
      BY <2>1, <2>4, <3>1 DEF WindowInv
    <3>2. CASE i > Len(log) - Len(history)
      <4>1. i - (Len(log) - Len(history)) \in 1 .. d
        BY <2>1, <2>3, <2>4, <3>2
      <4> DEFINE j == i - (Len(log) - Len(history))
      <4>2. log[i] = history[j]
        <5>1. j \in 1 .. Len(history) /\ (Len(log) - Len(history)) + j = i
          BY <2>1, <2>3, <2>4, <4>1
        <5> HIDE DEF j
        <5> QED
          BY <5>1 DEF WindowInv
      <4>3. log[i].version < minVer'
        BY <2>3, <4>1, <4>2
      <4>4. log[i].version \in Nat /\ v \in Nat
        BY <1>0, <2>1, <2>3, <2>4
      <4>5. log' = log /\ minVer' \in Nat /\ minVer' <= v
        BY <2>1, <2>2, Zenon
      <4> QED
        BY <4>3, <4>4, <4>5
    <3> QED
      BY <2>1, <2>3, <2>4, <3>1, <3>2
  <2>7. Len(history') <= Len(log')
    BY <2>1, <2>3, <2>4 DEF WindowInv
  <2> QED
    BY <2>1, <2>5, <2>6, <2>7, Zenon DEF WindowInv
<1> QED
  BY <1>1, <1>2, <1>3, <1>4
     DEF Next, CommitStep, vars, CommitConflict, CommitReadOnly, CommitApply,
         CommitApplyFail, Abort, Get, Seek, Del, Set

(***************************************************************************)
(* The theorems                                                            *)
(***************************************************************************)

\* The inductive invariant.
IInv == TypeOK /\ CommitRunning /\ VersionInv /\ WindowInv

\* IInv holds initially and is kept by every step.
LEMMA Inductive ==
    /\ Init => IInv
    /\ IInv /\ [Next]_vars => IInv'
<1>1. Init => TypeOK
  BY DEF Init, TypeOK, Tx
<1>2. Init => CommitRunning /\ VersionInv /\ WindowInv
  BY DEF Init, CommitRunning, VersionInv, WindowInv
<1> QED
  BY <1>1, <1>2, TypeStep, RunningStep, VersionStep, WindowStep DEF IInv

\* The inductive invariant holds of every state Begin, Commit, Abort and the
\* operations of a Tx can reach.
LEMMA Invariance == Spec => []IInv
  BY Inductive, PTL DEF Spec

\* The manager's fields, the Tx objects and the store keep their types.
THEOREM TypeCorrect == Spec => []TypeOK
<1>1. IInv => TypeOK
  BY DEF IInv
<1> QED
  BY <1>1, Invariance, PTL

\* Commit and Abort neither leak a version nor drop that of a transaction
\* that still runs.
THEOREM OngoingIsExact == Spec => []OngoingExact
<1>1. IInv => OngoingExact
  BY DEF IInv, VersionInv, OngoingExact
<1> QED
  BY <1>1, Invariance, PTL

\* minVer never exceeds the version of a transaction that still runs.
THEOREM MinVerSafe == Spec => []MinVerBelowOngoing
<1>1. IInv => MinVerBelowOngoing
  BY DEF IInv, VersionInv, MinVerBelowOngoing
<1> QED
  BY <1>1, Invariance, PTL

\* minVer never goes back.
THEOREM MinVerNeverFalls == Spec => MinVerMonotone
<1>1. IInv /\ [Next]_vars => [minVer' >= minVer]_minVer
  BY VersionStep DEF IInv
<1> QED
  BY <1>1, Invariance, PTL DEF Spec, MinVerMonotone

\* trimHistory never drops an entry that a running transaction would have to
\* be checked against.
THEOREM WindowKept == Spec => []ConflictWindow
<1>1. IInv => ConflictWindow
  BY DEF IInv, WindowInv, ConflictWindow, Dropped
<1> QED
  BY <1>1, Invariance, PTL

\* A transaction that passes Commit at Serializable passed detectConflicts.
LEMMA AdmittedChecked ==
    ASSUME TypeOK, [Next]_vars, NEW t \in Txs, Admitted(t)
    PROVE  ~Conflicting(t)
<1>1. /\ mu = NoTx /\ mu # t
      /\ tx[t].status = "active"
      /\ mu' # mu \/ tx'[t].status # tx[t].status
      /\ mu' # t => tx'[t].status = "committed"
  BY TxsAssumption DEF Admitted
<1>2. CASE UNCHANGED vars
  BY <1>1, <1>2 DEF vars
<1>3. ASSUME NEW u \in Txs, NEW isolation \in Isolations, Begin(u, isolation)
      PROVE  ~Conflicting(t)
  <2>1. u = t
    BY <1>1, <1>3 DEF Begin, TypeOK
  <2> QED
    BY <1>1, <1>3, <2>1 DEF Begin
<1>4. ASSUME NEW u \in Txs, CommitConflict(u) \/ Abort(u)
      PROVE  ~Conflicting(t)
  <2>1. mu' = mu /\ tx' = [tx EXCEPT ![u].status = "aborted"]
    BY <1>4 DEF CommitConflict, Abort
  <2> QED
    BY <1>1, <2>1 DEF TypeOK, Tx
<1>5. ASSUME NEW u \in Txs, CommitReadOnly(u)
      PROVE  ~Conflicting(t)
  <2>1. u = t
    BY <1>1, <1>5 DEF CommitReadOnly, TypeOK
  <2> QED
    BY <1>5, <2>1 DEF CommitReadOnly
<1>6. ASSUME NEW u \in Txs, CommitStart(u)
      PROVE  ~Conflicting(t)
  BY <1>1, <1>6 DEF CommitStart
<1>7. ASSUME NEW u \in Txs, CommitStep(u)
      PROVE  ~Conflicting(t)
  BY <1>1, <1>7, TxsAssumption
     DEF CommitStep, CommitApply, CommitApplyFail, CommitFinish
<1>8. ASSUME NEW u \in Txs, NEW k \in Keys, TxOp(u, k)
      PROVE  ~Conflicting(t)
  BY <1>1, <1>8, TxOps
<1> QED
  BY <1>2, <1>3, <1>4, <1>5, <1>6, <1>7, <1>8 DEF Next, TxOp

\* What detectConflicts finds no overlap with in history is all there is to
\* look at: a younger entry of the whole log is still in history.
LEMMA CheckedUnread ==
    ASSUME IInv, NEW t \in Txs, Admitted(t), ~Conflicting(t)
    PROVE  Unread(t)
<1> SUFFICES ASSUME NEW i \in 1 .. Len(log), YoungFrom(i, tx[t].version)
             PROVE  ~rangesOverlap(tx[t].reads, log[i].writes)
  BY DEF Unread
<1> DEFINE d == Len(log) - Len(history)
<1>1. Len(log) \in Nat /\ Len(history) \in Nat
  BY DEF IInv, TypeOK
<1>2. tx[t].version \in ongoing /\ tx[t].version \in Nat
  BY DEF Admitted, IInv, VersionInv, TypeOK, Tx
<1>3. tx[t].version < log[i].version
  BY <1>1 DEF YoungFrom
<1>4. log[i].version \in Nat
  <2>1. log \in Seq(CommittedTX)
    BY DEF IInv, TypeOK
  <2>2. log[i] \in CommittedTX
    BY <2>1
  <2> QED
    BY <2>2 DEF CommittedTX
<1>5. i > d
  <2> SUFFICES ASSUME i <= d PROVE FALSE
    BY <1>1
  <2>1. log[i].version < tx[t].version
    BY <1>1, <1>2 DEF IInv, WindowInv
  <2> QED
    BY <1>2, <1>3, <1>4, <2>1
<1>6. \A j \in i - d .. Len(history) : tx[t].version < history[j].version
  <2> SUFFICES ASSUME NEW j \in i - d .. Len(history)
               PROVE  tx[t].version < history[j].version
    OBVIOUS
  <2>1. j \in 1 .. Len(history) /\ d + j \in i .. Len(log)
    BY <1>1, <1>5 DEF IInv, WindowInv
  <2>2. history[j] = log[d + j]
    BY <2>1 DEF IInv, WindowInv
  <2> QED
    BY <2>1, <2>2 DEF YoungFrom
<1>7. i - d \in 1 .. Len(history) /\ history[i - d] = log[i]
  <2>1. i - d \in 1 .. Len(history) /\ d + (i - d) = i
    BY <1>1, <1>5
  <2> QED
    BY <2>1 DEF IInv, WindowInv
<1>8. ~detectConflicts(history, tx[t])
  BY DEF Admitted, Conflicting
<1> HIDE DEF d
<1> QED
  BY <1>6, <1>7, <1>8 DEF detectConflicts, versionBefore

\* What passes the check of Commit has read nothing written by the younger
\* commits at the end of the whole commit log.
THEOREM AdmissionSound == Spec => AdmittedUnread
<1>1. IInv /\ [Next]_vars => [\A t \in Txs : Admitted(t) => Unread(t)]_vars
  BY AdmittedChecked, CheckedUnread, SMTT(20) DEF IInv
<1> QED
  BY <1>1, Invariance, PTL DEF Spec, AdmittedUnread

\* A step commits a transaction only by finishing its Commit.
LEMMA CompleteStep ==
    ASSUME TypeOK, CommitRunning, [Next]_vars, NEW t \in Txs
    PROVE  Complete(t)
<1> SUFFICES ASSUME tx[t].status = "active", tx'[t].status = "committed"
             PROVE  \A k \in WriteSet(t) : store'[k] = tx[t].pending[k]
  BY DEF Complete
<1>1. ASSUME NEW u \in Txs, CommitFinish(u)
      PROVE  \A k \in WriteSet(t) : store'[k] = tx[t].pending[k]
  <2>1. u = t
    BY <1>1 DEF CommitFinish, TypeOK, Tx
  <2> QED
    BY <1>1, <2>1, TxsAssumption DEF CommitFinish, CommitRunning
<1>2. ASSUME NEW u \in Txs, CommitReadOnly(u)
      PROVE  \A k \in WriteSet(t) : store'[k] = tx[t].pending[k]
  <2>1. u = t
    BY <1>2 DEF CommitReadOnly, TypeOK, Tx
  <2> QED
    BY <1>2, <2>1 DEF CommitReadOnly
<1>3. ASSUME NEW u \in Txs, NEW isolation \in Isolations, Begin(u, isolation)
      PROVE  FALSE
  BY <1>3 DEF Begin, TypeOK
<1>4. ASSUME NEW u \in Txs, CommitConflict(u) \/ Abort(u)
      PROVE  FALSE
  <2>1. tx' = [tx EXCEPT ![u].status = "aborted"]
    BY <1>4 DEF CommitConflict, Abort
  <2>2. tx \in [Txs -> Tx]
    BY DEF TypeOK
  <2>3. tx'[t].status \in {"active", "aborted"}
    BY <2>1, <2>2 DEF Tx
  <2> QED
    BY <2>3
<1>5. ASSUME NEW u \in Txs, NEW k \in Keys, TxOp(u, k)
      PROVE  FALSE
  BY <1>5, TxOps
<1>6. ASSUME tx' = tx
      PROVE  FALSE
  BY <1>6
<1> QED
  BY <1>1, <1>2, <1>3, <1>4, <1>5, <1>6, Zenon
     DEF Next, vars, CommitStep, CommitStart, CommitApply, CommitApplyFail, TxOp

\* Commit reports success only when every pending write is in the store.
THEOREM CommitIsComplete == Spec => CommitComplete
<1>1. IInv /\ [Next]_vars => [\A t \in Txs : Complete(t)]_vars
  BY CompleteStep DEF IInv
<1> QED
  BY <1>1, Invariance, PTL DEF Spec, CommitComplete
=============================================================================
