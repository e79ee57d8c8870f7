----------------------------- MODULE TxManager -----------------------------
(***************************************************************************)
(* The transaction manager of internal/transaction/tx.go: Begin, Commit    *)
(* and Abort under the manager's mutex, and the operations of a Tx, which  *)
(* take no lock.                                                           *)
(*                                                                         *)
(* Commit holds the mutex while it writes the pending keys to the KV store *)
(* one by one, and the reads of other transactions run in between, so      *)
(* Commit is split where another goroutine can observe it: CommitStart,    *)
(* one CommitApply or CommitApplyFail per key, CommitFinish.  A Tx is used *)
(* by one goroutine: it issues nothing else while its own Commit runs.     *)
(*                                                                         *)
(* The KV store is an atomic map from keys to values here; its own model   *)
(* is KVStore.  An error it returns leaves the key either unwritten        *)
(* (rolled back) or written (a failed last fsync is not rolled back).      *)
(***************************************************************************)
EXTENDS Integers, Sequences, FiniteSets

CONSTANTS
    Txs,         \* the Tx objects Begin can hand out, each used once
    Keys,        \* keys, ordered as integers; 0 is the empty key
    Vals,        \* values a client writes
    Isolations,  \* the isolation levels clients ask for
    MaxEntries,  \* bound: entries ever appended to history
    MaxReads,    \* bound: distinct ranges one Tx reads
    LateUse      \* bound: clients go on using a Tx that has finished

\* tx.go:13-17
ReadCommitted == 1
SnapshotIsolation == 2
Serializable == 3

Nil   == "nil"     \* in pending: the key is deleted; in the store: absent
Unset == "unset"   \* in pending: the transaction did not touch the key
NoTx  == "none"    \* nobody holds the manager's mutex

ASSUME KeysAssumption == Keys \subseteq Nat
ASSUME ValsAssumption == Nil \notin Vals /\ Unset \notin Vals
ASSUME TxsAssumption == NoTx \notin Txs
ASSUME IsolationsAssumption == Isolations \subseteq 0 .. Serializable
ASSUME BoundsAssumption ==
    MaxEntries \in Nat /\ MaxReads \in Nat /\ LateUse \in BOOLEAN

VARIABLES
    version,   \* Manager.version: the last version handed out
    ongoing,   \* Manager.ongoing: versions of unfinished transactions
    history,   \* Manager.history: committed write sets, oldest first
    minVer,    \* Manager.minVer
    tx,        \* the Tx objects
    mu,        \* the holder of Manager.mu inside Commit, or NoTx
    todo,      \* keys the running Commit has not yet written
    store,     \* the contents of the KV store
    log        \* ghost: every entry ever appended to history

vars == <<version, ongoing, history, minVer, tx, mu, todo, store, log>>

(***************************************************************************)
(* Types                                                                   *)
(***************************************************************************)

\* A KeyRange; a Stop of length 0 (nil, or the empty key) is written 0.
KeyRange == [start : Keys, stop : Keys \cup {0}]

CommittedTX == [version : Nat, writes : SUBSET Keys]

\* A Tx.  The two Boolean fields committed and aborted are one status field;
\* "new" is a Tx that Begin has not created yet.  reads is a set: only
\* membership of the code's list matters.  snapshot is what the root taken
\* by Begin stood for; no operation of the code reads it.
Tx == [status    : {"new", "active", "committed", "aborted"},
       version   : Nat,
       isolation : Isolations \cup {0},
       pending   : [Keys -> Vals \cup {Nil, Unset}],
       reads     : SUBSET KeyRange,
       snapshot  : [Keys -> Vals \cup {Nil}]]

\* Every variable has its type.
TypeOK ==
    /\ version \in Nat
    /\ ongoing \subseteq Nat
    /\ history \in Seq(CommittedTX)
    /\ minVer \in Nat
    /\ tx \in [Txs -> Tx]
    /\ mu \in Txs \cup {NoTx}
    /\ todo \subseteq Keys
    /\ store \in [Keys -> Vals \cup {Nil}]
    /\ log \in Seq(CommittedTX)

(***************************************************************************)
(* Helpers of the manager                                                  *)
(***************************************************************************)

\* A write set is a list of one-key ranges; it is kept as the set of keys.
PointRange(k) == [start |-> k, stop |-> k]

\* An empty Stop means "unbounded", which a one-key range of the empty key
\* also gets.
keyRangeOverlap(a, b) ==
    /\ ~(b.stop # 0 /\ a.start > b.stop)
    /\ ~(a.stop # 0 /\ b.start > a.stop)

rangesOverlap(reads, writes) ==
    \E r \in reads, k \in writes : keyRangeOverlap(r, PointRange(k))

versionBefore(a, b) == a < b

\* Mutant: the newest entry is skipped.
detectConflicts_SkipNewest(h, t) ==
    \E i \in 1 .. Len(h) - 1 :
        /\ rangesOverlap(t.reads, h[i].writes)
        /\ \A j \in i .. Len(h) - 1 : versionBefore(t.version, h[j].version)

\* Walks history from the newest entry and stops at the first one whose
\* version is not after the transaction's own.
detectConflicts(h, t) ==
    \E i \in 1 .. Len(h) :
        /\ rangesOverlap(t.reads, h[i].writes)
        /\ \A j \in i .. Len(h) : versionBefore(t.version, h[j].version)

\* Mutants: the ongoing transactions are not looked at; the minimum starts
\* from 0 when there are none.
updateMinVer_NoOngoing(ver, ong) == ver

updateMinVer_FromZero(ver, ong) ==
    IF ong = {} THEN 0 ELSE CHOOSE m \in ong : \A v \in ong : m <= v

\* The smallest of the current version and the ongoing ones.
updateMinVer(ver, ong) ==
    CHOOSE m \in ong \cup {ver} : \A v \in ong \cup {ver} : m <= v

\* Mutant: the first entry to keep is dropped as well.
trimHistory_OneMore(h, minv) ==
    LET reach == {i \in 1 .. Len(h) : h[i].version >= minv}
        cut   == CHOOSE i \in reach : \A j \in reach : i <= j
    IN IF reach = {} THEN h ELSE SubSeq(h, cut + 1, Len(h))

\* Drops what precedes the first entry whose version is at least the
\* minimum; when there is no such entry nothing is dropped.
trimHistory(h, minv) ==
    LET reach == {i \in 1 .. Len(h) : h[i].version >= minv}
        cut   == CHOOSE i \in reach : \A j \in reach : i <= j
    IN IF reach = {} THEN h ELSE SubSeq(h, cut, Len(h))

WriteSet(t) == {k \in Keys : tx[t].pending[k] # Unset}

Finished(t) == tx[t].status \in {"committed", "aborted"}

(***************************************************************************)
(* Operations under the mutex                                              *)
(***************************************************************************)

Init ==
    /\ version = 0
    /\ ongoing = {}
    /\ history = <<>>
    /\ minVer = 0
    /\ tx = [t \in Txs |-> [status    |-> "new",
                            version   |-> 0,
                            isolation |-> 0,
                            pending   |-> [k \in Keys |-> Unset],
                            reads     |-> {},
                            snapshot  |-> [k \in Keys |-> Nil]]]
    /\ mu = NoTx
    /\ todo = {}
    /\ store = [k \in Keys |-> Nil]
    /\ log = <<>>

\* Mutant: the map of pending writes is not made.
Begin_NoPending(t, isolation) ==
    /\ mu = NoTx
    /\ tx[t].status = "new"
    /\ version' = version + 1
    /\ ongoing' = ongoing \cup {version + 1}
    /\ tx' = [tx EXCEPT ![t] = [@ EXCEPT !.status = "active",
                                         !.version = version + 1,
                                         !.isolation = isolation,
                                         !.pending = <<>>]]
    /\ UNCHANGED <<history, minVer, mu, todo, store, log>>

Begin(t, isolation) ==
    /\ mu = NoTx
    /\ tx[t].status = "new"
    /\ version' = version + 1
    /\ ongoing' = ongoing \cup {version + 1}
    /\ tx' = [tx EXCEPT ![t] = [status    |-> "active",
                                version   |-> version + 1,
                                isolation |-> isolation,
                                pending   |-> [k \in Keys |-> Unset],
                                reads     |-> {},
                                snapshot  |-> store]]
    /\ UNCHANGED <<history, minVer, mu, todo, store, log>>

\* The serialization check of Commit.
Conflicting(t) ==
    /\ tx[t].isolation >= Serializable
    /\ detectConflicts(history, tx[t])

\* Mutant: the transaction that lost stays in ongoing.
CommitConflict_Leak(t) ==
    /\ mu = NoTx
    /\ tx[t].status = "active"
    /\ Conflicting(t)
    /\ tx' = [tx EXCEPT ![t].status = "aborted"]
    /\ UNCHANGED <<version, ongoing, history, minVer, mu, todo, store, log>>

\* Commit of a transaction that fails the check.  minVer is left as it is.
CommitConflict(t) ==
    /\ mu = NoTx
    /\ tx[t].status = "active"
    /\ Conflicting(t)
    /\ tx' = [tx EXCEPT ![t].status = "aborted"]
    /\ ongoing' = ongoing \ {tx[t].version}
    /\ UNCHANGED <<version, history, minVer, mu, todo, store, log>>

\* Commit of a transaction without pending writes.
CommitReadOnly(t) ==
    /\ mu = NoTx
    /\ tx[t].status = "active"
    /\ ~Conflicting(t)
    /\ WriteSet(t) = {}
    /\ tx' = [tx EXCEPT ![t].status = "committed"]
    /\ ongoing' = ongoing \ {tx[t].version}
    /\ minVer' = updateMinVer(version, ongoing')
    /\ UNCHANGED <<version, history, mu, todo, store, log>>

\* Commit up to the loop over pending: the write set enters history before
\* any of it is written.
CommitStart(t) ==
    /\ mu = NoTx
    /\ tx[t].status = "active"
    /\ ~Conflicting(t)
    /\ WriteSet(t) # {}
    /\ Len(log) < MaxEntries
    /\ LET entry == [version |-> tx[t].version, writes |-> WriteSet(t)]
       IN /\ history' = Append(history, entry)
          /\ log' = Append(log, entry)
    /\ mu' = t
    /\ todo' = WriteSet(t)
    /\ UNCHANGED <<version, ongoing, minVer, tx, store>>

\* One turn of the loop over pending: kv.Del or kv.Set succeeds.
CommitApply(t, k) ==
    /\ mu = t
    /\ k \in todo
    /\ store' = [store EXCEPT ![k] = tx[t].pending[k]]
    /\ todo' = todo \ {k}
    /\ UNCHANGED <<version, ongoing, history, minVer, tx, mu, log>>

\* Mutant: the loop goes on after an error.
CommitApplyFail_Continue(t, k) ==
    /\ mu = t
    /\ k \in todo
    /\ todo' = todo \ {k}
    /\ UNCHANGED <<version, ongoing, history, minVer, tx, mu, store, log>>

\* One turn of the loop over pending: the KV store returns an error, and so
\* does Commit.  The transaction stays ongoing.  kv.Del of an absent key
\* writes nothing and cannot fail.
CommitApplyFail(t, k) ==
    /\ mu = t
    /\ k \in todo
    /\ tx[t].pending[k] = Nil => store[k] # Nil
    /\ \/ UNCHANGED store
       \/ store' = [store EXCEPT ![k] = tx[t].pending[k]]
    /\ mu' = NoTx
    /\ todo' = {}
    /\ UNCHANGED <<version, ongoing, history, minVer, tx, log>>

\* Mutant: the mutex is not released.
CommitFinish_NoUnlock(t) ==
    /\ mu = t
    /\ todo = {}
    /\ tx' = [tx EXCEPT ![t].status = "committed"]
    /\ ongoing' = ongoing \ {tx[t].version}
    /\ minVer' = updateMinVer(version, ongoing')
    /\ history' = trimHistory(history, minVer')
    /\ UNCHANGED <<version, mu, todo, store, log>>

\* Commit after the loop.
CommitFinish(t) ==
    /\ mu = t
    /\ todo = {}
    /\ tx' = [tx EXCEPT ![t].status = "committed"]
    /\ ongoing' = ongoing \ {tx[t].version}
    /\ minVer' = updateMinVer(version, ongoing')
    /\ history' = trimHistory(history, minVer')
    /\ mu' = NoTx
    /\ UNCHANGED <<version, todo, store, log>>

Abort(t) ==
    /\ mu = NoTx
    /\ tx[t].status = "active"
    /\ tx' = [tx EXCEPT ![t].status = "aborted"]
    /\ ongoing' = ongoing \ {tx[t].version}
    /\ minVer' = updateMinVer(version, ongoing')
    /\ UNCHANGED <<version, history, mu, todo, store, log>>

(***************************************************************************)
(* Operations of a Tx.  They take no lock, so they run while another       *)
(* transaction's Commit is half done, and none of them looks at committed  *)
(* or aborted, so they also work on a finished Tx.                         *)
(***************************************************************************)

Usable(t) ==
    /\ tx[t].status # "new"
    /\ mu # t
    /\ Finished(t) => LateUse

\* What Get returns: the transaction's own write, or the live store.
GetResult(t, k) ==
    IF tx[t].pending[k] # Unset THEN tx[t].pending[k] ELSE store[k]

Get(t, k) ==
    /\ Usable(t)
    /\ Cardinality(tx[t].reads) < MaxReads
    /\ tx' = [tx EXCEPT ![t].reads = @ \cup {PointRange(k)}]
    /\ UNCHANGED <<version, ongoing, history, minVer, mu, todo, store, log>>

Set(t, k, v) ==
    /\ Usable(t)
    /\ tx' = [tx EXCEPT ![t].pending[k] = v]
    /\ UNCHANGED <<version, ongoing, history, minVer, mu, todo, store, log>>

Del(t, k) ==
    /\ Usable(t)
    /\ tx' = [tx EXCEPT ![t].pending[k] = Nil]
    /\ UNCHANGED <<version, ongoing, history, minVer, mu, todo, store, log>>

Seek(t, k) ==
    /\ Usable(t)
    /\ Cardinality(tx[t].reads) < MaxReads
    /\ tx' = [tx EXCEPT ![t].reads = @ \cup {[start |-> k, stop |-> 0]}]
    /\ UNCHANGED <<version, ongoing, history, minVer, mu, todo, store, log>>

(***************************************************************************)
(* Specification                                                           *)
(***************************************************************************)

\* The steps of a Commit that is under way.
CommitStep(t) ==
    \/ \E k \in Keys : CommitApply(t, k) \/ CommitApplyFail(t, k)
    \/ CommitFinish(t)

Next ==
    \E t \in Txs :
        \/ \E isolation \in Isolations : Begin(t, isolation)
        \/ CommitConflict(t)
        \/ CommitReadOnly(t)
        \/ CommitStart(t)
        \/ CommitStep(t)
        \/ Abort(t)
        \/ \E k \in Keys : Get(t, k) \/ Del(t, k) \/ Seek(t, k)
        \/ \E k \in Keys, v \in Vals : Set(t, k, v)

Spec == Init /\ [][Next]_vars

\* A goroutine inside Commit keeps running: nothing it waits for is held by
\* another one.  Clients need not ever commit.
FairSpec == Spec /\ \A t \in Txs : WF_vars(CommitStep(t))

(***************************************************************************)
(* Properties                                                              *)
(***************************************************************************)

\* ongoing holds exactly the versions of the transactions that have begun
\* and not finished, each version belonging to one of them: no path of
\* Commit or Abort leaks a version (which would pin history for ever) or
\* drops the version of a transaction that still runs.
OngoingExact ==
    /\ ongoing = {tx[t].version : t \in {u \in Txs : tx[u].status = "active"}}
    /\ \A t, u \in Txs :
          /\ t # u
          /\ tx[t].status = "active"
          /\ tx[u].status # "new"
          => tx[t].version # tx[u].version

\* minVer never exceeds the version of a transaction that still runs, even
\* though Begin and the conflict path of Commit leave it stale.
MinVerBelowOngoing == \A v \in ongoing : minVer <= v

\* minVer never goes back: an entry that was once old enough to drop stays so.
MinVerMonotone == [][minVer' >= minVer]_minVer

\* The entries trimHistory has dropped.
Dropped == {log[i] : i \in 1 .. Len(log) - Len(history)}

\* history is the tail of everything ever committed, and what trimHistory cut
\* off is older than every transaction that still runs: no entry that
\* detectConflicts of a running transaction would have to look at is gone.
ConflictWindow ==
    /\ Len(history) <= Len(log)
    /\ \A i \in 1 .. Len(history) :
          history[i] = log[(Len(log) - Len(history)) + i]
    /\ \A e \in Dropped, v \in ongoing : e.version < v

\* The entries of log from position i on all belong to transactions that
\* began after version v.
YoungFrom(i, v) == \A j \in i .. Len(log) : v < log[j].version

\* Commit lets a Serializable transaction through.
Admitted(t) ==
    /\ mu = NoTx
    /\ tx[t].status = "active"
    /\ tx[t].isolation >= Serializable
    /\ mu' = t \/ tx'[t].status = "committed"

\* The transaction read nothing that was written by the unbroken run of
\* younger commits at the end of the whole commit log.
Unread(t) ==
    \A i \in 1 .. Len(log) :
        YoungFrom(i, tx[t].version)
          => ~rangesOverlap(tx[t].reads, log[i].writes)

\* A transaction passes Commit at Serializable only if it read nothing that
\* was written by the unbroken run of younger commits at the end of the
\* whole commit log, trimmed or not.
AdmittedUnread == [][\A t \in Txs : Admitted(t) => Unread(t)]_vars

\* A step in which a transaction becomes committed leaves the store with
\* every one of its pending writes.
Complete(t) ==
    tx[t].status = "active" /\ tx'[t].status = "committed"
      => \A k \in WriteSet(t) : store'[k] = tx[t].pending[k]

\* When Commit reports success the store holds every pending write of the
\* transaction: no write is skipped after an error and no other commit slips
\* in between its first and its last write.
CommitComplete == [][\A t \in Txs : Complete(t)]_vars

\* A Commit that entered its write loop returns, with success or an error,
\* and releases the mutex.
CommitReturns == \A t \in Txs : mu = t ~> mu # t

(***************************************************************************)
(* What the documentation promises of reads                                *)
(***************************************************************************)

\* A transaction at snapshot isolation or above reads its own writes and
\* otherwise the store as it was at Begin.
SnapshotReads ==
    \A t \in Txs, k \in Keys :
        /\ tx[t].status = "active"
        /\ tx[t].isolation >= SnapshotIsolation
        /\ tx[t].pending[k] = Unset
        => GetResult(t, k) = tx[t].snapshot[k]
=============================================================================
