--------------------------- MODULE KVStoreProofs ---------------------------
(***************************************************************************)
(* Theorems about the commit protocol of the key-value store, for any      *)
(* tree, keys, sync modes and bounds.  The tree is asked for one thing: a  *)
(* call of it gives back a database record with the file it was given.     *)
(***************************************************************************)
EXTENDS KVStore, TLAPS

\* The inductive invariant: the fsync between the pages and the meta page has
\* happened whenever the meta page is about to be written.
CommitInv ==
    /\ errors \in Nat
    /\ mode \in {SyncOff, SyncNormal, SyncFull}
    /\ "file" \in DOMAIN st /\ DOMAIN st.file \subseteq Int
    /\ pc \in {"closed", "idle"} => op = NoOp
    /\ (pc = "meta" /\ mode # SyncOff) => disk = Synced(st.file)
    /\ pc = "sync2" => mode # SyncOff
    /\ CommitOrder

(***************************************************************************)
(* Lemmas about the helpers                                                *)
(***************************************************************************)

\* Writes leave page numbers.
LEMMA WriteAtDomain ==
    ASSUME NEW file, NEW writes, DOMAIN file \subseteq Int
    PROVE  DOMAIN WriteAt(file, writes) \subseteq Int
  BY DEF WriteAt

\* FlushPages, cut short anywhere, leaves page numbers.
LEMMA FlushDomain ==
    ASSUME DOMAIN st.file \subseteq Int, NEW U, NEW n
    PROVE  DOMAIN FlushUpTo(U, n).file \subseteq Int
<1> DEFINE first == WriteAt(st.file, [p \in U |-> st.updates[p]])
<1>1. PICK w : FlushUpTo(U, n).file = WriteAt(first, w)
  BY Zenon DEF FlushUpTo, Written
<1>2. DOMAIN first \subseteq Int
  BY WriteAtDomain
<1> HIDE DEF first
<1> QED
  BY <1>1, <1>2, WriteAtDomain

\* Writing the meta page leaves every other page of the cache and of the disk.
LEMMA PutMetaKeeps ==
    ASSUME NEW s, NEW meta, "file" \in DOMAIN s, PutMeta(s, meta),
           DOMAIN st.file \subseteq Int
    PROVE  /\ "file" \in DOMAIN st' /\ DOMAIN st'.file \subseteq Int
           /\ disk = Synced(st.file) =>
                \A i \in DOMAIN st'.file \ {1} : disk'[i] = {st'.file[i]}
<1> DEFINE w == [p \in {0} |-> meta]
<1>1. /\ "file" \in DOMAIN st'
      /\ st'.file = WriteAt(st.file, w) /\ disk' = DiskAfter(disk, st.file, w)
  BY DEF PutMeta, Written
<1>2. DOMAIN w = {0}
  OBVIOUS
<1>3. EndOf(w) = 1
  BY <1>2 DEF EndOf
<1>4. DOMAIN st'.file = DOMAIN st.file \cup 1 .. 1
  BY <1>1, <1>3 DEF WriteAt
<1> HIDE DEF w
<1>5. ASSUME disk = Synced(st.file), NEW i \in DOMAIN st'.file, i # 1
      PROVE  disk'[i] = {st'.file[i]}
  <2>1. i \in DOMAIN st.file /\ i - 1 # 0
    BY <1>4, <1>5
  <2> QED
    BY <1>1, <1>2, <1>5, <2>1 DEF WriteAt, DiskAfter, Synced
<1> QED
  BY <1>1, <1>4, <1>5

\* Resetting the page manager leaves the file.
LEMMA ResetKeeps ==
    ASSUME NEW s, "file" \in DOMAIN s
    PROVE  /\ "file" \in DOMAIN ClearUpdates(s) /\ ClearUpdates(s).file = s.file
           /\ \A n : "file" \in DOMAIN ResetTo(s, n) /\ ResetTo(s, n).file = s.file
  BY DEF ClearUpdates, ResetTo

\* rollback leaves the file.
LEMMA RollbackKeeps ==
    ASSUME "file" \in DOMAIN st
    PROVE  "file" \in DOMAIN rollback /\ rollback.file = st.file
<1>1. "file" \in DOMAIN [st EXCEPT !.root = old.root]
      /\ [st EXCEPT !.root = old.root].file = st.file
  OBVIOUS
<1> QED
  BY <1>1, ResetKeeps DEF rollback

(***************************************************************************)
(* The invariant is inductive                                              *)
(***************************************************************************)

\* A store that has not been opened has nothing under way.
LEMMA InitInv == Init => CommitInv
  BY SyncModesAssumption DEF Init, CommitInv, Closed, CommitOrder

\* The steps of a call.
LEMMA CallInv ==
    ASSUME CommitInv, CommitStep
    PROVE  CommitInv'
<1> USE DEF CommitInv
<1>1. CASE RecoverMeta
  <2>1. /\ pc' = "recsync" /\ UNCHANGED <<mode, errors>>
        /\ PutMeta(st, buildMeta(old.root, old.flushed))
    BY <1>1 DEF RecoverMeta, counters
  <2>2. "file" \in DOMAIN st' /\ DOMAIN st'.file \subseteq Int
    BY <2>1, PutMetaKeeps
  <2> QED
    BY <2>1, <2>2 DEF CommitOrder
<1>2. CASE RecoverMetaFail
  <2>1. /\ pc' = "idle" /\ op' = NoOp /\ UNCHANGED mode /\ errors' \in Nat
    BY <1>2 DEF RecoverMetaFail, Fail
  <2>2. "file" \in DOMAIN st' /\ DOMAIN st'.file \subseteq Int
    BY <1>2, PutMetaKeeps DEF RecoverMetaFail, KeepFile
  <2> QED
    BY <2>1, <2>2 DEF CommitOrder
<1>3. CASE RecoverSync
  BY <1>3 DEF RecoverSync, counters, CommitOrder
<1>4. CASE RecoverSyncFail
  BY <1>4 DEF RecoverSyncFail, KeepFile, Fail, CommitOrder
<1>5. CASE Flush
  <2>1. /\ pc' \in {"sync1", "meta"} /\ (mode # SyncOff => pc' = "sync1")
        /\ UNCHANGED <<mode, errors>>
    BY <1>5 DEF Flush, counters, SyncOff, SyncNormal, SyncFull
  <2> DEFINE new == FlushUpTo(DOMAIN st.updates, TempPages)
             s == [st EXCEPT !.file = new.file, !.temp = <<>>,
                             !.flushed = @ + Len(st.temp),
                             !.mapped = @ \/ ~NothingToFlush]
  <2>2. st' = s \/ st' = ClearUpdates(s)
    BY <1>5 DEF Flush
  <2>3. "file" \in DOMAIN s /\ s.file = new.file
    OBVIOUS
  <2>4. DOMAIN new.file \subseteq Int
    BY FlushDomain
  <2> HIDE DEF s, new
  <2>5. "file" \in DOMAIN st' /\ st'.file = new.file
    BY <2>2, <2>3, ResetKeeps
  <2> QED
    BY <2>1, <2>4, <2>5 DEF CommitOrder
<1>6. CASE FlushFail
  <2>1. /\ pc' = "idle" /\ op' = NoOp /\ UNCHANGED mode /\ errors' \in Nat
    <3>1. Fail
      BY <1>6, ZenonT(30) DEF FlushFail
    <3> QED
      BY <3>1, SMTT(20) DEF Fail
  <2>2. \/ st' = rollback
        \/ \E U, n : st' = [rollback EXCEPT !.file = FlushUpTo(U, n).file, !.mapped = TRUE]
    BY <1>6, ZenonT(30) DEF FlushFail, KeepFile
  <2>3. "file" \in DOMAIN st' /\ DOMAIN st'.file \subseteq Int
    BY <2>2, FlushDomain, RollbackKeeps, Zenon
  <2> QED
    BY <2>1, <2>3 DEF CommitOrder
<1>7. CASE Sync1
  <2>1. /\ pc' = "meta" /\ disk' = Synced(st.file) /\ st' = ClearUpdates(st)
        /\ UNCHANGED <<mode, errors>>
    BY <1>7 DEF Sync1, counters
  <2>2. "file" \in DOMAIN st' /\ st'.file = st.file
    BY <2>1, ResetKeeps
  <2> QED
    BY <2>1, <2>2 DEF CommitOrder
<1>8. CASE Sync1Fail
  BY <1>8, RollbackKeeps DEF Sync1Fail, KeepFile, Fail, CommitOrder
<1>9. CASE WriteMeta
  <2>1. /\ PutMeta(st, saveMeta) /\ pc = "meta" /\ UNCHANGED <<mode, errors>>
        /\ \/ mode = SyncOff /\ pc' = "idle" /\ op' = NoOp
           \/ mode # SyncOff /\ pc' = "sync2"
    BY <1>9 DEF WriteMeta, Acknowledge, counters
  <2>2. /\ "file" \in DOMAIN st' /\ DOMAIN st'.file \subseteq Int
        /\ mode # SyncOff => \A i \in DOMAIN st'.file \ {1} : disk'[i] = {st'.file[i]}
    BY <2>1, PutMetaKeeps
  <2> QED
    BY <2>1, <2>2 DEF CommitOrder
<1>10. CASE WriteMetaFail
  <2>1. /\ pc' = "idle" /\ op' = NoOp /\ UNCHANGED mode /\ errors' \in Nat
    BY <1>10 DEF WriteMetaFail, Fail
  <2>2. "file" \in DOMAIN st' /\ DOMAIN st'.file \subseteq Int
    BY <1>10, PutMetaKeeps, RollbackKeeps DEF WriteMetaFail, KeepFile
  <2> QED
    BY <2>1, <2>2 DEF CommitOrder
<1>11. CASE Sync2
  BY <1>11 DEF Sync2, Acknowledge, counters, CommitOrder
<1>12. CASE Sync2Fail
  BY <1>12 DEF Sync2Fail, KeepFile, Fail, CommitOrder
<1> QED
  BY <1>1, <1>2, <1>3, <1>4, <1>5, <1>6, <1>7, <1>8, <1>9, <1>10, <1>11, <1>12
     DEF CommitStep
\* Every step keeps the invariant, with a tree that leaves the file alone.
LEMMA NextInv == CommitInv /\ TreeKeepsFile /\ [Next]_vars => CommitInv'
<1> SUFFICES ASSUME CommitInv, TreeKeepsFile, [Next]_vars PROVE CommitInv'
  OBVIOUS
<1>1. CASE Open
  <2>1. /\ pc' = "idle" /\ st' = Opened(st.file) /\ UNCHANGED <<mode, op, errors>>
        /\ pc = "closed"
    BY <1>1 DEF Open, counters
  <2>2. "file" \in DOMAIN st' /\ st'.file = st.file
    <3>1. "file" \in DOMAIN Closed(st.file) /\ Closed(st.file).file = st.file
      BY DEF Closed
    <3> QED
      BY <2>1, <3>1, ResetKeeps, Zenon DEF Opened
  <2> QED
    BY <2>1, <2>2 DEF CommitInv, CommitOrder
<1>2. CASE OpenRefused \/ UNCHANGED vars
  BY <1>2 DEF OpenRefused, vars, CommitInv, CommitOrder
<1>3. CASE Close
  BY <1>3 DEF Close, Closed, counters, CommitInv, CommitOrder
<1>4. ASSUME NEW call, NEW new, Begin(call, new),
             "file" \in DOMAIN new /\ new.file = st.file
      PROVE  CommitInv'
  <2>1. /\ pc' \in {"dead", "recmeta", "flush"} /\ st' = new
        /\ UNCHANGED <<mode, errors>>
    BY <1>4 DEF Begin
  <2> QED
    BY <1>4, <2>1 DEF CommitInv, CommitOrder
<1>5. ASSUME NEW k \in Keys, NEW v \in load.vals, Set(k, v) PROVE CommitInv'
  <2>1. "file" \in DOMAIN TreeInsert(st, k, v) /\ TreeInsert(st, k, v).file = st.file
    BY <1>5 DEF Set, TreeKeepsFile
  <2>2. Begin([kind |-> "set", key |-> k, val |-> v], TreeInsert(st, k, v))
    BY <1>5 DEF Set
  <2> QED
    BY <1>4, <2>1, <2>2
<1>6. ASSUME NEW k \in Keys, Del(k) PROVE CommitInv'
  <2>1. "file" \in DOMAIN TreeDelete(st, k).st /\ TreeDelete(st, k).st.file = st.file
    BY <1>6 DEF Del, TreeKeepsFile
  <2>2. CASE Begin([kind |-> "del", key |-> k], TreeDelete(st, k).st)
    BY <1>4, <2>1, <2>2
  <2>3. CASE /\ st' = TreeDelete(st, k).st /\ pc = "idle"
             /\ UNCHANGED <<failed, mode, pc, old, op, disk, ghosts, counters>>
    BY <2>1, <2>3 DEF counters, CommitInv, CommitOrder
  <2> QED
    BY <1>6, <2>2, <2>3 DEF Del
<1>7. CASE CommitStep
  BY <1>7, CallInv
<1>8. ASSUME NEW file, Crash(file), DOMAIN file \subseteq Int PROVE CommitInv'
  <2>1. "file" \in DOMAIN st' /\ st'.file = file
    BY <1>8 DEF Crash, Closed
  <2>2. pc' = "closed" /\ op' = NoOp /\ UNCHANGED <<mode, errors>>
    BY <1>8 DEF Crash
  <2> QED
    BY <1>8, <2>1, <2>2 DEF CommitInv, CommitOrder
<1>9. CASE Die
  BY <1>8, <1>9 DEF Die, CommitInv
<1>10. CASE Kill
  <2>1. Crash(st.file) \/ \E U, n : Crash(FlushUpTo(U, n).file)
    BY <1>10 DEF Kill
  <2> QED
    BY <1>8, <2>1, FlushDomain DEF CommitInv
<1>11. CASE PowerLoss
  <2>1. PICK file \in Surviving(disk) : Crash(file)
    BY <1>11 DEF PowerLoss
  <2>2. PICK f : file = CutAtEnd(f)
    BY <2>1 DEF Surviving
  <2>3. DOMAIN CutAtEnd(f) \subseteq Int
    BY DEF CutAtEnd
  <2> QED
    BY <1>8, <2>1, <2>2, <2>3
<1> QED
  BY <1>1, <1>2, <1>3, <1>5, <1>6, <1>7, <1>9, <1>10, <1>11 DEF Next

\* The invariant holds in every state, with a tree that leaves the file alone.
LEMMA CommitInvariant == Spec /\ []TreeKeepsFile => []CommitInv
  BY InitInv, NextInv, PTL DEF Spec

(***************************************************************************)
(* What updateOrRevert promises                                            *)
(***************************************************************************)

\* With any tree, whatever calls, I/O errors, kills and power losses came
\* before: when the meta page of the new root has been written and may reach the
\* disk at any time, every other page of the file is on the disk.
THEOREM PagesBeforeMeta == Spec /\ []TreeKeepsFile => []CommitOrder
<1>1. CommitInv => CommitOrder
  BY DEF CommitInv
<1> QED
  BY <1>1, CommitInvariant, PTL

\* With any tree: a call that returns nil in SyncNormal or SyncFull mode has left
\* nothing to be written back.
THEOREM NilMeansDurable == Spec /\ []TreeKeepsFile => AckDurable
<1> DEFINE Ack == op # NoOp /\ pc' = "idle" /\ errors' = errors /\ mode # SyncOff
<1>1. CommitInv /\ [Next]_vars => [Ack => disk' = Synced(st'.file)]_vars
  <2> SUFFICES ASSUME CommitInv, Next, op # NoOp, pc' = "idle", errors' = errors,
                      mode # SyncOff
               PROVE  disk' = Synced(st'.file)
    OBVIOUS
  <2>1. errors + 1 # errors /\ pc \notin {"closed", "idle"}
    BY DEF CommitInv
  <2>2. ~Fail
    BY <2>1 DEF Fail
  <2>3. CASE CommitStep
    <3>1. Sync2 \/ WriteMeta
      BY <2>2, <2>3, Zenon DEF CommitStep, RecoverMeta, RecoverMetaFail, RecoverSync,
                        RecoverSyncFail, Flush, FlushFail, Sync1, Sync1Fail,
                        WriteMetaFail, Sync2Fail
    <3> QED
      BY <3>1, SMTT(20) DEF Sync2, WriteMeta
  <2>4. CASE ~CommitStep
    BY <2>1, <2>4, Zenon DEF Next, Open, OpenRefused, Close, Set, Del, Die, Kill, PowerLoss, Crash
  <2> QED
    BY <2>3, <2>4
<1> QED
  BY <1>1, CommitInvariant, PTL DEF Spec, AckDurable
=============================================================================
