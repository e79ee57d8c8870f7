------------------------------ MODULE KVStore ------------------------------
(***************************************************************************)
(* The persistent key-value store of internal/kvstore/kv.go on top of the  *)
(* page manager and the free list: Open, Set, Del and the commit protocol  *)
(* of updateOrRevert (flush the pages, fsync, write the meta page, fsync), *)
(* with I/O errors at every step, the death of the process and the loss of *)
(* power at any moment.                                                    *)
(*                                                                         *)
(* The B+tree is a parameter: three operators on the in-memory state.  The *)
(* model checker runs get the tree of module BTree.                        *)
(*                                                                         *)
(* disk[p + 1] is the set of contents page p may be found to have after a  *)
(* loss of power: the operating system may have written back any version   *)
(* since the last fsync, and fsync leaves only the current one.  A page is *)
(* written and lost as a whole.                                            *)
(***************************************************************************)
EXTENDS PageMgr, FiniteSets

CONSTANTS
    Keys,
    Missing,              \* what TreeContents has for a key that is not there
    SyncModes,            \* the sync modes under which the file is opened
    TreeInsert(_, _, _),  \* TreeInsert(st, k, v): st
    TreeDelete(_, _),     \* TreeDelete(st, k): [st, found]
    TreeContents(_),      \* TreeContents(st): what Get finds for every key
    Loads                 \* the bounds a behaviour may have: the values it sets,
                          \* the calls, the I/O errors and the crashes

SyncOff    == 0
SyncNormal == 1
SyncFull   == 2

ASSUME SyncModesAssumption == SyncModes \subseteq {SyncOff, SyncNormal, SyncFull}
ASSUME LoadsAssumption ==
    \A l \in Loads : {l.ops, l.errors, l.crashes} \subseteq Nat

VARIABLES
    st,         \* the open database (see PageMgr); st.file is the page cache
    failed,     \* KV.failed
    mode,       \* KV.syncMode
    pc,         \* where the running call is
    old,        \* oldRoot and oldFlushed of the running call
    op,         \* the running call
    disk,       \* the contents each page may have after a power loss
    before,     \* ghost: the contents when the running call began
    possible,   \* ghost: contents the callers may find after a crash
    acked,      \* ghost: some call has returned nil
    resumed,    \* ghost: a call has been made in a process where one had failed
    load,                  \* the bounds of this behaviour
    ops, errors, crashes   \* what they count

vars == <<st, failed, mode, pc, old, op, disk, before, possible, acked, resumed,
          load, ops, errors, crashes>>

Absent == [btype |-> "absent"]   \* on disk: the file ends before the page

EmptyMap == [k \in Keys |-> Missing]

NoOp == [kind |-> "none"]

\* What a call that takes effect makes of the contents.
Effect(map, call) ==
    CASE call.kind = "set" -> [map EXCEPT ![call.key] = call.val]
      [] call.kind = "del" -> [map EXCEPT ![call.key] = Missing]
      [] OTHER -> map

(***************************************************************************)
(* The callbacks that Open gives the tree                                  *)
(***************************************************************************)

\* A page of the free list whose next pointer is 0 starts with zeroes.
AsNode(page) ==
    IF page.btype \in {"leaf", "internal", "zero"} THEN page
    ELSE IF page.btype = "free" /\ page.next = 0 THEN Zero
    ELSE Bad

GetPage(s, ptr) == AsNode(Read(s, ptr))

\* Mutant: a page taken from the free list stays at its head.
NewPage_Peek(s, node) ==
    LET pop == PopHead(s)
        new == Alloc(pop.st, node)
    IN IF pop.ptr = 0 THEN [pg |-> new.st, ptr |-> new.ptr]
       ELSE [pg |-> Put(s, pop.ptr, [node EXCEPT !.pages = 1]), ptr |-> pop.ptr]

\* tree.NewPage: a page popped from the free list is overwritten in place.
NewPage(s, node) ==
    LET pop == PopHead(s)
        new == Alloc(pop.st, node)
    IN IF pop.ptr = 0 THEN [pg |-> new.st, ptr |-> new.ptr]
       ELSE IF Write(pop.st, pop.ptr).fault
       THEN [pg |-> Crashed(pop.st), ptr |-> pop.ptr]
       ELSE [pg  |-> Put(pop.st, pop.ptr, [node EXCEPT !.pages = 1]),
             ptr |-> pop.ptr]

DelPage(s, ptr) == PushTail(s, ptr)

(***************************************************************************)
(* The meta page                                                           *)
(***************************************************************************)

\* WriteMetaFull
Meta(s, root, flushed) ==
    [btype |-> "meta", root |-> root, flushed |-> flushed,
     headPage |-> s.headPage, headSeq |-> s.headSeq,
     tailPage |-> s.tailPage, tailSeq |-> s.tailSeq, pages |-> 1]

\* The free list in the meta page is always the one in memory.
buildMeta(root, flushed) == Meta(st, root, flushed)

saveMeta == Meta(st, st.root, st.flushed)

\* ReadMetaSafe: checksum and signature hold for what WriteMetaFull wrote; a
\* page of zeroes fails the checksum.
MetaOk(page) == page.btype = "meta"

(***************************************************************************)
(* The file and the disk                                                   *)
(***************************************************************************)

\* WriteAt reaches the page cache now and the disk at some later time.
DiskAfter(dsk, file, writes) ==
    [i \in DOMAIN WriteAt(file, writes) |->
        (IF i \in DOMAIN dsk THEN dsk[i] ELSE {Absent})
          \cup (IF i - 1 \in DOMAIN writes THEN {writes[i - 1]} ELSE {})]

\* The page cache and the disk after some writes, given those before them.
Written(now, writes) ==
    [file |-> WriteAt(now.file, writes),
     disk |-> DiskAfter(now.disk, now.file, writes)]

\* Fsync leaves one version of every page.
Synced(file) == [i \in DOMAIN file |-> {file[i]}]

\* Some version of every page.
Versions(dsk) ==
    LET versions(i) == dsk[i]
        ends(pages, files) == {Append(f, page) : f \in files, page \in pages}
    IN MapThenFoldSet(ends, {<<>>}, versions, Max, DOMAIN dsk)

\* A file ends after the last page that is there, with zeroes in the gaps.
CutAtEnd(f) ==
    LET there == {i \in DOMAIN f : f[i] # Absent}
        length == IF there = {} THEN 0
                  ELSE CHOOSE n \in there : \A i \in there : i <= n
    IN [i \in 1 .. length |-> IF f[i] = Absent THEN Zero ELSE f[i]]

\* The files the disk may hold after a power loss.
Surviving(dsk) == {CutAtEnd(f) : f \in Versions(dsk)}

(***************************************************************************)
(* Open and Close                                                          *)
(***************************************************************************)

\* No database is open; the file is this one.
Closed(file) ==
    [root |-> 0, flushed |-> 0, temp |-> <<>>, updates |-> <<>>,
     headPage |-> 0, headSeq |-> 0, tailPage |-> 0, tailSeq |-> 0,
     mapped |-> FALSE, file |-> file, fault |-> FALSE]

Refuses(file) == file # <<>> /\ ~MetaOk(FilePage(file, 0))

\* The state Open builds: an empty file is not mapped until the first flush.
Opened(file) ==
    LET meta == FilePage(file, 0)
    IN IF file = <<>> THEN ResetTo(Closed(file), 1)
       ELSE [ResetTo(Closed(file), meta.flushed) EXCEPT
               !.mapped = TRUE, !.root = meta.root,
               !.headPage = meta.headPage, !.headSeq = meta.headSeq,
               !.tailPage = meta.tailPage, !.tailSeq = meta.tailSeq]

Init ==
    /\ st = Closed(<<>>)
    /\ failed = FALSE
    /\ mode \in SyncModes
    /\ pc = "closed"
    /\ old = [root |-> 0, flushed |-> 0]
    /\ op = NoOp
    /\ disk = <<>>
    /\ before = EmptyMap
    /\ possible = {EmptyMap}
    /\ acked = FALSE /\ resumed = FALSE
    /\ load \in Loads
    /\ ops = 0 /\ errors = 0 /\ crashes = 0

counters == <<load, ops, errors, crashes>>
ghosts   == <<before, possible, acked, resumed>>

\* A file that Open refuses stays closed.
Open ==
    /\ pc = "closed"
    /\ ~Refuses(st.file)
    /\ st' = Opened(st.file)
    /\ failed' = FALSE
    /\ pc' = "idle"
    /\ UNCHANGED <<mode, old, op, disk, ghosts, counters>>

OpenRefused ==
    /\ pc = "closed"
    /\ Refuses(st.file)
    /\ UNCHANGED vars

Close ==
    /\ pc = "idle"
    /\ st' = Closed(st.file)
    /\ pc' = "closed"
    /\ UNCHANGED <<failed, mode, old, op, disk, ghosts, counters>>

(***************************************************************************)
(* Set and Del                                                             *)
(***************************************************************************)

\* The tree has been changed in memory; updateOrRevert comes next.
Begin(call, new) ==
    /\ st' = new
    /\ old' = [root |-> st.root, flushed |-> st.flushed]
    /\ op' = call
    /\ before' = TreeContents(st)
    /\ possible' = possible \cup {Effect(TreeContents(st), call)}
    /\ pc' = IF new.fault THEN "dead" ELSE IF failed THEN "recmeta" ELSE "flush"
    /\ resumed' = (resumed \/ failed)
    /\ ops' = ops + 1
    /\ UNCHANGED <<failed, mode, disk, acked, load, errors, crashes>>

Set(k, v) ==
    /\ pc = "idle"
    /\ ops < load.ops
    /\ Begin([kind |-> "set", key |-> k, val |-> v], TreeInsert(st, k, v))

\* A key that is not there: Del returns without a flush.
Del(k) ==
    /\ pc = "idle"
    /\ ops < load.ops
    /\ LET del == TreeDelete(st, k)
       IN \/ /\ del.found \/ del.st.fault
             /\ Begin([kind |-> "del", key |-> k], del.st)
          \/ /\ ~del.found /\ ~del.st.fault
             /\ st' = del.st
             /\ UNCHANGED <<failed, mode, pc, old, op, disk, ghosts, counters>>

(***************************************************************************)
(* updateOrRevert                                                          *)
(***************************************************************************)

\* Mutant: the new root is kept.
rollback_KeepRoot == ResetTo(st, old.flushed)

\* rollback: the root and the end of the file; not the free list.
rollback == ResetTo([st EXCEPT !.root = old.root], old.flushed)

\* The call returns nil: its effect is what a crash must leave.
Acknowledge ==
    /\ pc' = "idle"
    /\ op' = NoOp
    /\ possible' = {Effect(before, op)}
    /\ acked' = TRUE
    /\ UNCHANGED <<failed, mode, old, before, resumed, counters>>

\* The call returns an error.
Fail ==
    /\ errors < load.errors
    /\ errors' = errors + 1
    /\ pc' = "idle"
    /\ op' = NoOp
    /\ UNCHANGED <<mode, old, ghosts, load, ops, crashes>>

\* One write of the meta page into the page cache.
PutMeta(s, meta) ==
    LET new == Written([file |-> st.file, disk |-> disk], [p \in {0} |-> meta])
    IN /\ st' = [s EXCEPT !.file = new.file]
       /\ disk' = new.disk

KeepFile(s) == st' = s /\ UNCHANGED disk

\* After a failed call the next one first writes back the meta page of the
\* root it started from.  An error here returns at once, without rollback.
RecoverMeta ==
    /\ pc = "recmeta"
    /\ PutMeta(st, buildMeta(old.root, old.flushed))
    /\ pc' = "recsync"
    /\ UNCHANGED <<failed, mode, old, op, ghosts, counters>>

RecoverMetaFail ==
    /\ pc = "recmeta"
    /\ PutMeta(st, buildMeta(old.root, old.flushed)) \/ KeepFile(st)
    /\ Fail
    /\ UNCHANGED failed

RecoverSync ==
    /\ pc = "recsync"
    /\ disk' = Synced(st.file)
    /\ failed' = FALSE
    /\ pc' = "flush"
    /\ UNCHANGED <<st, mode, old, op, ghosts, counters>>

RecoverSyncFail ==
    /\ pc = "recsync"
    /\ KeepFile(st)
    /\ Fail
    /\ UNCHANGED failed
\* FlushPages writes the updates in the random order of a Go map, then temp.
\* Cut short by an error or by the death of the process it has written some of
\* the updates, or all of them and the first pages of temp.
FlushUpTo(U, n) ==
    LET updated == Written([file |-> st.file, disk |-> disk],
                           [p \in U |-> st.updates[p]])
    IN Written(updated, [p \in st.flushed .. st.flushed + n - 1 |-> TempWrites(st)[p]])

TempPages == Len(TempImage(st.temp))

NothingToFlush == st.temp = <<>> /\ st.updates = <<>>

CutShort(U, n) ==
    /\ ~NothingToFlush
    /\ n = 0 \/ U = DOMAIN st.updates
    /\ <<U, n>> # <<DOMAIN st.updates, TempPages>>

\* FlushPages and, when there is no fsync to come, ClearUpdates.
Flush ==
    /\ pc = "flush"
    /\ LET new == FlushUpTo(DOMAIN st.updates, TempPages)
           s   == [st EXCEPT !.file = new.file, !.temp = <<>>,
                             !.flushed = @ + Len(st.temp),
                             !.mapped = @ \/ ~NothingToFlush]
       IN /\ st' = IF mode >= SyncNormal THEN s ELSE ClearUpdates(s)
          /\ disk' = new.disk
    /\ pc' = IF mode >= SyncNormal THEN "sync1" ELSE "meta"
    /\ UNCHANGED <<failed, mode, old, op, ghosts, counters>>

\* The first thing to fail may be the mapping of the file.
FlushFail ==
    /\ pc = "flush"
    /\ \/ /\ ~st.mapped
          /\ ~NothingToFlush
          /\ KeepFile(rollback)
       \/ \E U \in SUBSET DOMAIN st.updates, n \in 0 .. TempPages :
             /\ CutShort(U, n)
             /\ st' = [rollback EXCEPT !.file = FlushUpTo(U, n).file, !.mapped = TRUE]
             /\ disk' = FlushUpTo(U, n).disk
    /\ Fail
    /\ failed' = TRUE

\* Mutant: no fsync before the meta page.
Sync1_Skipped ==
    /\ pc = "sync1"
    /\ st' = ClearUpdates(st)
    /\ pc' = "meta"
    /\ UNCHANGED <<failed, mode, old, op, disk, ghosts, counters>>

\* The first fsync, and ClearUpdates.
Sync1 ==
    /\ pc = "sync1"
    /\ disk' = Synced(st.file)
    /\ st' = ClearUpdates(st)
    /\ pc' = "meta"
    /\ UNCHANGED <<failed, mode, old, op, ghosts, counters>>

Sync1Fail ==
    /\ pc = "sync1"
    /\ KeepFile(rollback)
    /\ Fail
    /\ failed' = TRUE

\* The meta page of the new root; in SyncOff mode the call is done.
WriteMeta ==
    /\ pc = "meta"
    /\ PutMeta(st, saveMeta)
    /\ \/ /\ mode = SyncOff
          /\ Acknowledge
       \/ /\ mode # SyncOff
          /\ pc' = "sync2"
          /\ UNCHANGED <<failed, mode, old, op, ghosts, counters>>

WriteMetaFail ==
    /\ pc = "meta"
    /\ PutMeta(rollback, saveMeta) \/ KeepFile(rollback)
    /\ Fail
    /\ failed' = TRUE

\* Mutant: the second fsync in SyncFull mode only.
Sync2_FullOnly ==
    /\ pc = "sync2"
    /\ disk' = IF mode = SyncFull THEN Synced(st.file) ELSE disk
    /\ Acknowledge
    /\ UNCHANGED st

\* The second fsync, in SyncFull and in SyncNormal mode alike.
Sync2 ==
    /\ pc = "sync2"
    /\ disk' = Synced(st.file)
    /\ Acknowledge
    /\ UNCHANGED st

\* No rollback here: the new root stays.
Sync2Fail ==
    /\ pc = "sync2"
    /\ KeepFile(st)
    /\ Fail
    /\ failed' = TRUE

(***************************************************************************)
(* The environment                                                         *)
(***************************************************************************)

\* What a crash leaves behind: a closed file.
Crash(file) ==
    /\ st' = Closed(file)
    /\ pc' = "closed"
    /\ op' = NoOp
    /\ UNCHANGED <<failed, mode, old, ghosts, load, ops, errors>>

\* A bad page access is the end of the process.
Die ==
    /\ pc = "dead"
    /\ Crash(st.file)
    /\ UNCHANGED <<disk, crashes>>

\* The process is killed between two steps, or in the middle of FlushPages;
\* the page cache stays.
Kill ==
    /\ pc # "closed"
    /\ crashes < load.crashes
    /\ crashes' = crashes + 1
    /\ \/ Crash(st.file) /\ UNCHANGED disk
       \/ /\ pc = "flush"
          /\ \E U \in SUBSET DOMAIN st.updates, n \in 0 .. TempPages :
                /\ CutShort(U, n)
                /\ Crash(FlushUpTo(U, n).file)
                /\ disk' = FlushUpTo(U, n).disk

PowerLoss ==
    /\ crashes < load.crashes
    /\ crashes' = crashes + 1
    /\ mode # SyncOff
    /\ \E file \in Surviving(disk) :
          /\ Crash(file)
          /\ disk' = Synced(file)

CommitStep ==
    \/ RecoverMeta \/ RecoverMetaFail \/ RecoverSync \/ RecoverSyncFail
    \/ Flush \/ FlushFail \/ Sync1 \/ Sync1Fail
    \/ WriteMeta \/ WriteMetaFail \/ Sync2 \/ Sync2Fail

Next ==
    \/ Open \/ OpenRefused \/ Close
    \/ \E k \in Keys : Del(k) \/ \E v \in load.vals : Set(k, v)
    \/ CommitStep
    \/ Die \/ Kill \/ PowerLoss

Spec == Init /\ [][Next]_vars
(***************************************************************************)
(* Properties                                                              *)
(***************************************************************************)

\* The files a crash may leave now: the page cache when only the process dies,
\* which is all that SyncOff mode is made for.
CrashFiles == IF mode = SyncOff THEN {st.file} ELSE Surviving(disk)

\* Open accepts a file that a crash may leave now, once a call has returned nil,
\* and finds contents that are allowed.
Recovers ==
    \A file \in CrashFiles :
        IF Refuses(file) THEN ~acked
        ELSE TreeContents(Opened(file)) \in possible

\* Crash safety of the commit protocol (updateOrRevert): as long as no I/O has
\* failed, whenever the process dies or, in the two other modes, the power fails,
\* Open finds exactly the effects of the calls that returned nil, and of the last
\* call all or nothing if it has not.  Open may refuse the file only before any
\* call has returned nil.
CrashSafe == errors = 0 => Recovers

\* Between calls Get and Seek find the effects of the calls that returned nil,
\* and of a call that returned an error all or nothing.
ReadsAllowed == pc = "idle" => TreeContents(st) \in possible

\* Every crash leaves a file that Open accepts.
CrashOpens == \A file \in CrashFiles : ~Refuses(file)

\* The two-phase protocol: when the meta page of the new root has been written
\* and may reach the disk at any time, every other page is on the disk.
CommitOrder ==
    pc = "sync2" => \A i \in DOMAIN st.file \ {1} : disk[i] = {st.file[i]}

\* Insert and Delete of the tree write no file, for every call that could come next:
\* NewPage and FreePage only change what the next FlushPages will write.
TreeKeepsFile ==
    pc = "idle" => \A k \in Keys :
        \A new \in {TreeDelete(st, k).st} \cup {TreeInsert(st, k, v) : v \in load.vals} :
            "file" \in DOMAIN new /\ new.file = st.file

\* A call that returns nil in SyncNormal or SyncFull mode has left nothing to
\* be written back, whatever earlier calls that failed had written.
AckDurable ==
    [][(op # NoOp /\ pc' = "idle" /\ errors' = errors /\ mode # SyncOff)
         => disk' = Synced(st'.file)]_vars

\* Crash safety with I/O errors: as long as the caller closes the file after a
\* call that failed, rollback and the failed flag leave a database that reads
\* and recovers as CrashSafe and ReadsAllowed say, and no call dies.
FailStop == ~resumed => Recovers /\ ReadsAllowed /\ pc # "dead"

\* Copy on write: flushing the pages of a call leaves the root page that the
\* meta page still names as it was.
CopyOnWrite ==
    [][(pc = "flush" /\ pc' \in {"sync1", "meta"} /\ old.root # 0)
         => st'.file[old.root + 1] = st.file[old.root + 1]]_vars

\* As long as no I/O has failed, no call dies of a bad page access.
NoFault == errors = 0 => pc # "dead"

\* The page numbers the free list will hand out: from the head's slot to the
\* tail's, in the one page that is both (an empty slot reads as 0).
FreePages ==
    LET node == AsFree(Read(st, st.headPage))
    IN IF st.headPage = 0 \/ st.headPage # st.tailPage THEN <<>>
       ELSE [i \in 1 .. st.tailSeq - st.headSeq |-> node.slots[st.headSeq + i - 1]]

\* As long as no I/O has failed, between calls no page of the free list is the
\* root, a page of the list or the meta page, and none is listed twice: NewPage
\* overwrites no page in use.
FreeListSound ==
    (pc = "idle" /\ errors = 0) =>
        LET free == FreePages
        IN /\ \A i \in DOMAIN free :
                 free[i] # 0 => free[i] \notin {st.root, st.headPage, st.tailPage}
           /\ \A i, j \in DOMAIN free : free[i] = free[j] => i = j \/ free[i] = 0
=============================================================================
