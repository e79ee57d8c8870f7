------------------------------ MODULE PageMgr ------------------------------
(***************************************************************************)
(* The page manager (internal/storage/page.go) and the free list           *)
(* (internal/btree/freelist.go) as operators on the in-memory state of an  *)
(* open database, a record with the fields                                 *)
(*   root                        BTree.Root                                *)
(*   flushed, temp, updates      PageMgr.page                              *)
(*   headPage, headSeq, tailPage, tailSeq     FreeList                     *)
(*   mapped                      the file has been mapped                  *)
(*   file                        the file as reads through the map see it  *)
(*   fault                       the process has died of a bad page access *)
(*                                                                         *)
(* Page p of the file is file[p + 1].  A page is a record with a btype:    *)
(* "leaf" or "internal" for a tree node, "free" for a page of the free     *)
(* list, "meta" for page 0 and "zero" for a page of zeroes.  A tree node   *)
(* also says how many pages its buffer has; only the first has contents.   *)
(***************************************************************************)
EXTENDS Integers, Sequences, FiniteSetsExt

CONSTANTS
    OSPages,        \* database pages per page of the operating system
    FREE_LIST_CAP   \* page numbers in a page of the free list (511 in the code)

ASSUME OSPagesAssumption == OSPages \in Nat \ {0}
ASSUME FreeCapAssumption == FREE_LIST_CAP \in Nat \ {0}

Zero == [btype |-> "zero", kvs |-> <<>>, pages |-> 1]
Bad  == [btype |-> "bad", kvs |-> <<>>, pages |-> 1]

Crashed(st) == [st EXCEPT !.fault = TRUE]

(***************************************************************************)
(* The file                                                                *)
(***************************************************************************)

\* Bytes between the end of the file and the end of its last OS page read
\* as zeroes; a load from beyond kills the process.
FilePage(file, ptr) ==
    IF ptr < Len(file) THEN file[ptr + 1]
    ELSE IF ptr < ((Len(file) + OSPages - 1) \div OSPages) * OSPages THEN Zero
    ELSE Bad

\* Writes is a function from page numbers to the pages written there; a gap
\* before them is filled with zeroes.
EndOf(writes) ==
    IF DOMAIN writes = {} THEN 0
    ELSE 1 + CHOOSE p \in DOMAIN writes : \A q \in DOMAIN writes : q <= p

WriteAt(file, writes) ==
    [i \in DOMAIN file \cup 1 .. EndOf(writes) |->
        IF i - 1 \in DOMAIN writes THEN writes[i - 1]
        ELSE IF i \in DOMAIN file THEN file[i] ELSE Zero]

(***************************************************************************)
(* PageMgr                                                                 *)
(***************************************************************************)

\* Read looks at updates and the map, never at temp.
Read(st, ptr) ==
    IF ptr \in DOMAIN st.updates THEN st.updates[ptr]
    ELSE IF ~st.mapped THEN Bad
    ELSE FilePage(st.file, ptr)

\* [st, ptr]
Alloc(st, page) ==
    [st  |-> [st EXCEPT !.temp = Append(@, page)],
     ptr |-> st.flushed + Len(st.temp)]

\* Write makes a writable copy of the page in updates; Put then changes it.
Put(st, ptr, page) ==
    [st EXCEPT !.updates = [p \in DOMAIN @ \cup {ptr} |->
                              IF p = ptr THEN page ELSE @[p]]]

Write(st, ptr) ==
    LET page == Read(st, ptr)
    IN IF page = Bad THEN Crashed(st) ELSE Put(st, ptr, page)

ClearUpdates(st) == [st EXCEPT !.updates = <<>>, !.temp = <<>>]

ResetTo(st, flushed) == [ClearUpdates(st) EXCEPT !.flushed = flushed]

\* The pages of temp as FlushPages lays them out in the file: each buffer
\* takes as many pages as it is long, though Alloc counted it as one.
TempImage(temp) ==
    LET buffer(i) == IF temp[i].pages = 2 THEN <<[temp[i] EXCEPT !.pages = 1], Zero>>
                     ELSE <<temp[i]>>
    IN MapThenFoldSet(\o, <<>>, buffer, Min, DOMAIN temp)

\* The one write of all of temp at the end of the pages in use.
TempWrites(st) ==
    LET image == TempImage(st.temp)
    IN [p \in st.flushed .. st.flushed + Len(image) - 1 |-> image[p - st.flushed + 1]]

(***************************************************************************)
(* FreeList                                                                *)
(***************************************************************************)

\* A page as the free list sees it: page numbers and the next page.
FreePage(slots, next) ==
    [btype |-> "free", slots |-> slots, next |-> next, pages |-> 1]

NoSlots == [i \in 0 .. FREE_LIST_CAP - 1 |-> 0]

\* Anything else read as a free-list page yields arbitrary page numbers; that
\* is taken for a crash.
IsFreePage(page) == page.btype \in {"free", "zero"}

AsFree(page) == IF page.btype = "free" THEN page ELSE FreePage(NoSlots, 0)

\* [st, ptr]: ptr is 0 when there is no head page, and also when the slot at
\* headSeq has never been filled; headSeq moves on even then.
PopHead(st) ==
    LET page == Read(st, st.headPage)
        node == AsFree(page)
        seq  == st.headSeq + 1
        past == seq * 8 >= FREE_LIST_CAP
        st1  == IF past /\ node.next # st.headPage THEN Write(st, st.headPage) ELSE st
    IN IF st.headPage = 0 THEN [st |-> st, ptr |-> 0]
       ELSE IF ~IsFreePage(page) THEN [st |-> Crashed(st), ptr |-> 0]
       ELSE [st  |-> [st1 EXCEPT
                        !.headSeq  = IF past /\ node.next # 0 THEN 0 ELSE seq,
                        !.headPage = IF past THEN node.next ELSE @],
             ptr |-> node.slots[st.headSeq]]

\* The first call makes the list's only page: allocated in temp, then read
\* back through the map, where it is not yet.
PushTail(st, ptr) ==
    LET new  == Alloc(st, Zero)
        st1  == IF st.tailPage = 0
                THEN [new.st EXCEPT !.tailPage = new.ptr, !.headPage = new.ptr]
                ELSE st
        page == Read(st1, st1.tailPage)
        node == AsFree(page)
        full == (st.tailSeq + 1) % FREE_LIST_CAP = 0
        next == Alloc(st1, Zero)
        st2  == IF full THEN [next.st EXCEPT !.tailPage = next.ptr] ELSE st1
        idx  == st.tailSeq % FREE_LIST_CAP
    IN IF ~IsFreePage(page) THEN Crashed(st1)
       ELSE [Put(st2, st1.tailPage,
                 FreePage([node.slots EXCEPT ![idx] = ptr],
                          IF full THEN next.ptr ELSE node.next))
               EXCEPT !.tailSeq = @ + 1]
=============================================================================
