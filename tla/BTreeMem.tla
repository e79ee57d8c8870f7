------------------------------ MODULE BTreeMem ------------------------------
(***************************************************************************)
(* The B+tree over pages held in memory, the way the unit tests of         *)
(* internal/btree run it: a page table that hands out unused page numbers, *)
(* refuses to free a page twice and panics on a bad page number.  It shows *)
(* what the tree algorithms do when pages behave.                          *)
(***************************************************************************)
EXTENDS Integers, Sequences, FiniteSets, FiniteSetsExt

CONSTANTS
    Keys,       \* keys, ordered as positive integers
    Vals,       \* values
    KLen(_),    \* length of a key in bytes
    VLen(_),    \* length of a value in bytes
    Loads,      \* bound: the sets of keys and values a behaviour may use
    MaxPages    \* bound: page numbers the page table can hand out

VARIABLES
    root,   \* BTree.Root
    mem,    \* [pages: page number -> node, fault: a callback or a write panicked]
    map,    \* what Get finds for every key, T!NoVal where it finds nothing
    load    \* the keys and values of this behaviour

vars == <<root, mem, map, load>>

Bad == [btype |-> "bad", kvs |-> <<>>, pages |-> 1]

GetPage(pg, ptr) == IF ptr \in DOMAIN pg.pages THEN pg.pages[ptr] ELSE Bad

NewPage(pg, node) ==
    LET unused == (1 .. MaxPages) \ DOMAIN pg.pages
        ptr    == Min(unused)
    IN [pg  |-> [pg EXCEPT !.pages = [p \in DOMAIN @ \cup {ptr} |->
                                        IF p = ptr THEN node ELSE @[p]]],
        ptr |-> ptr]

DelPage(pg, ptr) ==
    IF ptr \in DOMAIN pg.pages
    THEN [pg EXCEPT !.pages = [p \in DOMAIN @ \ {ptr} |-> @[p]]]
    ELSE [pg EXCEPT !.fault = TRUE]

T == INSTANCE BTree WITH KeyLen <- KLen, ValLen <- VLen

\* What Get finds in the tree with this root.
Contents(pg, ptr) ==
    [k \in Keys |-> LET got == T!Get(pg, ptr, k)
                    IN IF got.ok = "yes" THEN got.val ELSE T!NoVal]

Init ==
    /\ root = 0
    /\ mem = [pages |-> <<>>, fault |-> FALSE]
    /\ map = [k \in Keys |-> T!NoVal]
    /\ load \in Loads

\* A panic ends the program.
Running == ~mem.fault

\* The tree goes over to what an operation returns.
Becomes(new) ==
    /\ root' = new.root
    /\ mem' = new.pg
    /\ map' = Contents(mem', root')
    /\ UNCHANGED load

Insert(k, v) == Running /\ Becomes(T!Insert(mem, root, k, v))

Delete(k) == Running /\ Becomes(T!Delete(mem, root, k))

Next == \E k \in load.keys : Delete(k) \/ \E v \in load.vals : Insert(k, v)

Spec == Init /\ [][Next]_vars

(***************************************************************************)
(* What the tree holds                                                     *)
(***************************************************************************)

Present == {k \in Keys : map[k] # T!NoVal}

\* The pages an internal node points to, in order.
Kids(ptr) ==
    LET node == mem.pages[ptr]
    IN IF node.btype = "internal" THEN [i \in DOMAIN node.kvs |-> node.kvs[i].ptr]
       ELSE <<>>

RECURSIVE Subtree(_)
Subtree(ptr) == {ptr} \cup UNION {Subtree(Kids(ptr)[i]) : i \in DOMAIN Kids(ptr)}

Reachable == IF root = 0 THEN {} ELSE Subtree(root)

RECURSIVE Depths(_)
Depths(ptr) ==
    IF Kids(ptr) = <<>> THEN {1}
    ELSE {d + 1 : d \in UNION {Depths(Kids(ptr)[i]) : i \in DOMAIN Kids(ptr)}}

KeysOf(ptr) == {mem.pages[ptr].kvs[i].key : i \in DOMAIN mem.pages[ptr].kvs}

\* The keys an iterator yields from iter to its end, at most limit of them.
RECURSIVE Walk(_, _)
Walk(iter, limit) ==
    IF limit = 0 \/ ~T!Valid(iter) THEN <<>>
    ELSE <<T!IterKey(iter)>> \o Walk(T!IterNext(mem, iter), limit - 1)

(***************************************************************************)
(* Properties                                                              *)
(***************************************************************************)

Map == INSTANCE KVMap WITH NoVal <- T!NoVal

\* Insert and Delete act on what Get finds as a map of keys to values does:
\* the key in hand changes, no other key is lost, moved out of reach or
\* revived by a split or a merge.
ImplementsMap == Map!Spec

\* No operation panics (every node fits its buffer, no page is freed twice and no
\* page number is dereferenced that was freed or never handed out), and no node, part
\* of a split or merged node that is left outgrows a page.
NoFault ==
    /\ ~mem.fault
    /\ \A p \in DOMAIN mem.pages : T!nbytes(mem.pages[p]) <= T!BTREE_PAGE_SIZE

\* The pages in use are exactly those reachable from the root, and each has
\* one parent: splits and merges leak no page and share none.
NoLeak ==
    /\ DOMAIN mem.pages = Reachable
    /\ \A p \in Reachable : \A q \in Reachable :
          \A i \in DOMAIN Kids(p), j \in DOMAIN Kids(q) :
             Kids(p)[i] = Kids(q)[j] => p = q /\ i = j

\* Search order: keys ascend in every node, the key of an internal entry is
\* the first key of the node it points to, no node is empty, and all leaves
\* are equally deep.
SearchOrder ==
    /\ \A p \in Reachable :
          LET kvs == mem.pages[p].kvs
          IN /\ kvs # <<>>
             /\ \A i \in 1 .. Len(kvs) - 1 : kvs[i].key < kvs[i + 1].key
             /\ \A i \in DOMAIN Kids(p) :
                   /\ mem.pages[Kids(p)[i]].kvs[1].key = kvs[i].key
                   /\ i < Len(kvs) =>
                         \A key \in KeysOf(Kids(p)[i]) : key < kvs[i + 1].key
    /\ root # 0 => Cardinality(Depths(root)) = 1

\* From wherever SeekLE lands (the last key not above the one sought, else
\* the first key) the iterator yields every further key once, in order.
IteratesAll ==
    \A k \in Keys :
        LET below == {p \in Present : p <= k}
            start == IF below = {} THEN 0 ELSE Max(below)
            rest  == {p \in Present : p >= start}
            seen  == Walk(T!SeekLE(mem, root, k), Cardinality(Keys) + 1)
        IN /\ Len(seen) = Cardinality(rest)
           /\ \A i \in DOMAIN seen : seen[i] \in rest
           /\ \A i \in 1 .. Len(seen) - 1 : seen[i] < seen[i + 1]

\* The same as long as the tree has at most two levels, which is as far as
\* BIter.Next replaces its path correctly.
IteratesTwoLevels == (root = 0 \/ Depths(root) \subseteq {1, 2}) => IteratesAll
=============================================================================
