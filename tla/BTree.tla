------------------------------- MODULE BTree -------------------------------
(***************************************************************************)
(* The B+tree of internal/btree: lookup, insertion with splits, deletion   *)
(* with merges, and the iterator, as operators.                            *)
(*                                                                         *)
(* The tree reaches its pages only through three callbacks, here constant  *)
(* operators over a page store pg that is threaded through in the order of *)
(* the code's calls, so the order of frees and allocations is the code's.  *)
(* A node is its type, its entries and the size of the buffer it was built *)
(* in (1 or 2 pages); byte offsets inside a page are left out, sizes are   *)
(* not.  Positions are 0-based as in the code: entry i is kvs[i + 1].      *)
(*                                                                         *)
(* Writing past a node's buffer panics or cuts the entry short, and so     *)
(* does dereferencing a bad page number; either sets pg.fault.             *)
(***************************************************************************)
EXTENDS Integers, Sequences, SequencesExt

CONSTANTS
    KeyLen(_),      \* length of a key in bytes
    ValLen(_),      \* length of a value in bytes
    GetPage(_, _),  \* GetPage(pg, ptr): the node, or BadNode for a bad ptr
    NewPage(_, _),  \* NewPage(pg, node): [pg, ptr]
    DelPage(_, _)   \* DelPage(pg, ptr): pg

HEADER == 4
BTREE_PAGE_SIZE == 4096

NoKey == 0    \* the empty key: smaller than every key in use
NoVal == ""   \* the empty value of an entry in an internal node

Node(btype, kvs, pages) == [btype |-> btype, kvs |-> kvs, pages |-> pages]

\* What reading a page that holds no node gives: a page of zeroes has type 0.
ZeroNode == Node("zero", <<>>, 1)
BadNode  == Node("bad", <<>>, 1)

KV(ptr, key, val) == [ptr |-> ptr, key |-> key, val |-> val]

Fault(pg) == [pg EXCEPT !.fault = TRUE]

(***************************************************************************)
(* Nodes                                                                   *)
(***************************************************************************)

nkeys(node) == Len(node.kvs)

getPtr(node, idx) == node.kvs[idx + 1].ptr

\* The first key of an empty node reads as the empty key.
getKey(node, idx) == IF idx < nkeys(node) THEN node.kvs[idx + 1].key ELSE NoKey

getVal(node, idx) == node.kvs[idx + 1].val

\* klen, vlen, the key and the value; a pointer and an offset come on top.
kvBytes(kv) == 4 + KeyLen(kv.key) + (IF kv.val = NoVal THEN 0 ELSE ValLen(kv.val))

nbytes(node) ==
    FoldLeft(LAMBDA sum, kv : sum + 8 + 2 + kvBytes(kv), HEADER, node.kvs)

\* nodeAppendKV stays inside the buffer the node is built in.
Fits(node) == nbytes(node) <= node.pages * BTREE_PAGE_SIZE

\* nodeAppendRange(new, old, dst, src, n) appends this to new.
Entries(old, src, n) == SubSeq(old.kvs, src + 1, src + n)

\* Binary search for the last key <= key; 0 when every key is greater.
RECURSIVE bisect(_, _, _, _)
bisect(node, key, lo, hi) ==
    IF lo >= hi THEN lo
    ELSE LET mid == lo + (hi - lo) \div 2
         IN IF getKey(node, mid) <= key
            THEN bisect(node, key, mid + 1, hi)
            ELSE bisect(node, key, lo, mid)

nodeLookupLE(node, key) ==
    LET lo == bisect(node, key, 0, nkeys(node))
    IN IF lo = 0 THEN 0 ELSE lo - 1

(***************************************************************************)
(* Insertion                                                               *)
(***************************************************************************)

leafInsert(old, idx, key, val) ==
    Node("leaf",
         Entries(old, 0, idx) \o <<KV(0, key, val)>>
           \o Entries(old, idx, nkeys(old) - idx),
         2)

leafUpdate(old, idx, key, val) ==
    Node("leaf",
         Entries(old, 0, idx) \o <<KV(0, key, val)>>
           \o Entries(old, idx + 1, nkeys(old) - (idx + 1)),
         2)

\* Allocates the nodes one after the other: [pg, ptrs].
allocAll(pg, nodes) ==
    FoldLeft(LAMBDA acc, node :
                LET new == NewPage(acc.pg, node)
                IN [pg |-> new.pg, ptrs |-> Append(acc.ptrs, new.ptr)],
             [pg |-> pg, ptrs |-> <<>>], nodes)

\* One internal entry for each of the allocated kids.
kidEntries(ptrs, kids) ==
    [i \in DOMAIN kids |-> KV(ptrs[i], getKey(kids[i], 0), NoVal)]

\* [pg, node]: node with entry idx replaced by the kids, in a buffer of the
\* given number of pages.
nodeReplaceKidN(pg, old, idx, kids, pages) ==
    LET new  == allocAll(pg, kids)
        node == Node("internal",
                     Entries(old, 0, idx) \o kidEntries(new.ptrs, kids)
                       \o Entries(old, idx + 1, nkeys(old) - (idx + 1)),
                     pages)
    IN [pg |-> IF Fits(node) THEN new.pg ELSE Fault(new.pg), node |-> node]

\* The number of entries that go left: the loop stops, but not at entry 0,
\* where the entries so far (without their pointers and offsets) and the next
\* one exceed half the node's bytes (with them).
splitIdx(old) ==
    LET size(n) == FoldLeft(LAMBDA sum, kv : sum + kvBytes(kv), 0,
                            Entries(old, 0, n))
        stops   == {i \in 1 .. nkeys(old) - 1 : size(i + 1) > nbytes(old) \div 2}
    IN IF stops = {} THEN nkeys(old) ELSE CHOOSE i \in stops : \A j \in stops : i <= j

\* Mutant: the entry at the split is lost.
nodeSplit2_Lost(old, leftPages, rightPages) ==
    LET n == splitIdx(old)
    IN <<Node(old.btype, Entries(old, 0, n), leftPages),
         Node(old.btype, Entries(old, n + 1, nkeys(old) - (n + 1)), rightPages)>>

nodeSplit2(old, leftPages, rightPages) ==
    LET n == splitIdx(old)
    IN <<Node(old.btype, Entries(old, 0, n), leftPages),
         Node(old.btype, Entries(old, n, nkeys(old) - n), rightPages)>>

\* The left of two parts is split once more when it is larger than a page.
splitLeft(two) ==
    IF nbytes(two[1]) <= BTREE_PAGE_SIZE THEN two
    ELSE nodeSplit2(two[1], 1, 1) \o <<two[2]>>

nodeSplit3(old) ==
    IF nbytes(old) <= BTREE_PAGE_SIZE THEN <<old>> ELSE splitLeft(nodeSplit2(old, 2, 1))

\* A split whose parts do not fit their buffers panics before any page of
\* the new tree is allocated.
SplitFits(split) == \A i \in DOMAIN split : Fits(split[i])

\* The parent after kid, the new version of its child idx, was split.
putKid(node, idx, kid, split) ==
    IF kid.pg.fault \/ ~SplitFits(split)
    THEN [pg |-> Fault(kid.pg), node |-> node]
    ELSE nodeReplaceKidN(kid.pg, node, idx, split, 2)

splitKid(node, idx, kid) == putKid(node, idx, kid, nodeSplit3(kid.node))

InLeaf(pg, leaf) == [pg |-> IF Fits(leaf) THEN pg ELSE Fault(pg), node |-> leaf]

\* [pg, node]: the node with the key inserted below it, not yet split.
RECURSIVE treeInsert(_, _, _, _)
treeInsert(pg, node, key, val) ==
    LET idx == nodeLookupLE(node, key)
    IN CASE node.btype = "leaf" ->
              InLeaf(pg, IF nkeys(node) > 0 /\ key = getKey(node, idx)
                         THEN leafUpdate(node, idx, key, val)
                         ELSE leafInsert(node,
                                IF nkeys(node) > 0 /\ key > getKey(node, idx)
                                THEN idx + 1 ELSE idx,
                                key, val))
         [] node.btype = "internal" ->
              LET kptr == getPtr(node, idx)
              IN splitKid(node, idx,
                          treeInsert(DelPage(pg, kptr), GetPage(pg, kptr), key, val))
         [] node.btype = "zero" -> [pg |-> pg, node |-> Node("zero", <<>>, 2)]
         [] OTHER -> [pg |-> Fault(pg), node |-> node]

\* [pg, root]: node becomes the root.
newRoot(pg, node) ==
    LET new == NewPage(pg, node)
    IN [pg |-> IF Fits(node) THEN new.pg ELSE Fault(new.pg), root |-> new.ptr]

\* The allocated parts of the old root, alone or below a new root.
growRoot(kids, split) ==
    IF Len(split) = 1
    THEN [pg |-> kids.pg, root |-> kids.ptrs[1]]
    ELSE newRoot(kids.pg, Node("internal", kidEntries(kids.ptrs, split), 1))

putRoot(root, top, split) ==
    IF top.pg.fault \/ ~SplitFits(split)
    THEN [pg |-> Fault(top.pg), root |-> root]
    ELSE growRoot(allocAll(top.pg, split), split)

splitRoot(root, top) == putRoot(root, top, nodeSplit3(top.node))

firstRoot(pg, leaf) ==
    IF Fits(leaf) THEN newRoot(pg, leaf) ELSE [pg |-> Fault(pg), root |-> 0]

\* [pg, root] after Insert.
Insert(pg, root, key, val) ==
    IF root = 0 THEN firstRoot(pg, Node("leaf", <<KV(0, key, val)>>, 1))
    ELSE splitRoot(root, treeInsert(DelPage(pg, root), GetPage(pg, root), key, val))

(***************************************************************************)
(* Lookup                                                                  *)
(***************************************************************************)

\* The leaf that Get ends in, or the node of another type it is stuck at (it
\* reads a page of zeroes again and again).
RECURSIVE descend(_, _, _)
descend(pg, node, key) ==
    IF node.btype = "internal"
    THEN descend(pg, GetPage(pg, getPtr(node, nodeLookupLE(node, key))), key)
    ELSE node

\* [ok, val].  A tree whose path for the key ends in no leaf gives ok = "stuck".
Get(pg, root, key) ==
    LET leaf == descend(pg, GetPage(pg, root), key)
        idx  == nodeLookupLE(leaf, key)
    IN IF root = 0 THEN [ok |-> "no", val |-> NoVal]
       ELSE IF leaf.btype # "leaf" THEN [ok |-> "stuck", val |-> NoVal]
       ELSE IF getKey(leaf, idx) = key THEN [ok |-> "yes", val |-> getVal(leaf, idx)]
       ELSE [ok |-> "no", val |-> NoVal]

(***************************************************************************)
(* Deletion                                                                *)
(***************************************************************************)

\* Mutant: the size of the merged node is not looked at.
shouldMerge_AnySize(pg, node, idx, updated) ==
    IF nbytes(updated) > BTREE_PAGE_SIZE \div 4 THEN [dir |-> 0]
    ELSE IF idx > 0
    THEN [dir |-> -1, sibling |-> GetPage(pg, getPtr(node, idx - 1))]
    ELSE IF idx + 1 < nkeys(node)
    THEN [dir |-> 1, sibling |-> GetPage(pg, getPtr(node, idx + 1))]
    ELSE [dir |-> 0]

\* [dir, sibling]: merge with the left (-1) or the right (1) sibling, or not.
shouldMerge(pg, node, idx, updated) ==
    LET sibling(i) == GetPage(pg, getPtr(node, i))
        merges(i)  == nbytes(sibling(i)) + nbytes(updated) - HEADER
                        <= BTREE_PAGE_SIZE
    IN IF nbytes(updated) > BTREE_PAGE_SIZE \div 4 THEN [dir |-> 0]
       ELSE IF idx > 0 /\ merges(idx - 1)
       THEN [dir |-> -1, sibling |-> sibling(idx - 1)]
       ELSE IF idx + 1 < nkeys(node) /\ merges(idx + 1)
       THEN [dir |-> 1, sibling |-> sibling(idx + 1)]
       ELSE [dir |-> 0]

nodeMerge(left, right) == Node(left.btype, left.kvs \o right.kvs, 1)

\* Mutant: the merged kid gets the key of its right part.
nodeReplace2Kid_RightKey(node, idx, ptr, key) ==
    Node("internal",
         Entries(node, 0, idx) \o <<KV(ptr, getKey(node, idx + 1), NoVal)>>
           \o Entries(node, idx + 2, nkeys(node) - (idx + 2)),
         1)

nodeReplace2Kid(node, idx, ptr, key) ==
    Node("internal",
         Entries(node, 0, idx) \o <<KV(ptr, key, NoVal)>>
           \o Entries(node, idx + 2, nkeys(node) - (idx + 2)),
         1)

\* Mutant: the page of the sibling is not freed.
mergeKids_Leak(pg, node, idx, merged, gone) ==
    LET new    == NewPage(pg, merged)
        parent == nodeReplace2Kid(node, idx, new.ptr, getKey(merged, 0))
    IN [pg |-> IF Fits(merged) /\ Fits(parent) THEN new.pg ELSE Fault(new.pg),
        found |-> TRUE, node |-> parent]

\* The parent after its kid idx and the next one became one page, merged;
\* gone is the page of the sibling.
mergeKids(pg, node, idx, merged, gone) ==
    LET new    == NewPage(DelPage(pg, gone), merged)
        parent == nodeReplace2Kid(node, idx, new.ptr, getKey(merged, 0))
    IN [pg |-> IF Fits(merged) /\ Fits(parent) THEN new.pg ELSE Fault(new.pg),
        found |-> TRUE, node |-> parent]

\* [pg, found, node]: the node with the key deleted below it; found is FALSE
\* for the code's empty BNode.
RECURSIVE treeDelete(_, _, _)
treeDelete(pg, node, key) ==
    LET idx == nodeLookupLE(node, key)
        absent == [pg |-> pg, found |-> FALSE, node |-> node]
    IN CASE node.btype = "leaf" ->
              IF getKey(node, idx) # key THEN absent
              ELSE [absent EXCEPT !.found = TRUE,
                      !.node = Node("leaf",
                                    Entries(node, 0, idx)
                                      \o Entries(node, idx + 1, nkeys(node) - (idx + 1)),
                                    1)]
         [] node.btype = "internal" ->
              LET kptr    == getPtr(node, idx)
                  kid     == treeDelete(pg, GetPage(pg, kptr), key)
                  updated == kid.node
                  freed   == DelPage(kid.pg, kptr)
                  merge   == shouldMerge(freed, node, idx, updated)
                  kept    == nodeReplaceKidN(freed, node, idx, <<updated>>, 1)
              IN IF ~kid.found THEN [absent EXCEPT !.pg = kid.pg]
                 ELSE IF kid.pg.fault THEN kid
                 ELSE IF merge.dir < 0
                 THEN mergeKids(freed, node, idx - 1,
                                nodeMerge(merge.sibling, updated), getPtr(node, idx - 1))
                 ELSE IF merge.dir > 0
                 THEN mergeKids(freed, node, idx,
                                nodeMerge(updated, merge.sibling), getPtr(node, idx + 1))
                 ELSE IF nkeys(updated) = 0
                 THEN [pg |-> freed, found |-> TRUE, node |-> Node("internal", <<>>, 1)]
                 ELSE [pg |-> kept.pg, found |-> TRUE, node |-> kept.node]
         [] node.btype = "zero" -> absent
         [] OTHER -> [absent EXCEPT !.pg = Fault(pg)]

\* [pg, root, found] after Delete.
Delete(pg, root, key) ==
    LET top   == treeDelete(pg, GetPage(pg, root), key)
        freed == DelPage(top.pg, root)
        new   == NewPage(freed, top.node)
    IN IF root = 0 THEN [pg |-> pg, root |-> root, found |-> FALSE]
       ELSE IF ~top.found \/ top.pg.fault
       THEN [pg |-> top.pg, root |-> root, found |-> FALSE]
       ELSE IF nkeys(top.node) = 0 THEN [pg |-> freed, root |-> 0, found |-> TRUE]
       ELSE [pg |-> new.pg, root |-> new.ptr, found |-> TRUE]

(***************************************************************************)
(* The iterator: the nodes on the path to a leaf and a position in each    *)
(***************************************************************************)

\* Ends in a leaf (on a page of zeroes the code's loop would not end).
RECURSIVE seekFrom(_, _, _, _)
seekFrom(pg, node, key, iter) ==
    LET idx  == nodeLookupLE(node, key)
        here == [path |-> Append(iter.path, node), pos |-> Append(iter.pos, idx)]
    IN IF node.btype # "internal" THEN here
       ELSE seekFrom(pg, GetPage(pg, getPtr(node, idx)), key, here)

SeekLE(pg, root, key) ==
    IF root = 0 THEN [path |-> <<>>, pos |-> <<>>]
    ELSE seekFrom(pg, GetPage(pg, root), key, [path |-> <<>>, pos |-> <<>>])

Valid(iter) ==
    /\ iter.path # <<>>
    /\ Last(iter.pos) < nkeys(Last(iter.path))

IterKey(iter) == getKey(Last(iter.path), Last(iter.pos))

\* The first-child path below node is appended to the iterator.
RECURSIVE firstLeaf(_, _, _)
firstLeaf(pg, node, iter) ==
    IF node.btype # "internal" THEN iter
    ELSE LET child == GetPage(pg, getPtr(node, 0))
         IN firstLeaf(pg, child, [path |-> Append(iter.path, child),
                                  pos  |-> Append(iter.pos, 0)])

\* Mutant: the last entry of a node is never reached.
IterNext_Short(pg, iter) ==
    LET depth == Len(iter.path)
        more  == {l \in 1 .. depth : iter.pos[l] + 2 < nkeys(iter.path[l])}
    IN IF depth \in more THEN [iter EXCEPT !.pos[depth] = @ + 1]
       ELSE [path |-> <<>>, pos |-> <<>>]

\* Next: forward in the leaf, or else in the lowest ancestor that has a next
\* child.  That child replaces the level below its parent; the path below the
\* child is appended behind whatever the iterator held at the lower levels.
IterNext(pg, iter) ==
    LET depth == Len(iter.path)
        more  == {l \in 1 .. depth : iter.pos[l] + 1 < nkeys(iter.path[l])}
        level == CHOOSE l \in more : \A m \in more : m <= l
        child == GetPage(pg, getPtr(iter.path[level], iter.pos[level] + 1))
        moved == [path |-> [iter.path EXCEPT ![level + 1] = child],
                  pos  |-> [iter.pos EXCEPT ![level] = @ + 1, ![level + 1] = 0]]
    IN IF more = {} THEN [path |-> <<>>, pos |-> <<>>]
       ELSE IF level = depth THEN [iter EXCEPT !.pos[depth] = @ + 1]
       ELSE firstLeaf(pg, child, moved)
=============================================================================
