------------------------------ MODULE MCBTree ------------------------------
(* The B+tree in memory with byte sizes inside the limits of node.go:       *)
(* keys of 1000 bytes give internal nodes of up to four entries.            *)
EXTENDS BTreeMem

CONSTANTS v1, v2, big1, big2

Values == {v1, v2, big1, big2}

\* Leaves of up to four entries, of which one that is left alone is merged: two
\* levels.
Wide == [keys |-> 1 .. 7, vals |-> {v1, v2}]

\* Leaves of a single entry: three levels.
Tall == [keys |-> 1 .. 6, vals |-> {big1, big2}]

WideOrTall == {Wide, Tall}
TallOnly   == {[Tall EXCEPT !.vals = {big1}]}
Mixed      == {[keys |-> 1 .. 4, vals |-> {v1, big1}]}

KeyBytes(k) == IF k = 0 THEN 0 ELSE 1000

ValBytes(v) == IF v \in {big1, big2} THEN 3000 ELSE 6

\* Page numbers in memory are arbitrary (the tests use addresses), so two
\* states that differ only in how the pages are numbered are the same: a
\* state is seen as the nested nodes below the root and the number of pages
\* in use.
RECURSIVE Shape(_)
Shape(ptr) ==
    LET node == mem.pages[ptr]
    IN IF node.btype = "internal"
       THEN [i \in DOMAIN node.kvs |-> <<node.kvs[i].key, Shape(node.kvs[i].ptr)>>]
       ELSE [i \in DOMAIN node.kvs |-> <<node.kvs[i].key, node.kvs[i].val>>]

TreeView ==
    IF mem.fault THEN <<"fault">>
    ELSE <<load, Cardinality(DOMAIN mem.pages), IF root = 0 THEN <<>> ELSE Shape(root)>>
=============================================================================
