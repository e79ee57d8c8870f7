----------------------------- MODULE MCKVStore -----------------------------
(* The key-value store with the B+tree of module BTree on its pages.         *)
EXTENDS KVStore

CONSTANTS v1, v2, VBytes(_)

Load(values, calls, failures, deaths) ==
    [vals |-> values, ops |-> calls, errors |-> failures, crashes |-> deaths]

\* Long runs with crashes, shorter ones that also overwrite, I/O errors.
CrashesOrErrors == {Load({v1}, 5, 0, 2), Load({v1, v2}, 4, 0, 1), Load({v1}, 4, 2, 1)}

OneCrash == {Load({v1, v2}, 4, 0, 1)}
NoCrash == {Load({v1, v2}, 4, 0, 0)}

KeyBytes(k) == IF k = 0 THEN 0 ELSE 1000

\* All keys in one leaf.
SmallBytes(v) == 6

\* A leaf for each key.
LargeBytes(v) == 3000

T == INSTANCE BTree WITH KeyLen <- KeyBytes, ValLen <- VBytes

BInsert(s, k, v) ==
    LET new == T!Insert(s, s.root, k, v) IN [new.pg EXCEPT !.root = new.root]

BDelete(s, k) ==
    LET new == T!Delete(s, s.root, k)
    IN [st |-> [new.pg EXCEPT !.root = new.root], found |-> new.found]

\* What Get finds for every key; "stuck" where its path ends in no leaf.
BContents(s) ==
    [k \in Keys |-> LET got == T!Get(s, s.root, k)
                    IN IF got.ok = "stuck" THEN "stuck" ELSE got.val]
=============================================================================
