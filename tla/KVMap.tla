------------------------------- MODULE KVMap -------------------------------
(***************************************************************************)
(* What an ordered key-value store promises its caller: a map that Set and *)
(* Del change one key at a time.  The tree, the files of a sharded         *)
(* database and the rows of its tables are shown to implement it.          *)
(***************************************************************************)
CONSTANTS Keys, Vals, NoVal

VARIABLE map   \* map[k]: the value of k, or NoVal

Init == map = [k \in Keys |-> NoVal]

\* Some value is stored under k.
Set(k) == map'[k] \in Vals /\ map' = [map EXCEPT ![k] = map'[k]]

Del(k) ==
    /\ map[k] # NoVal
    /\ map' = [map EXCEPT ![k] = NoVal]

Next == \E k \in Keys : Set(k) \/ Del(k)

Spec == Init /\ [][Next]_map
=============================================================================
