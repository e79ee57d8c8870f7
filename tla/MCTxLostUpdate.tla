--------------------------- MODULE MCTxLostUpdate ---------------------------
(***************************************************************************)
(* Serializable transactions that read a key and then write it, observed   *)
(* with the position in the commit log at which each read was made.        *)
(***************************************************************************)
EXTENDS TxManager

CONSTANTS t1, t2, v1

TwoTxs == {t1, t2}
OneVal == {v1}

VARIABLE readAt   \* readAt[t][k]: Len(log) at t's first Get of k, or -1

obsVars == <<vars, readAt>>

ObsInit == Init /\ readAt = [t \in Txs |-> [k \in Keys |-> -1]]

\* A read is a step that adds a one-key range to the reads of a transaction.
ObsNext ==
    /\ Next
    /\ readAt' = [t \in Txs |-> [k \in Keys |->
                    IF readAt[t][k] = -1 /\ PointRange(k) \in tx'[t].reads
                    THEN Len(log) ELSE readAt[t][k]]]

ObsSpec == ObsInit /\ [][ObsNext]_obsVars

\* Position i of the commit log belongs to a transaction that committed.
CommittedAt(i, u) ==
    tx[u].status = "committed" /\ log[i].version = tx[u].version

\* Optimistic concurrency at Serializable: when a transaction that read k and
\* writes k passes Commit, no other transaction committed a write of k
\* between that read and the commit.
NoLostUpdate ==
    [][\A t \in Txs :
         mu = NoTx /\ mu' = t /\ tx[t].isolation >= Serializable
         => \A k \in WriteSet(t) :
              readAt[t][k] >= 0
              => \A u \in Txs \ {t}, i \in readAt[t][k] + 1 .. Len(log) :
                    CommittedAt(i, u) => k \notin log[i].writes]_obsVars
=============================================================================
