---------------------------- MODULE MCTxManager ----------------------------
(* The transaction manager on small sets of transactions, keys and values. *)
EXTENDS TxManager, TLC

CONSTANTS t1, t2, t3, v1, v2

TwoTxs == {t1, t2}
ThreeTxs == {t1, t2, t3}
OneVal == {v1}
TwoVals == {v1, v2}

\* Transactions are interchangeable: no definition compares two of them.
TxSymmetry == Permutations(Txs)
=============================================================================
