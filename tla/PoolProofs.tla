----------------------------- MODULE PoolProofs -----------------------------
(***************************************************************************)
(* Theorems about the connection pool, for any set of sessions, any limits *)
(* on the number of connections, both modes and both time limits.          *)
(***************************************************************************)
EXTENDS Pool, TLAPS, SequenceTheorems, FiniteSetTheorems

Transaction == [status : {"nil", "ongoing", "committed"}, mine : BOOLEAN]

Conn == [inUse : BOOLEAN, idle : BOOLEAN, expired : BOOLEAN, tx : Transaction]

TypeOK ==
    /\ mode \in {SessionMode, TransactionMode}
    /\ conn \in Seq(Conn)
    /\ conns \in Seq(1 .. Len(conn))
    /\ free \in Seq(1 .. Len(conn))
    /\ closed \in BOOLEAN
    /\ mu \in Sessions \cup {NoSession}
    /\ held \in [Sessions -> 0 .. Len(conn)]
    /\ panicked \in BOOLEAN

\* What Pool.conns lists, it lists once, and it is in use or free: what
\* removeConn takes away by mistake is missing from conns, never added to it.
Listed ==
    /\ \A i, j \in DOMAIN conns : conns[i] = conns[j] => i = j
    /\ \A i \in DOMAIN conns :
          conns[i] \in InUse \/ \E j \in DOMAIN free : free[j] = conns[i]

\* In TransactionMode only a connection in use has a transaction, one that the
\* session holding it began.
TxOfHolder ==
    mode = TransactionMode =>
        \A c \in DOMAIN conn :
            \/ conn[c].tx.status = "nil"
            \/ conn[c].inUse /\ conn[c].tx.mine

\* The inductive invariant.
PoolInv == TypeOK /\ Exclusive /\ Listed /\ TxOfHolder

(***************************************************************************)
(* Lemmas about the helpers                                                *)
(***************************************************************************)

\* RemoveAt drops one element of a sequence and keeps the others in order.
LEMMA RemoveAtIsSeq ==
    ASSUME NEW S, NEW s \in Seq(S), NEW i \in 1 .. Len(s)
    PROVE  /\ RemoveAt(s, i) \in Seq(S)
           /\ Len(RemoveAt(s, i)) = Len(s) - 1
           /\ \A j \in 1 .. Len(s) - 1 :
                RemoveAt(s, i)[j] = IF j < i THEN s[j] ELSE s[j + 1]
<1> DEFINE front == SubSeq(s, 1, i - 1)
           rear == SubSeq(s, i + 1, Len(s))
<1>1. /\ front \in Seq(S)
      /\ Len(front) = i - 1
      /\ \A j \in 1 .. i - 1 : front[j] = s[j]
  BY SubSeqProperties
<1>2. /\ rear \in Seq(S)
      /\ Len(rear) = Len(s) - i
      /\ \A j \in 1 .. Len(s) - i : rear[j] = s[i + j]
  BY SubSeqProperties
<1>3. RemoveAt(s, i) = front \o rear
  BY DEF RemoveAt
<1> HIDE DEF front, rear
<1>4. /\ front \o rear \in Seq(S)
      /\ Len(front \o rear) = Len(front) + Len(rear)
      /\ \A j \in 1 .. Len(front) + Len(rear) :
            (front \o rear)[j] = IF j <= Len(front) THEN front[j] ELSE rear[j - Len(front)]
  BY <1>1, <1>2, ConcatProperties, Zenon
<1> QED
  BY <1>1, <1>2, <1>3, <1>4, SMTT(20)

\* The entries of a sequence without repetition after RemoveAt: all others, and
\* still once each.
LEMMA RemoveAtDistinct ==
    ASSUME NEW S, NEW s \in Seq(S), NEW i \in 1 .. Len(s),
           \A a, b \in DOMAIN s : s[a] = s[b] => a = b
    PROVE  /\ \A a, b \in DOMAIN RemoveAt(s, i) :
                 RemoveAt(s, i)[a] = RemoveAt(s, i)[b] => a = b
           /\ \A a \in DOMAIN RemoveAt(s, i) :
                 \E k \in DOMAIN s : k # i /\ RemoveAt(s, i)[a] = s[k]
           /\ \A k \in DOMAIN s :
                 k # i => \E a \in DOMAIN RemoveAt(s, i) : RemoveAt(s, i)[a] = s[k]
<1> DEFINE r == RemoveAt(s, i)
           from(j) == IF j < i THEN j ELSE j + 1
<1>1. DOMAIN s = 1 .. Len(s) /\ Len(s) \in Nat
  OBVIOUS
<1>2. DOMAIN r = 1 .. Len(s) - 1
  BY RemoveAtIsSeq
<1>3. \A j \in DOMAIN r : r[j] = s[from(j)]
  BY <1>2, RemoveAtIsSeq, Zenon
<1> HIDE DEF r
<1>4. \A j \in DOMAIN r : from(j) \in DOMAIN s /\ from(j) # i
  BY <1>1, <1>2
<1>5. \A a, b \in DOMAIN r : from(a) = from(b) => a = b
  BY <1>2
<1>6. \A k \in DOMAIN s : k # i => \E a \in DOMAIN r : from(a) = k
  <2> SUFFICES ASSUME NEW k \in DOMAIN s, k # i
               PROVE  \E a \in DOMAIN r : from(a) = k
    OBVIOUS
  <2>1. CASE k < i
    BY <1>1, <1>2, <2>1
  <2>2. CASE k > i
    <3>1. k - 1 \in DOMAIN r /\ from(k - 1) = k
      BY <1>1, <1>2, <2>2
    <3> QED
      BY <3>1
  <2> QED
    BY <1>1, <2>1, <2>2
<1> HIDE DEF from
<1>7. \A a, b \in DOMAIN r : r[a] = r[b] => a = b
  BY <1>3, <1>4, <1>5
<1>8. \A a \in DOMAIN r : \E k \in DOMAIN s : k # i /\ r[a] = s[k]
  BY <1>3, <1>4
<1>9. \A k \in DOMAIN s : k # i => \E a \in DOMAIN r : r[a] = s[k]
  BY <1>3, <1>6
<1> QED
  BY <1>7, <1>8, <1>9 DEF r

\* The loop of Acquire stands still at an index of free; as nothing in free is
\* in use, that is the first one, and it stands nowhere only if free is empty.
LEMMA StopsAtFirst ==
    ASSUME TypeOK, Exclusive
    PROVE  /\ Stops = {} => DOMAIN free = {}
           /\ Stops # {} => At = 1 /\ At \in DOMAIN free
<1>1. \A i \in DOMAIN free : free[i] \in DOMAIN conn /\ ~conn[free[i]].inUse
  BY DEF TypeOK, Exclusive, InUse
<1>2. Stops = DOMAIN free
  BY <1>1 DEF Stops
<1>3. DOMAIN free = 1 .. Len(free) /\ Len(free) \in Nat
  BY DEF TypeOK
<1>4. ASSUME Stops # {} PROVE At = 1 /\ At \in DOMAIN free
  <2>1. 1 \in Stops /\ \A j \in Stops : j \in Nat /\ 1 <= j
    BY <1>2, <1>3, <1>4
  <2>2. At \in Stops /\ \A j \in Stops : At <= j
    BY <2>1 DEF At
  <2> QED
    BY <2>1, <2>2, <1>2
<1> QED
  BY <1>2, <1>4
(***************************************************************************)
(* The invariant is inductive                                              *)
(***************************************************************************)

\* NewPool establishes the invariant: MinConns connections, all free.
LEMMA InitInv == Init => PoolInv
<1> SUFFICES ASSUME Init PROVE PoolInv
  OBVIOUS
<1> USE ConnsAssumption, ModesAssumption DEF Init
<1>1. Len(conn) = MinConns /\ DOMAIN conn = 1 .. MinConns
  OBVIOUS
<1>2. NewConn \in Conn
  BY DEF NewConn, NoTx, Conn, Transaction
<1>3. TypeOK
  <2>1. conn \in Seq(Conn)
    BY <1>2
  <2>2. conns \in Seq(1 .. MinConns) /\ free \in Seq(1 .. MinConns)
    OBVIOUS
  <2>3. held \in [Sessions -> 0 .. MinConns]
    BY DEF NoConn
  <2> QED
    BY <1>1, <2>1, <2>2, <2>3, Zenon DEF TypeOK
<1>4. InUse = {}
  BY <1>1 DEF InUse, NewConn
<1>5. Exclusive
  BY <1>4 DEF Exclusive
<1>6. Listed
  BY DEF Listed
<1>7. TxOfHolder
  BY <1>1 DEF TxOfHolder, NewConn, NoTx
<1> QED
  BY <1>3, <1>5, <1>6, <1>7 DEF PoolInv

\* A removal: conns loses one entry.
LEMMA RemoveInv ==
    ASSUME PoolInv, NEW s \in Sessions, AcquireRemove(s)
    PROVE  PoolInv'
<1> USE DEF PoolInv
<1>1. At \in 1 .. Len(conns)
  BY StopsAtFirst DEF AcquireRemove, TypeOK
<1>2. conns' \in Seq(1 .. Len(conn))
  BY <1>1, RemoveAtIsSeq DEF AcquireRemove, removeConn, TypeOK
<1>3. TypeOK'
  BY <1>2 DEF TypeOK, AcquireRemove
<1>4. InUse' = InUse
  BY DEF InUse, AcquireRemove
<1>5. Exclusive'
  BY <1>4 DEF Exclusive, AcquireRemove
<1>6. Listed'
  <2>1. /\ \A i, j \in DOMAIN conns' : conns'[i] = conns'[j] => i = j
        /\ \A j \in DOMAIN conns' : \E k \in DOMAIN conns : conns'[j] = conns[k]
    BY <1>1, RemoveAtDistinct, SMTT(20) DEF AcquireRemove, removeConn, TypeOK, Listed
  <2> QED
    BY <1>4, <2>1 DEF Listed, AcquireRemove
<1>7. TxOfHolder'
  BY DEF TxOfHolder, AcquireRemove
<1> QED
  BY <1>3, <1>5, <1>6, <1>7
\* Acquire takes a free connection.
LEMMA FreeInv ==
    ASSUME PoolInv, NEW s \in Sessions, AcquireFree(s)
    PROVE  PoolInv'
<1> USE DEF PoolInv
<1> DEFINE c == free[At]
<1>1. At \in 1 .. Len(free) /\ c \in 1 .. Len(conn) /\ Len(conn) \in Nat
  BY StopsAtFirst DEF AcquireFree, TypeOK
<1>2. ~conn[c].inUse /\ held[s] = NoConn
  BY <1>1 DEF Exclusive, InUse, AcquireFree, Acquiring, TypeOK
<1>3. conn' = [conn EXCEPT ![c] = [conn[c] EXCEPT !.inUse = TRUE, !.idle = FALSE]]
  BY Zenon DEF AcquireFree
<1>4. held' = [held EXCEPT ![s] = c]
  BY DEF AcquireFree
<1>5. free' = RemoveAt(free, At)
  BY DEF AcquireFree
<1>6. UNCHANGED <<mode, conns, closed, panicked>> /\ mu' = NoSession
  BY DEF AcquireFree
<1>7. conn[c] \in Conn /\ [conn[c] EXCEPT !.inUse = TRUE, !.idle = FALSE] \in Conn
  <2>1. conn[c] \in Conn
    BY <1>1, ElementOfSeq DEF TypeOK
  <2> QED
    BY <2>1, Zenon DEF Conn
<1>8. /\ conn' \in Seq(Conn) /\ Len(conn') = Len(conn)
      /\ DOMAIN conn' = DOMAIN conn /\ DOMAIN conn = 1 .. Len(conn)
      /\ \A d \in DOMAIN conn : d # c => conn'[d] = conn[d]
      /\ conn'[c].inUse /\ conn'[c].tx = conn[c].tx
  BY <1>1, <1>3, <1>7, ExceptSeq DEF TypeOK, Conn
<1>9. /\ free' \in Seq(1 .. Len(conn))
      /\ \A i, j \in DOMAIN free' : free'[i] = free'[j] => i = j
      /\ \A i \in DOMAIN free' : \E k \in DOMAIN free : k # At /\ free'[i] = free[k]
      /\ \A k \in DOMAIN free : k # At => \E i \in DOMAIN free' : free'[i] = free[k]
  <2>1. free \in Seq(1 .. Len(conn)) /\ At \in 1 .. Len(free)
    BY <1>1 DEF TypeOK
  <2>2. \A i, j \in DOMAIN free : free[i] = free[j] => i = j
    BY DEF Exclusive
  <2>3. free' \in Seq(1 .. Len(conn))
    BY <2>1, <1>5, RemoveAtIsSeq
  <2>4. \A i, j \in DOMAIN free' : free'[i] = free'[j] => i = j
    BY <2>1, <2>2, <1>5, RemoveAtDistinct
  <2>5. \A i \in DOMAIN free' : \E k \in DOMAIN free : k # At /\ free'[i] = free[k]
    BY <2>1, <2>2, <1>5, RemoveAtDistinct
  <2>6. \A k \in DOMAIN free : k # At => \E i \in DOMAIN free' : free'[i] = free[k]
    BY <2>1, <2>2, <1>5, RemoveAtDistinct
  <2> QED
    BY <2>3, <2>4, <2>5, <2>6
<1>10. At \in DOMAIN free
  BY <1>1 DEF TypeOK
<1> HIDE DEF c
<1>11. TypeOK'
  BY <1>1, <1>4, <1>6, <1>8, <1>9 DEF TypeOK
<1>12. InUse' = InUse \cup {c}
  BY <1>1, <1>8 DEF InUse
<1>13. c \notin InUse
  BY <1>2 DEF InUse
<1>14. c # NoConn
  BY <1>1 DEF NoConn
<1>15. Exclusive'
  <2>1. \A t \in Sessions : held'[t] = IF t = s THEN c ELSE held[t]
    BY <1>4 DEF TypeOK
  <2>2. \A t \in Sessions : held[t] # c
    BY <1>13, <1>14 DEF Exclusive
  <2>3. \A i \in DOMAIN free' : free'[i] \notin InUse'
    BY <1>9, <1>10, <1>12 DEF Exclusive, c
  <2>4. \A t \in Sessions : held'[t] # NoConn => held'[t] \in InUse'
    BY <2>1, <1>12 DEF Exclusive
  <2>5. \A t, u \in Sessions : held'[t] = held'[u] => t = u \/ held'[t] = NoConn
    BY <2>1, <2>2 DEF Exclusive
  <2>6. \A d \in InUse' : \E t \in Sessions : held'[t] = d
    <3>1. \A d \in InUse : d # NoConn
      BY <1>8 DEF InUse, NoConn
    <3> QED
      BY <2>1, <3>1, <1>2, <1>12 DEF Exclusive
  <2> QED
    BY <2>3, <2>4, <2>5, <2>6, <1>9 DEF Exclusive
<1>16. Listed'
  <2> SUFFICES ASSUME NEW i \in DOMAIN conns
               PROVE  conns[i] \in InUse' \/ \E j \in DOMAIN free' : free'[j] = conns[i]
    BY <1>6 DEF Listed
  <2> QED
    BY <1>9, <1>12 DEF Listed, c
<1>17. TxOfHolder'
  BY <1>2, <1>6, <1>8, <1>1 DEF TxOfHolder
<1> QED
  BY <1>11, <1>15, <1>16, <1>17

\* Acquire creates a connection, which goes to the session at once.
LEMMA NewInv ==
    ASSUME PoolInv, NEW s \in Sessions, AcquireNew(s)
    PROVE  PoolInv'
<1> USE DEF PoolInv
<1> DEFINE c == Len(conn) + 1
           new == [NewConn EXCEPT !.inUse = TRUE]
<1>1. Len(conn) \in Nat /\ DOMAIN conn = 1 .. Len(conn)
  BY DEF TypeOK
<1>2. new \in Conn /\ new.inUse /\ new.tx = NoTx
  BY Zenon DEF NewConn, NoTx, Conn, Transaction
<1>3. /\ conn' = Append(conn, new) /\ conns' = Append(conns, c)
      /\ held' = [held EXCEPT ![s] = c] /\ mu' = NoSession /\ held[s] = NoConn
      /\ UNCHANGED <<mode, free, closed, panicked>>
  BY DEF AcquireNew, nextID, Acquiring
<1> HIDE DEF new
<1>4. /\ conn' \in Seq(Conn) /\ Len(conn') = c /\ DOMAIN conn' = 1 .. c
      /\ \A d \in DOMAIN conn : conn'[d] = conn[d]
      /\ conn'[c] = new
  BY <1>1, <1>2, <1>3, AppendProperties DEF TypeOK
<1>5. conns \in Seq(1 .. c) /\ free \in Seq(1 .. c)
  BY <1>1, SeqMonotonic DEF TypeOK
<1>6. /\ conns' \in Seq(1 .. c) /\ Len(conns') = Len(conns) + 1
      /\ \A i \in 1 .. Len(conns) : conns'[i] = conns[i]
      /\ conns'[Len(conns) + 1] = c
  BY <1>1, <1>3, <1>5, AppendProperties
<1>7. TypeOK'
  BY <1>1, <1>3, <1>4, <1>5, <1>6 DEF TypeOK
<1>8. InUse' = InUse \cup {c}
  BY <1>1, <1>2, <1>4 DEF InUse
<1>9. /\ \A d \in InUse : d # c
      /\ \A i \in DOMAIN free : free[i] # c
      /\ \A i \in DOMAIN conns : conns[i] # c
      /\ \A t \in Sessions : held[t] # c
      /\ c # NoConn
  BY <1>1 DEF InUse, TypeOK, NoConn
<1>10. Exclusive'
  <2>1. \A t \in Sessions : held'[t] = IF t = s THEN c ELSE held[t]
    BY <1>3 DEF TypeOK
  <2>2. \A i \in DOMAIN free : free[i] \notin InUse'
    BY <1>8, <1>9 DEF Exclusive
  <2>3. \A t \in Sessions : held'[t] # NoConn => held'[t] \in InUse'
    BY <2>1, <1>8 DEF Exclusive
  <2>4. \A t, u \in Sessions : held'[t] = held'[u] => t = u \/ held'[t] = NoConn
    BY <2>1, <1>9 DEF Exclusive
  <2>5. \A d \in InUse : d # NoConn
    BY <1>1 DEF InUse, NoConn
  <2>6. \A d \in InUse' : \E t \in Sessions : held'[t] = d
    BY <2>1, <2>5, <1>3, <1>8 DEF Exclusive
  <2> QED
    BY <2>2, <2>3, <2>4, <2>6, <1>3 DEF Exclusive
<1>11. Listed'
  <2>1. DOMAIN conns = 1 .. Len(conns) /\ DOMAIN conns' = 1 .. Len(conns) + 1
        /\ Len(conns) \in Nat
    BY <1>6 DEF TypeOK
  <2> HIDE DEF c
  <2>2. \A i, j \in DOMAIN conns' : conns'[i] = conns'[j] => i = j
    BY <1>6, <1>9, <2>1 DEF Listed
  <2>3. \A i \in DOMAIN conns' :
           conns'[i] \in InUse' \/ \E j \in DOMAIN free : free[j] = conns'[i]
    BY <1>6, <1>8, <2>1 DEF Listed
  <2> QED
    BY <1>3, <2>2, <2>3 DEF Listed
<1>12. TxOfHolder'
  BY <1>1, <1>2, <1>3, <1>4, SMTT(20) DEF TxOfHolder, NoTx
<1> QED
  BY <1>7, <1>10, <1>11, <1>12
\* Release puts the connection back, and in TransactionMode drops its transaction.
LEMMA ReleaseInv ==
    ASSUME PoolInv, NEW s \in Sessions, Release(s)
    PROVE  PoolInv'
<1> USE DEF PoolInv
<1> DEFINE c == held[s]
           r == [conn[c] EXCEPT !.inUse = FALSE, !.idle = FALSE,
                                !.tx = IF mode = TransactionMode THEN NoTx
                                       ELSE [conn[c].tx EXCEPT !.mine = FALSE]]
<1>1. Len(conn) \in Nat /\ DOMAIN conn = 1 .. Len(conn)
  BY DEF TypeOK
<1>2. c # NoConn /\ c \in InUse
  BY DEF Release, Exclusive
<1>3. c \in 1 .. Len(conn)
  BY <1>1, <1>2 DEF InUse
<1>4. /\ conn' = [conn EXCEPT ![c] = r]
      /\ free' = Append(free, c)
      /\ held' = [held EXCEPT ![s] = NoConn]
      /\ UNCHANGED <<mode, conns, closed, mu, panicked>>
  BY Zenon DEF Release
<1>5. r \in Conn /\ ~r.inUse /\ (mode = TransactionMode => r.tx.status = "nil")
  <2>1. conn[c] \in Conn
    BY <1>3, ElementOfSeq DEF TypeOK
  <2>2. [conn[c].tx EXCEPT !.mine = FALSE] \in Transaction /\ NoTx \in Transaction
    BY <2>1, Zenon DEF Conn, Transaction, NoTx
  <2>3. r.tx = IF mode = TransactionMode THEN NoTx ELSE [conn[c].tx EXCEPT !.mine = FALSE]
    BY <2>1 DEF Conn
  <2>4. r.inUse = FALSE
    BY <2>1 DEF Conn
  <2>5. r \in Conn
    BY <2>1, <2>2, Zenon DEF Conn
  <2> QED
    BY <2>3, <2>4, <2>5 DEF NoTx
<1> HIDE DEF r
<1>6. /\ conn' \in Seq(Conn) /\ Len(conn') = Len(conn) /\ DOMAIN conn' = DOMAIN conn
      /\ \A d \in DOMAIN conn : conn'[d] = IF d = c THEN r ELSE conn[d]
  BY <1>1, <1>3, <1>4, <1>5, ExceptSeq DEF TypeOK
<1>7. /\ free' \in Seq(1 .. Len(conn)) /\ Len(free') = Len(free) + 1
      /\ \A i \in 1 .. Len(free) : free'[i] = free[i]
      /\ free'[Len(free) + 1] = c
  BY <1>3, <1>4, AppendProperties DEF TypeOK
<1>8. /\ Len(free) \in Nat /\ DOMAIN free = 1 .. Len(free)
      /\ DOMAIN free' = 1 .. Len(free) + 1
  BY <1>7 DEF TypeOK
<1>9. \A t \in Sessions : held'[t] = IF t = s THEN NoConn ELSE held[t]
  BY <1>4 DEF TypeOK
<1>10. TypeOK'
  BY <1>1, <1>4, <1>6, <1>7 DEF TypeOK, NoConn
<1>11. InUse' = InUse \ {c}
  BY <1>3, <1>5, <1>6 DEF InUse
<1>12. \A t \in Sessions : t # s => held[t] # c
  BY <1>2 DEF Exclusive
<1> HIDE DEF c
<1>13. Exclusive'
  <2>1. \A t \in Sessions : held'[t] # NoConn => held'[t] \in InUse'
    BY <1>9, <1>11, <1>12 DEF Exclusive
  <2>2. \A t, u \in Sessions : held'[t] = held'[u] => t = u \/ held'[t] = NoConn
    BY <1>9 DEF Exclusive
  <2>3. \A d \in InUse' : \E t \in Sessions : held'[t] = d
    BY <1>9, <1>11 DEF Exclusive, c
  <2>4. \A i \in DOMAIN free : free[i] # c
    BY <1>2 DEF Exclusive
  <2>5. \A i, j \in DOMAIN free' : free'[i] = free'[j] => i = j
    BY <1>7, <1>8, <2>4 DEF Exclusive
  <2>6. \A i \in DOMAIN free' : free'[i] \notin InUse'
    BY <1>7, <1>8, <1>11, SMTT(20) DEF Exclusive
  <2> QED
    BY <2>1, <2>2, <2>3, <2>5, <2>6 DEF Exclusive
<1>14. Listed'
  <2> SUFFICES ASSUME NEW i \in DOMAIN conns
               PROVE  conns[i] \in InUse' \/ \E j \in DOMAIN free' : free'[j] = conns[i]
    BY <1>4 DEF Listed
  <2>1. Len(free) + 1 \in DOMAIN free' /\ \A j \in DOMAIN free : j \in DOMAIN free'
    BY <1>8
  <2> QED
    BY <1>7, <1>8, <1>11, <2>1 DEF Listed
<1>15. TxOfHolder'
  BY <1>4, <1>5, <1>6 DEF TxOfHolder
<1> QED
  BY <1>10, <1>13, <1>14, <1>15

\* A message changes the transaction of the session's own connection.
LEMMA MessageInv ==
    ASSUME PoolInv, NEW s \in Sessions, Begin(s) \/ Commit(s) \/ Abort(s)
    PROVE  PoolInv'
<1> USE DEF PoolInv
<1> DEFINE c == held[s]
<1>1. PICK tx \in Transaction :
         OnConn(s, tx) /\ (mode = TransactionMode => tx.status = "nil" \/ tx.mine)
  <2>1. c # NoConn
    BY DEF Begin, Commit, Abort
  <2>2. c \in DOMAIN conn /\ conn[c].inUse
    BY <2>1 DEF Exclusive, InUse
  <2>3. conn[c].tx \in Transaction
    <3>1. conn[c] \in Conn
      BY <2>2, ElementOfSeq DEF TypeOK
    <3> QED
      BY <3>1 DEF Conn
  <2>4. CASE Begin(s)
    <3> DEFINE begun == [status |-> "ongoing", mine |-> TRUE]
    <3>1. begun \in Transaction /\ begun.mine
      BY DEF Transaction
    <3>2. OnConn(s, begun)
      BY <2>4 DEF Begin
    <3> HIDE DEF begun
    <3> QED
      BY <3>1, <3>2
  <2>5. CASE Commit(s)
    <3>1. /\ [conn[c].tx EXCEPT !.status = "committed"] \in Transaction
          /\ [conn[c].tx EXCEPT !.status = "committed"].mine = conn[c].tx.mine
      BY <2>3 DEF Transaction
    <3>2. mode = TransactionMode => conn[c].tx.mine
      BY <2>2, <2>5 DEF Commit, TxOfHolder
    <3> QED
      BY <3>1, <3>2, <2>5, Zenon DEF Commit
  <2>6. CASE Abort(s)
    <3>1. NoTx \in Transaction /\ NoTx.status = "nil"
      BY DEF NoTx, Transaction
    <3>2. OnConn(s, NoTx)
      BY <2>6 DEF Abort
    <3> QED
      BY <3>1, <3>2
  <2> QED
    BY <2>4, <2>5, <2>6
<1>2. c \in DOMAIN conn /\ conn[c].inUse
  BY <1>1 DEF OnConn, Exclusive, InUse
<1>3. conn[c] \in Conn
  BY <1>2, ElementOfSeq DEF TypeOK
<1> DEFINE r == [conn[c] EXCEPT !.tx = tx]
<1>4. r \in Conn /\ r.inUse = conn[c].inUse /\ r.tx = tx
  BY <1>1, <1>3 DEF Conn
<1>5. conn' = [conn EXCEPT ![c] = r] /\ UNCHANGED <<mode, conns, free, closed, mu, held, panicked>>
  BY <1>1 DEF OnConn
<1> HIDE DEF r
<1>6. /\ conn' \in Seq(Conn) /\ Len(conn') = Len(conn) /\ DOMAIN conn' = DOMAIN conn
      /\ \A d \in DOMAIN conn : conn'[d] = IF d = c THEN r ELSE conn[d]
  BY <1>2, <1>4, <1>5, ExceptSeq DEF TypeOK
<1>7. InUse' = InUse
  BY <1>2, <1>4, <1>6, Zenon DEF InUse
<1>8. TypeOK' /\ Exclusive' /\ Listed'
  BY <1>5, <1>6, <1>7 DEF TypeOK, Exclusive, Listed
<1>9. TxOfHolder'
  BY <1>1, <1>2, <1>4, <1>5, <1>6, Zenon DEF TxOfHolder
<1> QED
  BY <1>8, <1>9
\* Time passes: only the two flags change.
LEMMA GrowInv ==
    ASSUME PoolInv, NEW c \in DOMAIN conn, Grow(c)
    PROVE  PoolInv'
<1> USE DEF PoolInv
<1>1. conn[c] \in Conn
  BY ElementOfSeq DEF TypeOK
<1>2. PICK r \in Conn :
         /\ conn' = [conn EXCEPT ![c] = r]
         /\ r.inUse = conn[c].inUse /\ r.tx = conn[c].tx
  <2>1. /\ [conn[c] EXCEPT !.idle = TRUE] \in Conn
        /\ [conn[c] EXCEPT !.idle = TRUE].inUse = conn[c].inUse
        /\ [conn[c] EXCEPT !.idle = TRUE].tx = conn[c].tx
    BY <1>1, Zenon DEF Conn
  <2>2. /\ [conn[c] EXCEPT !.expired = TRUE] \in Conn
        /\ [conn[c] EXCEPT !.expired = TRUE].inUse = conn[c].inUse
        /\ [conn[c] EXCEPT !.expired = TRUE].tx = conn[c].tx
    BY <1>1, Zenon DEF Conn
  <2>3. \/ conn' = [conn EXCEPT ![c] = [conn[c] EXCEPT !.idle = TRUE]]
        \/ conn' = [conn EXCEPT ![c] = [conn[c] EXCEPT !.expired = TRUE]]
    BY DEF Grow
  <2> QED
    BY <2>1, <2>2, <2>3, Zenon
<1>3. UNCHANGED <<mode, conns, free, closed, mu, held, panicked>>
  BY DEF Grow
<1>4. /\ conn' \in Seq(Conn) /\ Len(conn') = Len(conn) /\ DOMAIN conn' = DOMAIN conn
      /\ \A d \in DOMAIN conn : conn'[d] = IF d = c THEN r ELSE conn[d]
  BY <1>2, ExceptSeq DEF TypeOK
<1>5. InUse' = InUse
  BY <1>2, <1>4 DEF InUse
<1>6. TypeOK' /\ Exclusive' /\ Listed'
  BY <1>3, <1>4, <1>5 DEF TypeOK, Exclusive, Listed
<1>7. TxOfHolder'
  BY <1>2, <1>3, <1>4 DEF TxOfHolder
<1> QED
  BY <1>6, <1>7

\* Every step of the pool and of its sessions keeps the invariant.
LEMMA NextInv == PoolInv /\ [Next]_vars => PoolInv'
<1> SUFFICES ASSUME PoolInv, [Next]_vars PROVE PoolInv'
  OBVIOUS
<1>0. ASSUME UNCHANGED <<mode, conns, free, conn, closed, held>>, mu' \in {mu, NoSession}, panicked' \in {panicked, TRUE}
      PROVE  PoolInv'
  <2>1. TypeOK'
    BY <1>0 DEF PoolInv, TypeOK
  <2>2. Exclusive' /\ Listed'
    BY <1>0, Zenon DEF PoolInv, Exclusive, InUse, Listed
  <2>3. TxOfHolder'
    BY <1>0, Zenon DEF PoolInv, TxOfHolder
  <2> QED
    BY <2>1, <2>2, <2>3, Zenon DEF PoolInv
<1>1. ASSUME NEW s \in Sessions, AcquireRemove(s) PROVE PoolInv'
  BY <1>1, RemoveInv, Zenon
<1>2. ASSUME NEW s \in Sessions, AcquirePanic(s) PROVE PoolInv'
  BY <1>0, <1>2 DEF AcquirePanic
<1>3. ASSUME NEW s \in Sessions, AcquireFree(s) PROVE PoolInv'
  BY <1>3, FreeInv, Zenon
<1>4. ASSUME NEW s \in Sessions, AcquireNew(s) PROVE PoolInv'
  BY <1>4, NewInv, Zenon
<1>5. ASSUME NEW s \in Sessions, AcquireRefused(s) PROVE PoolInv'
  BY <1>0, <1>5 DEF AcquireRefused
<1>6. ASSUME NEW s \in Sessions, Release(s) PROVE PoolInv'
  BY <1>6, ReleaseInv, Zenon
<1>7. ASSUME NEW s \in Sessions, Begin(s) \/ Commit(s) \/ Abort(s) PROVE PoolInv'
  BY <1>7, MessageInv, Zenon
<1>8. ASSUME Shutdown PROVE PoolInv'
  <2>1. /\ conns' = <<>> /\ free' = <<>> /\ closed' = TRUE
        /\ UNCHANGED <<mode, conn, mu, held, panicked>>
    BY <1>8 DEF Shutdown
  <2> QED
    BY <2>1 DEF PoolInv, TypeOK, Exclusive, InUse, Listed, TxOfHolder
<1>9. ASSUME NEW c \in DOMAIN conn, Grow(c) PROVE PoolInv'
  BY <1>9, GrowInv, Zenon
<1>10. ASSUME UNCHANGED vars PROVE PoolInv'
  BY <1>0, <1>10 DEF vars
<1> QED
  BY <1>1, <1>2, <1>3, <1>4, <1>5, <1>6, <1>7, <1>8, <1>9, <1>10, Zenon DEF Next

\* The invariant holds in every state of the pool.
LEMMA PoolInvariant == Spec => []PoolInv
  BY InitInv, NextInv, PTL DEF Spec

(***************************************************************************)
(* What the pool promises                                                  *)
(***************************************************************************)

\* Acquire and Release never give a connection to two sessions, and free offers
\* each connection once, whatever removeConn has taken out of conns.
THEOREM NeverShared == Spec => []Exclusive
<1>1. PoolInv => Exclusive
  BY Zenon DEF PoolInv
<1> QED
  BY <1>1, PoolInvariant, PTL

\* In TransactionMode a session finds no transaction that another one began:
\* Release aborts and drops what its client left open.
THEOREM HandsOverClean == Spec => []CleanHandover
<1>1. PoolInv => CleanHandover
  BY DEF PoolInv, TypeOK, Exclusive, InUse, TxOfHolder, CleanHandover, OwnTransaction
<1> QED
  BY <1>1, PoolInvariant, PTL

\* Acquire of an open pool reports "no available connections" only while MaxConns
\* connections are in use: conns lists each once, and with free empty each of
\* them is in use.
THEOREM RefusesWhenFull == Spec => []RefusesOnlyWhenFull
<1>1. PoolInv => RefusesOnlyWhenFull
  <2> SUFFICES ASSUME PoolInv, Stops = {}, Len(conns) >= MaxConns
               PROVE  Cardinality(InUse) >= MaxConns
    BY DEF RefusesOnlyWhenFull
  <2>1. DOMAIN free = {}
    BY StopsAtFirst DEF PoolInv
  <2>2. DOMAIN conns = 1 .. Len(conns) /\ Len(conns) \in Nat /\ Len(conn) \in Nat
    BY DEF PoolInv, TypeOK
  <2>3. IsFiniteSet(InUse) /\ Cardinality(InUse) \in Nat
    <3>1. InUse \subseteq 1 .. Len(conn)
      BY DEF InUse, PoolInv, TypeOK
    <3>2. IsFiniteSet(1 .. Len(conn))
      BY <2>2, FS_Interval
    <3>3. IsFiniteSet(InUse)
      BY <3>1, <3>2, FS_Subset, Zenon
    <3> QED
      BY <3>3, FS_CardinalityType
  <2>4. conns \in Injection(1 .. Len(conns), InUse)
    <3>1. \A i \in DOMAIN conns : conns[i] \in InUse
      BY <2>1 DEF PoolInv, Listed
    <3>2. conns \in [1 .. Len(conns) -> InUse]
      BY <2>2, <3>1 DEF PoolInv, TypeOK
    <3> QED
      BY <2>2, <3>2 DEF PoolInv, Listed, Injection, IsInjective
  <2>5. Cardinality(1 .. Len(conns)) = Len(conns)
    <3>1. Len(conns) \in Int
      BY <2>2
    <3>2. Cardinality(1 .. Len(conns)) = IF 1 > Len(conns) THEN 0 ELSE Len(conns) - 1 + 1
      BY <3>1, FS_Interval
    <3> QED
      BY <2>2, <3>2
  <2>6. Cardinality(1 .. Len(conns)) <= Cardinality(InUse)
    BY <2>3, <2>4, FS_Injection
  <2> QED
    BY <2>2, <2>3, <2>5, <2>6, ConnsAssumption
<1> QED
  BY <1>1, PoolInvariant, PTL

\* Acquire panics over nothing but a connection past MaxLifetime at the head of
\* free: an idle one is removed only while more than MinConns are listed.
THEOREM PanicsOverExpired == Spec => PanicsOnlyExpired
<1>1. PoolInv /\ [Next]_vars => [panicked' => conn[Head(free)].expired]_panicked
  <2> SUFFICES ASSUME PoolInv, [Next]_vars, panicked' # panicked, panicked'
               PROVE  conn[Head(free)].expired
    BY SMTT(20)
  <2>1. PICK s \in Sessions : AcquirePanic(s)
    BY Zenon DEF Next, vars, AcquireRemove, AcquireFree, AcquireNew, AcquireRefused, Release,
           Begin, Commit, Abort, OnConn, Shutdown, Grow
  <2>2. At = 1 /\ At \in DOMAIN free /\ Due(At) /\ At > Len(conns)
    BY <2>1, StopsAtFirst DEF AcquirePanic, PoolInv
  <2>3. ~(Len(conns) > MinConns)
    BY <2>2, ConnsAssumption DEF PoolInv, TypeOK
  <2>4. conn[free[1]].expired
    BY <2>2, <2>3 DEF Due
  <2>5. Head(free) = free[1]
    BY <2>2 DEF PoolInv, TypeOK
  <2> QED
    BY <2>4, <2>5
<1> QED
  BY <1>1, PoolInvariant, PTL DEF Spec, PanicsOnlyExpired
=============================================================================
