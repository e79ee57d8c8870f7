-------------------------------- MODULE Pool --------------------------------
(***************************************************************************)
(* The connection pool of internal/pool/pool.go and the server sessions    *)
(* that use it (internal/server/server.go: handleConn, handleMessage,      *)
(* Shutdown).                                                              *)
(*                                                                         *)
(* A session is one accepted client: it acquires a pooled connection,      *)
(* handles the client's messages one at a time and releases the connection *)
(* when the client is gone.  Acquire, Release and Close run under the      *)
(* pool's mutex; every connection that Acquire's loop removes is a step of *)
(* its own.  Time is seen through two flags of a connection: idle longer   *)
(* than MaxIdleTime, older than MaxLifetime.                               *)
(***************************************************************************)
EXTENDS Integers, Sequences, FiniteSets

CONSTANTS
    Sessions,     \* clients served at the same time
    NoSession,
    MinConns, MaxConns,
    Modes,        \* the pool modes Config.Mode may have
    Ages,         \* bound: the time limits that can pass
    MaxCreated    \* bound: connections ever created

SessionMode     == 0
TransactionMode == 1

ASSUME ConnsAssumption == MinConns \in Nat /\ MaxConns \in Nat /\ MinConns <= MaxConns
ASSUME SessionsAssumption == NoSession \notin Sessions
ASSUME ModesAssumption == Modes \subseteq {SessionMode, TransactionMode}
ASSUME AgesAssumption == Ages \subseteq {"idle", "expired"}

VARIABLES
    mode,     \* Config.Mode of the pool
    conns,    \* Pool.conns
    free,     \* Pool.free
    conn,     \* conn[c]: the connection with id c; ids are handed out in order
    closed,   \* Pool.closed
    mu,       \* the session whose Acquire has begun to remove connections
    held,     \* held[s]: the connection of session s, or 0
    panicked  \* the server process died of a panic

vars == <<mode, conns, free, conn, closed, mu, held, panicked>>

NoConn == 0

\* c.tx is nil, a transaction that the manager still counts as ongoing, or
\* one that has been committed.  mine: begun by the session that holds c.
NoTx == [status |-> "nil", mine |-> FALSE]

NewConn == [inUse |-> FALSE, idle |-> FALSE, expired |-> FALSE, tx |-> NoTx]

nextID == Len(conn)

\* NewPool, with MinConns calls of createConn.
Init ==
    /\ mode \in Modes
    /\ conn = [c \in 1 .. MinConns |-> NewConn]
    /\ conns = [i \in 1 .. MinConns |-> i]
    /\ free = [i \in 1 .. MinConns |-> i]
    /\ closed = FALSE
    /\ mu = NoSession
    /\ held = [s \in Sessions |-> NoConn]
    /\ panicked = FALSE

(***************************************************************************)
(* Acquire                                                                 *)
(***************************************************************************)

\* The slice s without its element at index i.
RemoveAt(s, i) == SubSeq(s, 1, i - 1) \o SubSeq(s, i + 1, Len(s))

\* removeConn(idx), for an index of free that it applies to conns.
removeConn(cs, idx) == RemoveAt(cs, idx)

\* Mutant: idle connections are removed below MinConns too.
Due_BelowMin(i) == conn[free[i]].idle \/ conn[free[i]].expired

\* The loop over free removes the connection at index i: idle for too long
\* while there are more than MinConns, or past its lifetime.
Due(i) ==
    \/ conn[free[i]].idle /\ Len(conns) > MinConns
    \/ conn[free[i]].expired

\* The index at which the loop stands still.  It passes what is in use and not
\* due.  A removal leaves the index where it is and leaves the connection in
\* free, so the loop meets it again.
Stops == {i \in DOMAIN free : Due(i) \/ ~conn[free[i]].inUse}

At == CHOOSE i \in Stops : \A j \in Stops : i <= j

Running == ~panicked

\* Session s is in Acquire with the mutex, on a pool that is open.
Acquiring(s) == Running /\ ~closed /\ held[s] = NoConn /\ mu \in {NoSession, s}

\* The loop removes a connection: removeConn gets an index of free.
AcquireRemove(s) ==
    /\ Acquiring(s)
    /\ Stops # {} /\ Due(At) /\ At <= Len(conns)
    /\ conns' = removeConn(conns, At)
    /\ mu' = s
    /\ UNCHANGED <<mode, free, conn, closed, held, panicked>>

\* Slicing past the end of conns panics.  No handler recovers, the server dies.
AcquirePanic(s) ==
    /\ Acquiring(s)
    /\ Stops # {} /\ Due(At) /\ At > Len(conns)
    /\ panicked' = TRUE
    /\ UNCHANGED <<mode, conns, free, conn, closed, mu, held>>

\* Mutant: the connection stays in free.
AcquireFree_KeepFree(s) ==
    /\ Acquiring(s)
    /\ Stops # {} /\ ~Due(At)
    /\ held' = [held EXCEPT ![s] = free[At]]
    /\ conn' = [conn EXCEPT ![free[At]].inUse = TRUE,
                            ![free[At]].idle = FALSE]
    /\ mu' = NoSession
    /\ UNCHANGED <<mode, conns, free, closed, panicked>>

\* Acquire finds a free connection.
AcquireFree(s) ==
    /\ Acquiring(s)
    /\ Stops # {} /\ ~Due(At)
    /\ held' = [held EXCEPT ![s] = free[At]]
    /\ conn' = [conn EXCEPT ![free[At]].inUse = TRUE,
                            ![free[At]].idle = FALSE]
    /\ free' = RemoveAt(free, At)
    /\ mu' = NoSession
    /\ UNCHANGED <<mode, conns, closed, panicked>>

\* Acquire creates one: createConn puts it at the end of free, and it is
\* taken off again.
AcquireNew(s) ==
    /\ Acquiring(s)
    /\ Stops = {} /\ Len(conns) < MaxConns
    /\ nextID < MaxCreated
    /\ conns' = Append(conns, nextID + 1)
    /\ conn' = Append(conn, [NewConn EXCEPT !.inUse = TRUE])
    /\ held' = [held EXCEPT ![s] = nextID + 1]
    /\ mu' = NoSession
    /\ UNCHANGED <<mode, free, closed, panicked>>

\* Acquire fails; the session ends.
AcquireRefused(s) ==
    /\ \/ Running /\ closed /\ held[s] = NoConn
       \/ Acquiring(s) /\ Stops = {} /\ Len(conns) >= MaxConns
    /\ mu' = NoSession
    /\ UNCHANGED <<mode, conns, free, conn, closed, held, panicked>>

(***************************************************************************)
(* Release and Close                                                       *)
(***************************************************************************)

\* Mutants: the connection is not put back; its transaction is kept.
Release_Lost(s) ==
    /\ Running /\ mu = NoSession /\ held[s] # NoConn
    /\ conn' = [conn EXCEPT ![held[s]] = [@ EXCEPT !.inUse = FALSE, !.tx = NoTx]]
    /\ held' = [held EXCEPT ![s] = NoConn]
    /\ UNCHANGED <<mode, conns, free, closed, mu, panicked>>

Release_KeepTx(s) ==
    /\ Running /\ mu = NoSession /\ held[s] # NoConn
    /\ conn' = [conn EXCEPT ![held[s]] = [@ EXCEPT !.inUse = FALSE, !.tx.mine = FALSE]]
    /\ free' = Append(free, held[s])
    /\ held' = [held EXCEPT ![s] = NoConn]
    /\ UNCHANGED <<mode, conns, closed, mu, panicked>>

\* handleConn returns, for whatever reason, and releases its connection.
\* Only TransactionMode aborts and drops the transaction.
Release(s) ==
    LET c == held[s]
    IN /\ Running /\ mu = NoSession /\ c # NoConn
       /\ conn' = [conn EXCEPT ![c].inUse = FALSE,
                               ![c].idle = FALSE,
                               ![c].tx = IF mode = TransactionMode THEN NoTx
                                         ELSE [@ EXCEPT !.mine = FALSE]]
       /\ free' = Append(free, c)
       /\ held' = [held EXCEPT ![s] = NoConn]
       /\ UNCHANGED <<mode, conns, closed, mu, panicked>>

\* Shutdown of the server closes the pool once; sessions run on.
Shutdown ==
    /\ Running /\ mu = NoSession /\ ~closed
    /\ closed' = TRUE
    /\ conns' = <<>>
    /\ free' = <<>>
    /\ UNCHANGED <<mode, conn, mu, held, panicked>>

(***************************************************************************)
(* handleMessage.  A query runs on the relational layer and uses neither   *)
(* the connection nor its transaction; it changes nothing here.            *)
(***************************************************************************)

OnConn(s, tx) ==
    /\ Running /\ held[s] # NoConn
    /\ conn' = [conn EXCEPT ![held[s]].tx = tx]
    /\ UNCHANGED <<mode, conns, free, closed, mu, held, panicked>>

\* MsgBegin: an error while c.tx is not nil.
Begin(s) ==
    /\ held[s] # NoConn
    /\ conn[held[s]].tx.status = "nil"
    /\ OnConn(s, [status |-> "ongoing", mine |-> TRUE])

\* MsgCommit: c.tx stays set.  The manager refuses a transaction that is
\* committed, and keeps one ongoing when the store fails.
Commit(s) ==
    /\ held[s] # NoConn
    /\ conn[held[s]].tx.status = "ongoing"
    /\ OnConn(s, [conn[held[s]].tx EXCEPT !.status = "committed"])

\* MsgAbort
Abort(s) ==
    /\ held[s] # NoConn
    /\ conn[held[s]].tx.status # "nil"
    /\ OnConn(s, NoTx)

\* Time passes for a connection: lastUsed is set anew by Acquire and Release,
\* createdAt never.  The loop of Acquire reads the clock once, before it starts.
Grow(c) ==
    /\ Running /\ mu = NoSession
    /\ \/ /\ "idle" \in Ages /\ ~conn[c].inUse /\ ~conn[c].idle
          /\ conn' = [conn EXCEPT ![c].idle = TRUE]
       \/ /\ "expired" \in Ages /\ ~conn[c].expired
          /\ conn' = [conn EXCEPT ![c].expired = TRUE]
    /\ UNCHANGED <<mode, conns, free, closed, mu, held, panicked>>

Next ==
    \/ \E s \in Sessions :
          \/ AcquireRemove(s) \/ AcquirePanic(s) \/ AcquireFree(s)
          \/ AcquireNew(s) \/ AcquireRefused(s)
          \/ Release(s) \/ Begin(s) \/ Commit(s) \/ Abort(s)
    \/ Shutdown
    \/ \E c \in DOMAIN conn : Grow(c)

Spec == Init /\ [][Next]_vars
(***************************************************************************)
(* Properties                                                              *)
(***************************************************************************)

InUse == {c \in DOMAIN conn : conn[c].inUse}

\* A connection is in use exactly while one session holds it; a free one is
\* offered once.  Acquire and Release never give a connection to two sessions,
\* whatever removeConn has done to the list of connections.
Exclusive ==
    /\ \A s \in Sessions : held[s] # NoConn => held[s] \in InUse
    /\ \A s, t \in Sessions : held[s] = held[t] => s = t \/ held[s] = NoConn
    /\ \A c \in InUse : \E s \in Sessions : held[s] = c
    /\ \A i, j \in DOMAIN free : free[i] = free[j] => i = j
    /\ \A i \in DOMAIN free : free[i] \notin InUse

\* Acquire fails in an open pool only while MaxConns sessions hold one: no
\* connection gets lost to both lists.
RefusesOnlyWhenFull ==
    (~closed /\ Stops = {} /\ Len(conns) >= MaxConns) => Cardinality(InUse) >= MaxConns

\* At most MaxConns sessions hold a connection (the server's -max-conns).
WithinMax == Cardinality(InUse) <= MaxConns

\* The transaction a session finds on its connection is one it began itself:
\* a pooled connection passes no transaction from one client to the next.
OwnTransaction ==
    \A s \in Sessions :
        held[s] # NoConn =>
            conn[held[s]].tx.status = "nil" \/ conn[held[s]].tx.mine

\* A pool in TransactionMode hands every connection over without a transaction:
\* Release aborts what the client left open.  (SessionMode does not.)
CleanHandover == mode = TransactionMode => OwnTransaction

\* removeConn takes from conns what the loop found in free, and the loop meets the
\* same connection again: for one past its lifetime it goes on until conns is
\* empty and Acquire panics.  An idle one stops it at MinConns: Acquire panics
\* over nothing but a connection older than MaxLifetime that was released last
\* before all other free ones.
PanicsOnlyExpired == [][panicked' => conn[Head(free)].expired]_panicked

\* Acquire returns a connection or an error; it does not panic.
NoPanic == ~panicked
=============================================================================
