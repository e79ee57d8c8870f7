-------------------------- MODULE RelationalProofs --------------------------
(***************************************************************************)
(* Insert against the calls of other sessions, and the rows of the tables  *)
(* as one map, for any tables, indexes, rows, sessions and bounds, any     *)
(* number of files and any routing of keys.                                *)
(***************************************************************************)
EXTENDS Relational, EncodingProofs

TablePrefixes == {HashTable(tdef.name) : tdef \in Schemas}
IndexPrefixes == {HashIndex(n.table, n.index.name) : n \in NewIndexes}

\* A table is as it was created, but for indexes that CreateIndex appended.
TableOK(t, tdef) ==
    /\ tdef = [name |-> t, cols |-> tdef.cols, pkeys |-> tdef.pkeys, indexes |-> tdef.indexes]
    /\ HashTable(t) \in TablePrefixes
    /\ tdef.indexes \in Seq({n.index : n \in NewIndexes})
    /\ \A i \in DOMAIN tdef.indexes : HashIndex(t, tdef.indexes[i].name) \in IndexPrefixes

TablesOK == \A t \in DOMAIN tables : TableOK(t, tables[t])

\* The writes of index entries.
Entries(ops) ==
    /\ ops \in Seq({ops[i] : i \in DOMAIN ops})
    /\ \A i \in DOMAIN ops : Head(ops[i].key) \in IndexPrefixes

\* A call first writes its row and then nothing but index entries.
CallOK(c) ==
    /\ c = [jobs |-> c.jobs, ops |-> c.ops, end |-> c.end, kind |-> c.kind, table |-> c.table,
            row |-> c.row, vals |-> c.vals, alone |-> c.alone]
    /\ c.row # <<>> => Head(c.row) \in TablePrefixes
    /\ IF c.end = "row"
       THEN /\ \E o : c.ops = <<o>> /\ o.key = c.row
            /\ c.row # <<>> /\ c.table \in DOMAIN tables
       ELSE Entries(c.ops)

\* A call that is alone at its row shares it with no other, and what Insert saw
\* there is still true.
AloneOK(s) ==
    call[s].alone /\ call[s].row # <<>> =>
        /\ \A t \in Sessions \ {s} : call[t].row # call[s].row
        /\ call[s].kind = "insert" /\ call[s].end = "row" => ~Has(call[s].row)

\* The inductive invariant.
RowInv ==
    /\ DOMAIN stores = Shards
    /\ TablesOK
    /\ call = [s \in Sessions |-> call[s]]
    /\ \A s \in Sessions : CallOK(call[s]) /\ AloneOK(s)

(***************************************************************************)
(* Keys and plans                                                          *)
(***************************************************************************)

\* A key starts with its prefix.
LEMMA KeyHead ==
    ASSUME NEW prefix, NEW vals
    PROVE  Head(EncodeKey(prefix, vals)) = prefix /\ EncodeKey(prefix, vals) # <<>>
  BY DEF EncodeKey

\* A set of natural numbers that is not empty has a least one.
LEMMA LeastOf ==
    ASSUME NEW S \in SUBSET Nat, S # {}
    PROVE  Min(S) \in S
<1>1. PICK m \in S : \A v \in S : <<v, m>> \notin OpToRel(<, Nat)
  BY NatLessThanWellFounded, WFMin, Zenon
<1>2. \A v \in S : ~(v < m)
  BY <1>1, Zenon DEF OpToRel
<1>3. \A v \in S : m <= v
  BY <1>2
<1> QED
  BY <1>3, Zenon DEF Min

\* The definition of a table.
LEMMA TableParts ==
    ASSUME TablesOK, NEW t \in DOMAIN tables
    PROVE  /\ tables[t].name = t /\ HashTable(t) \in TablePrefixes
           /\ tables[t].indexes \in Seq({n.index : n \in NewIndexes})
           /\ \A i \in DOMAIN tables[t].indexes : HashIndex(t, tables[t].indexes[i].name) \in IndexPrefixes
<1>1. /\ tables[t] = [name |-> t, cols |-> tables[t].cols, pkeys |-> tables[t].pkeys,
                      indexes |-> tables[t].indexes]
      /\ HashTable(t) \in TablePrefixes
      /\ tables[t].indexes \in Seq({n.index : n \in NewIndexes})
      /\ \A i \in DOMAIN tables[t].indexes : HashIndex(t, tables[t].indexes[i].name) \in IndexPrefixes
  BY Zenon DEF TablesOK, TableOK
<1>2. PICK c, p, x : tables[t] = [name |-> t, cols |-> c, pkeys |-> p, indexes |-> x]
  BY <1>1, Zenon
<1>3. tables[t].name = t
  BY <1>2
<1> QED
  BY <1>1, <1>3, Zenon

\* After the row come the entries of the indexes there are.
LEMMA EntryOpsOK ==
    ASSUME TablesOK, NEW t \in DOMAIN tables, NEW kind, NEW vals
    PROVE  /\ Entries(EntryOps(tables[t], kind, vals).ops)
           /\ EntryOps(tables[t], kind, vals).end # "row"
<1> DEFINE tdef == tables[t]
           plan == EntryOps(tdef, kind, vals)
           n == Len(tdef.indexes)
<1>1. /\ tdef.indexes \in Seq({m.index : m \in NewIndexes}) /\ tdef.name = t
      /\ \A i \in DOMAIN tdef.indexes : HashIndex(t, tdef.indexes[i].name) \in IndexPrefixes
  BY TableParts, Zenon
<1>2. n \in Nat /\ DOMAIN tdef.indexes = 1 .. n
  BY <1>1
<1>3. PICK row, bad :
        /\ bad \subseteq DOMAIN tdef.indexes
        /\ plan = [ops |-> [i \in 1 .. (IF bad = {} THEN n ELSE Min(bad) - 1) |->
                              IF kind = "delete" THEN deleteIndex(tdef, tdef.indexes[i], row)
                              ELSE updateIndex(tdef, tdef.indexes[i], row)],
                   end |-> IF bad = {} THEN "true" ELSE "panic"]
  BY Zenon DEF EntryOps
<1> DEFINE good == IF bad = {} THEN n ELSE Min(bad) - 1
<1>4. good \in 0 .. n
  <2>1. CASE bad = {}
    BY <1>2, <2>1
  <2>2. CASE bad # {}
    <3>1. Min(bad) \in bad
      BY <1>2, <1>3, <2>2, LeastOf
    <3> QED
      BY <1>2, <1>3, <2>2, <3>1
  <2> QED
    BY <2>1, <2>2
<1>5. plan.end # "row"
  BY <1>3
<1>6. /\ DOMAIN plan.ops = 1 .. good
      /\ \A i \in 1 .. good : plan.ops[i] \in {deleteIndex(tdef, tdef.indexes[i], row), updateIndex(tdef, tdef.indexes[i], row)}
      /\ plan.ops = [i \in 1 .. good |-> plan.ops[i]]
  BY <1>3
<1> HIDE DEF plan, good, tdef
<1>7. \A i \in 1 .. good : Head(plan.ops[i].key) \in IndexPrefixes
  <2> TAKE i \in 1 .. good
  <2>1. i \in DOMAIN tdef.indexes
    BY <1>2, <1>4
  <2>2. plan.ops[i].key = IndexKey(tdef, tdef.indexes[i], row)
    BY <1>6 DEF deleteIndex, updateIndex, DelOp, SetOp
  <2>3. Head(plan.ops[i].key) = HashIndex(t, tdef.indexes[i].name)
    BY <1>1, <2>2, KeyHead DEF IndexKey
  <2> QED
    BY <1>1, <2>1, <2>3
<1>8. plan.ops \in Seq({plan.ops[i] : i \in 1 .. good})
  BY <1>4, <1>6
<1> QED
  BY <1>5, <1>6, <1>7, <1>8 DEF Entries, plan, tdef

\* What the checks and the Get of a call end in.
LEMMA PlanOK ==
    ASSUME TablesOK, NEW job
    PROVE  \/ Plan(job).ops = <<>> /\ Plan(job).end # "row"
           \/ /\ Plan(job).end = "row" /\ job.table \in DOMAIN tables
              /\ \E o : /\ Plan(job).ops = <<o>> /\ o.key # <<>>
                        /\ Head(o.key) \in TablePrefixes
                        /\ job.kind = "insert" => ~Has(o.key)
<1>1. \A tdef, rec, n : checkRecord(tdef, rec, n).verdict # "row"
  BY DEF checkRecord
<1>2. \A end : Fails(end).ops = <<>> /\ Fails(end).end = end
  BY DEF Fails
<1>3. \A o, vals : Writes(o, vals).ops = <<o>> /\ Writes(o, vals).end = "row"
  BY DEF Writes
<1>4. CASE job.table \notin DOMAIN tables
  BY <1>2, <1>4 DEF Plan
<1>5. CASE job.table \in DOMAIN tables
  <2> DEFINE tdef == tables[job.table]
  <2>1. Prefix(tdef) \in TablePrefixes
    BY <1>5, TableParts, Zenon DEF Prefix
  <2> HIDE DEF tdef
  <2>2. \A vals : RowKey(tdef, vals) # <<>> /\ Head(RowKey(tdef, vals)) \in TablePrefixes
    BY <2>1, KeyHead DEF RowKey
  <2>3. ASSUME NEW mode, NEW plan, plan = dbUpdate(tdef, job.rec, mode)
        PROVE  \/ \E end : plan = Fails(end) /\ end # "row"
               \/ \E o, vals : plan = Writes(o, vals) /\ o.key = RowKey(tdef, vals) /\ (mode = 0 => ~Has(o.key))
    BY <1>1, <2>3 DEF dbUpdate, RowOp, SetOp
  <2>4. ASSUME NEW plan, plan = dbDelete(tdef, job.rec)
        PROVE  \/ \E end : plan = Fails(end) /\ end # "row"
               \/ \E o, vals : plan = Writes(o, vals) /\ o.key = RowKey(tdef, vals)
    BY <1>1, <2>4 DEF dbDelete, DelOp
  <2>5. CASE job.kind = "insert"
    <3>1. Plan(job) = dbUpdate(tdef, job.rec, 0)
      BY <1>5, <2>5 DEF Plan, tdef
    <3> QED
      BY <1>2, <1>3, <1>5, <2>2, <2>3, <3>1
  <2>6. CASE job.kind # "insert"
    <3>1. Plan(job) = dbUpdate(tdef, job.rec, 1) \/ Plan(job) = dbDelete(tdef, job.rec)
      BY <1>5, <2>6 DEF Plan, tdef
    <3> QED
      BY <1>2, <1>3, <1>5, <2>2, <2>3, <2>4, <2>6, <3>1, SMTT(20)
  <2> QED
    BY <2>5, <2>6
<1> QED
  BY <1>4, <1>5

(***************************************************************************)
(* The steps of a call                                                     *)
(***************************************************************************)

\* Set and Del of one key leave the others as they were.
LEMMA OtherKey ==
    ASSUME DOMAIN stores = Shards, NEW k, (\E v : Set(k, v)) \/ Del(k)
    PROVE  DOMAIN stores' = Shards /\ \A x : x # k => (Has(x)' <=> Has(x))
<1>1. PICK f : /\ stores' = [stores EXCEPT ![shardForKey(k)] = f] /\ shardForKey(k) \in Shards
               /\ \A x : x # k => (x \in DOMAIN f <=> x \in DOMAIN stores[shardForKey(k)])
  <2>1. CASE Del(k)
    <3>1. /\ stores' = [stores EXCEPT ![shardForKey(k)] = Without(stores[shardForKey(k)], k)]
          /\ shardForKey(k) \in Shards
      BY <2>1 DEF Del, Reachable
    <3>2. \A x : x # k => (x \in DOMAIN Without(stores[shardForKey(k)], k) <=> x \in DOMAIN stores[shardForKey(k)])
      BY DEF Without
    <3> QED
      BY <3>1, <3>2, Zenon
  <2>2. ASSUME NEW v, Set(k, v) PROVE \E f : /\ stores' = [stores EXCEPT ![shardForKey(k)] = f] /\ shardForKey(k) \in Shards
               /\ \A x : x # k => (x \in DOMAIN f <=> x \in DOMAIN stores[shardForKey(k)])
    <3>1. /\ stores' = [stores EXCEPT ![shardForKey(k)] = With(stores[shardForKey(k)], k, v)]
          /\ shardForKey(k) \in Shards
      BY <2>2 DEF Set, Reachable
    <3>2. \A x : x # k => (x \in DOMAIN With(stores[shardForKey(k)], k, v) <=> x \in DOMAIN stores[shardForKey(k)])
      BY DEF With
    <3> QED
      BY <3>1, <3>2, Zenon
  <2> QED
    BY <2>1, <2>2
<1>2. DOMAIN stores' = Shards
  BY <1>1
<1>3. ASSUME NEW x, x # k PROVE Has(x)' <=> Has(x)
  <2>1. /\ Has(x) <=> shardForKey(x) \in Shards /\ x \in DOMAIN stores[shardForKey(x)]
        /\ Has(x)' <=> shardForKey(x) \in Shards /\ x \in DOMAIN stores'[shardForKey(x)]
    BY DEF Has, Reachable, shardForKey, Shards
  <2>2. CASE shardForKey(x) = shardForKey(k)
    BY <1>1, <1>3, <2>1, <2>2
  <2>3. CASE shardForKey(x) # shardForKey(k)
    BY <1>1, <2>1, <2>3
  <2> QED
    BY <2>2, <2>3
<1> QED
  BY <1>2, <1>3

\* The sequence of the writes that are left after the first.
LEMMA TailOf ==
    ASSUME NEW S, NEW x \in Seq(S), x # <<>>
    PROVE  /\ Len(x) \in Nat /\ Len(x) >= 1 /\ DOMAIN x = 1 .. Len(x)
           /\ DOMAIN Tail(x) = 1 .. Len(x) - 1
           /\ \A i \in 1 .. Len(x) - 1 : Tail(x)[i] = x[i + 1]
           /\ Tail(x) \in Seq({Tail(x)[i] : i \in DOMAIN Tail(x)})
<1>1. /\ Len(x) \in Nat /\ Len(x) >= 1 /\ DOMAIN x = 1 .. Len(x)
      /\ DOMAIN Tail(x) = 1 .. Len(x) - 1
      /\ \A i \in 1 .. Len(x) - 1 : Tail(x)[i] = x[i + 1]
  OBVIOUS
<1>2. Tail(x) \in Seq(S) /\ Len(Tail(x)) = Len(x) - 1
  OBVIOUS
<1> DEFINE y == Tail(x)
<1> HIDE DEF y
<1>3. y \in Seq(S) => y \in Seq({y[i] : i \in DOMAIN y})
  OBVIOUS
<1> QED
  BY <1>1, <1>2, <1>3 DEF y

\* What is left to write after the first write of a call are entries.
LEMMA AfterOpOK ==
    ASSUME TablesOK, NEW c, CallOK(c), c.ops # <<>>
    PROVE  Entries(AfterOp(c).ops) /\ AfterOp(c).end # "row"
<1>1. CASE c.end = "row"
  <2>1. c.table \in DOMAIN tables /\ AfterOp(c) = EntryOps(tables[c.table], c.kind, c.vals)
    BY <1>1 DEF AfterOp, CallOK
  <2> QED
    BY <2>1, EntryOpsOK
<1>2. CASE c.end # "row"
  <2>1. AfterOp(c).ops = Tail(c.ops) /\ AfterOp(c).end = c.end
    BY <1>2 DEF AfterOp
  <2>2. Entries(c.ops)
    BY <1>2 DEF CallOK
  <2> DEFINE x == c.ops
             y == Tail(x)
  <2>3. x \in Seq({x[i] : i \in DOMAIN x}) /\ x # <<>> /\ \A i \in DOMAIN x : Head(x[i].key) \in IndexPrefixes
    BY <2>2 DEF Entries
  <2> HIDE DEF x
  <2>4. /\ Len(x) \in Nat /\ DOMAIN x = 1 .. Len(x) /\ DOMAIN y = 1 .. Len(x) - 1
        /\ \A i \in 1 .. Len(x) - 1 : y[i] = x[i + 1]
        /\ y \in Seq({y[i] : i \in DOMAIN y}) /\ Len(x) >= 1
    BY <2>3, TailOf, Zenon
  <2> HIDE DEF y
  <2>5. y \in Seq({y[i] : i \in DOMAIN y})
    BY <2>4
  <2>6. \A i \in DOMAIN y : Head(y[i].key) \in IndexPrefixes
    <3> TAKE i \in DOMAIN y
    <3>1. i + 1 \in DOMAIN x /\ y[i] = x[i + 1]
      BY <2>4
    <3> QED
      BY <2>3, <3>1
  <2> QED
    BY <1>2, <2>1, <2>5, <2>6, Zenon DEF Entries, x, y
<1> QED
  BY <1>1, <1>2

\* The first write of a call is of its row or of an entry.
LEMMA HeadOp ==
    ASSUME NEW c, CallOK(c), c.ops # <<>>
    PROVE  IF c.end = "row" THEN Head(c.ops).key = c.row ELSE Head(Head(c.ops).key) \in IndexPrefixes
<1>1. CASE c.end = "row"
  <2>1. PICK o : c.ops = <<o>> /\ o.key = c.row
    BY <1>1 DEF CallOK
  <2> QED
    BY <1>1, <2>1
<1>2. CASE c.end # "row"
  <2> DEFINE x == c.ops
  <2>1. x \in Seq({x[i] : i \in DOMAIN x}) /\ x # <<>> /\ \A i \in DOMAIN x : Head(x[i].key) \in IndexPrefixes
    BY <1>2 DEF CallOK, Entries
  <2> HIDE DEF x
  <2>2. 1 \in DOMAIN x /\ Head(x) = x[1]
    BY <2>1
  <2>3. Head(Head(x).key) \in IndexPrefixes
    BY <2>1, <2>2
  <2> QED
    BY <1>2, <2>3 DEF x
<1> QED
  BY <1>1, <1>2

\* Session s moves on to c: past its row, or done.  It has written nothing, or
\* the first of its writes.
Moves(s, c) ==
    /\ call' = [call EXCEPT ![s] = c] /\ tables' = tables
    /\ CallOK(c) /\ c.end # "row"
    /\ c.row = <<>> \/ (c.row = call[s].row /\ c.alone = call[s].alone)
    /\ \/ stores' = stores
       \/ /\ call[s].ops # <<>>
          /\ \E k : k = Head(call[s].ops).key /\ ((\E v : Set(k, v)) \/ Del(k))

\* A session that moves on keeps the invariant: what it writes is its row, where no
\* call that is alone can be, or an entry, which is no row.
LEMMA MovesInv ==
    ASSUME RowInv, NEW s \in Sessions, NEW c, Moves(s, c)
    PROVE  RowInv'
<1>1. /\ DOMAIN stores = Shards /\ TablesOK /\ call = [t \in Sessions |-> call[t]]
      /\ \A t \in Sessions : CallOK(call[t]) /\ AloneOK(t)
  BY Zenon DEF RowInv
<1>2. /\ call'[s] = c /\ \A t \in Sessions \ {s} : call'[t] = call[t]
      /\ call' = [t \in Sessions |-> call'[t]]
  BY <1>1 DEF Moves
<1>3. TablesOK' /\ \A t \in Sessions : CallOK(call[t])'
  <2>1. tables' = tables /\ TablesOK' /\ \A d : CallOK(d)' <=> CallOK(d)
    BY <1>1, Zenon DEF Moves, TablesOK, CallOK
  <2>2. CallOK(c)
    BY DEF Moves
  <2>3. ASSUME NEW t \in Sessions PROVE CallOK(call[t])'
    <3>1. PICK d : d = call'[t]
      OBVIOUS
    <3>2. CallOK(d)
      BY <1>1, <1>2, <2>2, <3>1, Zenon
    <3>3. CallOK(d)'
      BY <2>1, <3>2, Zenon
    <3> QED
      BY <3>1, <3>3, Zenon DEF CallOK
  <2> QED
    BY <2>1, <2>3
<1>4. PICK k : stores' = stores \/ (k = Head(call[s].ops).key /\ call[s].ops # <<>> /\ ((\E v : Set(k, v)) \/ Del(k)))
  BY Zenon DEF Moves
<1>5. DOMAIN stores' = Shards
  BY <1>1, <1>4, OtherKey, Zenon
<1>6. ASSUME NEW t \in Sessions, call'[t].alone, call'[t].row # <<>>
      PROVE  /\ \A u \in Sessions \ {t} : call'[u].row # call'[t].row
             /\ call'[t].kind = "insert" /\ call'[t].end = "row" => ~Has(call[t].row)'
  <2>1. CASE t = s
    <3>1. c.row = call[s].row /\ c.alone = call[s].alone /\ c.end # "row"
      BY <1>2, <1>6, <2>1 DEF Moves
    <3> QED
      BY <1>1, <1>2, <1>6, <2>1, <3>1 DEF AloneOK
  <2>2. CASE t # s
    <3> DEFINE r == call[t].row
    <3>1. /\ call'[t] = call[t] /\ call[t].alone /\ r # <<>>
          /\ \A u \in Sessions \ {t} : call[u].row # r
          /\ call[t].kind = "insert" /\ call[t].end = "row" => ~Has(r)
      BY <1>1, <1>2, <1>6, <2>2 DEF AloneOK
    <3>2. \A u \in Sessions \ {t} : call'[u].row # call'[t].row
      <4> TAKE u \in Sessions \ {t}
      <4>1. CASE u # s
        BY <1>2, <3>1, <4>1
      <4>2. CASE u = s
        BY <1>2, <3>1, <4>2 DEF Moves
      <4> QED
        BY <4>1, <4>2
    <3>3. PICK x : x = r
      OBVIOUS
    <3>4. stores' = stores \/ k # x
      <4>1. CASE call[s].ops = <<>>
        BY <1>4, <4>1
      <4>2. CASE k = Head(call[s].ops).key /\ call[s].ops # <<>> /\ call[s].end = "row"
        BY <1>1, <2>2, <3>1, <3>3, <4>2, HeadOp
      <4>3. CASE k = Head(call[s].ops).key /\ call[s].ops # <<>> /\ call[s].end # "row"
        <5>1. Head(k) \in IndexPrefixes
          BY <1>1, <4>3, HeadOp
        <5>2. Head(x) \in TablePrefixes
          BY <1>1, <3>1, <3>3 DEF CallOK
        <5>3. Head(k) # Head(x)
          BY <5>1, <5>2, PrefixAssumption, Zenon DEF IndexPrefixes, TablePrefixes
        <5> QED
          BY <5>3
      <4> QED
        BY <1>4, <4>1, <4>2, <4>3
    <3>5. Has(x)' <=> Has(x)
      <4>1. CASE stores' = stores
        BY <4>1 DEF Has, Reachable, shardForKey, Shards
      <4>2. CASE stores' # stores
        BY <1>1, <1>4, <3>4, <4>2, OtherKey, Zenon
      <4> QED
        BY <4>1, <4>2
    <3>6. Has(call[t].row)' <=> Has(x)'
      <4>1. call'[t].row = x
        BY <3>1, <3>3
      <4> QED
        BY <4>1, Zenon DEF Has, Reachable, shardForKey
    <3> QED
      BY <3>1, <3>2, <3>3, <3>5, <3>6, Zenon
  <2> QED
    BY <2>1, <2>2
<1> QED
  BY <1>2, <1>3, <1>5, <1>6, Zenon DEF RowInv, AloneOK

\* A session without a call, and one whose call returns.
LEMMA IdleOK ==
    /\ CallOK(Idle) /\ Idle.row = <<>> /\ Idle.end # "row" /\ Idle.ops = <<>>
    /\ \A c : CallOK(c) => CallOK(Rest(c)) /\ (Rest(c) = c \/ Rest(c) = Idle)
<1>1. Idle.row = <<>> /\ Idle.end # "row" /\ Idle.ops = <<>>
  BY DEF Idle
<1>2. CallOK(Idle)
  <2>1. <<>> \in Seq({}) /\ DOMAIN <<>> = {}
    OBVIOUS
  <2>2. Entries(<<>>)
    BY <2>1 DEF Entries
  <2> QED
    BY <1>1, <2>2 DEF CallOK, Idle
<1> QED
  BY <1>1, <1>2, Zenon DEF Rest

\* A call that goes on to other writes, at its row or done with it.
Moved(c, ops, end, vals, row) == Rest([c EXCEPT !.ops = ops, !.end = end, !.vals = vals, !.row = row])

\* d is past its row, or done.
OnTo(c, d) == CallOK(d) /\ d.end # "row" /\ (d.row = <<>> \/ (d.row = c.row /\ d.alone = c.alone))

\* A call that moves on to entries keeps its row until it is done.
LEMMA MoveOn ==
    ASSUME NEW c, NEW ops, NEW end, NEW vals, NEW row,
           CallOK(c), Entries(ops), end # "row", row = <<>> \/ row = c.row
    PROVE  OnTo(c, Moved(c, ops, end, vals, row))
<1>0. PICK d : d = Moved(c, ops, end, vals, row)
  OBVIOUS
<1>1. PICK j, p, n, k, t, r, v, a : c = [jobs |-> j, ops |-> p, end |-> n, kind |-> k, table |-> t,
                                         row |-> r, vals |-> v, alone |-> a]
  BY Zenon DEF CallOK
<1>10. PICK e : e = [c EXCEPT !.ops = ops, !.end = end, !.vals = vals, !.row = row]
  OBVIOUS
<1>2. e = [jobs |-> j, ops |-> ops, end |-> end, kind |-> k, table |-> t,
           row |-> row, vals |-> vals, alone |-> a]
  <2>1. e \in [jobs : {j}, ops : {ops}, end : {end}, kind : {k}, table : {t},
                row : {row}, vals : {vals}, alone : {a}]
    BY <1>1, <1>10, Zenon
  <2> QED
    BY <2>1
<1>3. c.alone = a
  BY <1>1
<1>4. c.row # <<>> => Head(c.row) \in TablePrefixes
  BY DEF CallOK
<1>5. /\ e.jobs = j /\ e.ops = ops /\ e.end = end /\ e.kind = k /\ e.table = t
      /\ e.row = row /\ e.vals = vals /\ e.alone = a
  BY <1>2
<1>6. CallOK(e)
  BY <1>2, <1>4, <1>5, Zenon DEF CallOK
<1>7. d = Rest(e)
  BY <1>0, <1>10, Zenon DEF Moved
<1>8. CallOK(d) /\ (d = e \/ d = Idle)
  BY <1>6, <1>7, IdleOK, Zenon
<1>9. OnTo(c, d)
  BY <1>3, <1>5, <1>8, IdleOK DEF OnTo
<1> QED
  BY <1>0, <1>9, Zenon

\* Settle moves the session on.
LEMMA SettleMoves ==
    ASSUME RowInv, NEW s \in Sessions, NEW plan, Settle(s, plan), Entries(plan.ops), plan.end # "row"
    PROVE  \E c : call' = [call EXCEPT ![s] = c] /\ OnTo(call[s], c)
<1> DEFINE row == IF plan.ops = <<>> /\ plan.end = "true" THEN <<>> ELSE call[s].row
<1>1. call' = [call EXCEPT ![s] = Moved(call[s], plan.ops, plan.end, <<>>, row)]
  BY Zenon DEF Settle, Moved
<1>2. CallOK(call[s]) /\ (row = <<>> \/ row = call[s].row)
  BY DEF RowInv
<1> HIDE DEF row
<1>3. OnTo(call[s], Moved(call[s], plan.ops, plan.end, <<>>, row))
  BY <1>2, MoveOn, Zenon
<1> QED
  BY <1>1, <1>3, Zenon

\* A write moves the session on.
LEMMA StepMoves ==
    ASSUME RowInv, NEW s \in Sessions, Step(s)
    PROVE  \E c : Moves(s, c)
<1>1. CallOK(call[s]) /\ call[s].ops # <<>> /\ TablesOK /\ tables' = tables
  BY DEF RowInv, Step
<1>2. Entries(AfterOp(call[s]).ops) /\ AfterOp(call[s]).end # "row"
  BY <1>1, AfterOpOK
<1>3. PICK o, rest : /\ o = Head(call[s].ops) /\ rest = AfterOp(call[s])
        /\ \/ Set(o.key, o.val) /\ Settle(s, rest)
           \/ Del(o.key) /\ Settle(s, rest)
           \/ Settle(s, rest) /\ UNCHANGED <<stores, open>>
           \/ /\ call' = [call EXCEPT ![s] = Rest([call[s] EXCEPT !.ops = <<>>, !.end = "false", !.vals = <<>>, !.row = <<>>])]
              /\ UNCHANGED <<stores, open, dirty>>
  BY DEF Step
<1>4. \/ stores' = stores
      \/ \E k : k = Head(call[s].ops).key /\ ((\E v : Set(k, v)) \/ Del(k))
  BY <1>3
<1>5. CASE Settle(s, rest)
  <2>1. PICK c : call' = [call EXCEPT ![s] = c] /\ OnTo(call[s], c)
    BY <1>2, <1>3, <1>5, SettleMoves
  <2>2. Moves(s, c)
    BY <1>1, <1>4, <2>1, Zenon DEF Moves, OnTo
  <2> QED
    BY <2>2
<1>6. CASE /\ call' = [call EXCEPT ![s] = Rest([call[s] EXCEPT !.ops = <<>>, !.end = "false", !.vals = <<>>, !.row = <<>>])]
           /\ UNCHANGED <<stores, open, dirty>>
  <2>1. PICK c : c = Moved(call[s], <<>>, "false", <<>>, <<>>) /\ call' = [call EXCEPT ![s] = c]
    BY <1>6, Zenon DEF Moved
  <2>2. Entries(<<>>)
    BY IdleOK DEF CallOK
  <2>3. OnTo(call[s], c)
    <3>1. "false" # "row"
      OBVIOUS
    <3> QED
      BY <1>1, <2>1, <2>2, <3>1, MoveOn, Zenon
  <2>4. Moves(s, c)
    BY <1>1, <1>4, <2>1, <2>3, Zenon DEF Moves, OnTo
  <2> QED
    BY <2>4
<1> QED
  BY <1>3, <1>5, <1>6

\* So does one that fails, done or not.
LEMMA StepFailMoves ==
    ASSUME RowInv, NEW s \in Sessions, StepFail(s)
    PROVE  \E c : Moves(s, c)
<1>1. /\ call[s].ops # <<>> /\ tables' = tables /\ call' = [call EXCEPT ![s] = Idle]
      /\ \/ stores' = stores
         \/ \E k : k = Head(call[s].ops).key /\ ((\E v : Set(k, v)) \/ Del(k))
  BY DEF StepFail
<1>2. Moves(s, Idle)
  BY <1>1, IdleOK, Zenon DEF Moves
<1> QED
  BY <1>2

\* d is call c but for alone.
Marked(c, d, b) ==
    CallOK(d) /\ d.row = c.row /\ d.kind = c.kind /\ d.end = c.end /\ d.ops = c.ops /\ d.alone = b

\* A call keeps all but alone when another one starts at its row.
LEMMA AloneOnly ==
    ASSUME NEW c, NEW d, NEW b, CallOK(c), d = [c EXCEPT !.alone = b]
    PROVE  Marked(c, d, b)
<1>1. PICK j, p, n, k, t, r, v, a : c = [jobs |-> j, ops |-> p, end |-> n, kind |-> k, table |-> t,
                                         row |-> r, vals |-> v, alone |-> a]
  BY Zenon DEF CallOK
<1>2. /\ c.jobs = j /\ c.ops = p /\ c.end = n /\ c.kind = k /\ c.table = t
      /\ c.row = r /\ c.vals = v /\ c.alone = a
  BY <1>1
<1>3. d = [jobs |-> j, ops |-> p, end |-> n, kind |-> k, table |-> t, row |-> r, vals |-> v, alone |-> b]
  <2>1. d \in [jobs : {j}, ops : {p}, end : {n}, kind : {k}, table : {t}, row : {r}, vals : {v}, alone : {b}]
    BY <1>1
  <2> QED
    BY <2>1
<1>4. /\ d.jobs = j /\ d.ops = p /\ d.end = n /\ d.kind = k /\ d.table = t
      /\ d.row = r /\ d.vals = v /\ d.alone = b
  BY <1>3
<1>5. CallOK(d)
  <2>1. d = [jobs |-> d.jobs, ops |-> d.ops, end |-> d.end, kind |-> d.kind, table |-> d.table,
             row |-> d.row, vals |-> d.vals, alone |-> d.alone]
    BY <1>3, <1>4, Zenon
  <2>2. /\ r # <<>> => Head(r) \in TablePrefixes
        /\ IF n = "row" THEN (\E o : p = <<o>> /\ o.key = r) /\ r # <<>> /\ t \in DOMAIN tables ELSE Entries(p)
    BY <1>2, Zenon DEF CallOK
  <2> QED
    BY <1>4, <2>1, <2>2, Zenon DEF CallOK
<1> QED
  BY <1>2, <1>4, <1>5, Zenon DEF Marked

\* e is a call at row r that has found what dbUpdate looks for there.
Fresh(e, r, b) ==
    /\ CallOK(e) /\ e.row = r /\ e.alone = b
    /\ e.kind = "insert" /\ e.end = "row" => ~Has(r)

\* The call that starts has its row or nothing before it.
LEMMA FreshCall ==
    ASSUME NEW job, NEW p, NEW r, NEW j, NEW b, NEW e, TablesOK, p = Plan(job), r = RowOf(p),
           e = [jobs |-> j, ops |-> p.ops, end |-> p.end, kind |-> job.kind, table |-> job.table,
                row |-> r, vals |-> p.vals, alone |-> b]
    PROVE  Fresh(e, r, b)
<1>1. \/ p.ops = <<>> /\ p.end # "row"
      \/ /\ p.end = "row" /\ job.table \in DOMAIN tables
         /\ \E o : /\ p.ops = <<o>> /\ o.key # <<>>
                   /\ Head(o.key) \in TablePrefixes
                   /\ job.kind = "insert" => ~Has(o.key)
  BY PlanOK, Zenon
<1>2. PICK ops, end, k, t, v : ops = p.ops /\ end = p.end /\ k = job.kind /\ t = job.table /\ v = p.vals
  OBVIOUS
<1>3. e = [jobs |-> j, ops |-> ops, end |-> end, kind |-> k, table |-> t, row |-> r, vals |-> v, alone |-> b]
  BY <1>2, Zenon
<1>4. /\ e.jobs = j /\ e.ops = ops /\ e.end = end /\ e.kind = k /\ e.table = t
      /\ e.row = r /\ e.vals = v /\ e.alone = b
  BY <1>3
<1>5. e = [jobs |-> e.jobs, ops |-> e.ops, end |-> e.end, kind |-> e.kind, table |-> e.table,
           row |-> e.row, vals |-> e.vals, alone |-> e.alone]
  BY <1>3, <1>4, Zenon
<1>6. CASE ops = <<>> /\ end # "row"
  <2>1. r = <<>>
    BY <1>2, <1>6 DEF RowOf
  <2>2. Entries(<<>>)
    BY IdleOK DEF CallOK
  <2>3. CallOK(e)
    BY <1>4, <1>5, <1>6, <2>1, <2>2, Zenon DEF CallOK
  <2> QED
    BY <1>4, <1>6, <2>3, Zenon DEF Fresh
<1>7. CASE /\ end = "row" /\ t \in DOMAIN tables
           /\ \E o : /\ ops = <<o>> /\ o.key # <<>>
                     /\ Head(o.key) \in TablePrefixes
                     /\ k = "insert" => ~Has(o.key)
  <2>1. PICK o : /\ ops = <<o>> /\ o.key # <<>>
                 /\ Head(o.key) \in TablePrefixes
                 /\ k = "insert" => ~Has(o.key)
    BY <1>7, Zenon
  <2>2. r = o.key
    BY <1>2, <2>1 DEF RowOf
  <2>3. CallOK(e)
    BY <1>4, <1>5, <1>7, <2>1, <2>2, Zenon DEF CallOK
  <2> QED
    BY <1>4, <2>1, <2>2, <2>3, Zenon DEF Fresh
<1> QED
  BY <1>1, <1>2, <1>6, <1>7, Zenon

\* Session s starts a call: it is alone at its row if no call is there, and no
\* call there is alone any more.
LEMMA StartInv ==
    ASSUME RowInv, NEW s \in Sessions, NEW jobs, Start(s, jobs), tables' = tables, stores' = stores
    PROVE  RowInv'
<1>1. /\ DOMAIN stores = Shards /\ TablesOK /\ call = [t \in Sessions |-> call[t]]
      /\ \A t \in Sessions : CallOK(call[t]) /\ AloneOK(t)
  BY Zenon DEF RowInv
<1>2. PICK job, p, r : job = Head(jobs) /\ p = Plan(job) /\ r = RowOf(p)
  OBVIOUS
<1>3. PICK j, b : /\ j = (IF p.end \in {"err", "panic"} THEN <<>> ELSE Tail(jobs))
                  /\ b = (r \notin BusyRows)
  BY Zenon
<1>4. PICK e : e = [jobs |-> j, ops |-> p.ops, end |-> p.end, kind |-> job.kind, table |-> job.table,
                    row |-> r, vals |-> p.vals, alone |-> b]
  BY Zenon
<1>5. PICK c : c = Rest(e)
  OBVIOUS
<1>6. call' = [t \in Sessions |-> IF t = s THEN c
                                  ELSE [call[t] EXCEPT !.alone = call[t].alone /\ (r = <<>> \/ call[t].row # r)]]
  BY <1>2, <1>3, <1>4, <1>5, Zenon DEF Start
<1>7. /\ CallOK(e) /\ e.row = r /\ e.alone = b
      /\ e.kind = "insert" /\ e.end = "row" => ~Has(r)
  <2>1. Fresh(e, r, b)
    BY <1>1, <1>2, <1>4, FreshCall, Zenon
  <2> QED
    BY <2>1, Zenon DEF Fresh
<1>8. CallOK(c) /\ (c = e \/ c = Idle)
  BY <1>5, <1>7, IdleOK, Zenon
<1>9. ASSUME NEW t \in Sessions \ {s}
      PROVE  /\ CallOK(call'[t]) /\ call'[t].row = call[t].row /\ call'[t].kind = call[t].kind
             /\ call'[t].end = call[t].end
             /\ call'[t].alone => call[t].alone /\ (r = <<>> \/ call[t].row # r)
  <2>1. PICK d0 : d0 = call[t]
    OBVIOUS
  <2>2. PICK a : a = (d0.alone /\ (r = <<>> \/ d0.row # r))
    OBVIOUS
  <2>3. PICK d : d = [d0 EXCEPT !.alone = a]
    BY Zenon
  <2>4. call'[t] = d
    <3>1. t # s /\ t \in Sessions
      OBVIOUS
    <3>2. call'[t] = [call[t] EXCEPT !.alone = call[t].alone /\ (r = <<>> \/ call[t].row # r)]
      BY <1>6, <3>1, Zenon
    <3> QED
      BY <2>1, <2>2, <2>3, <3>2, Zenon
  <2>5. CallOK(d0)
    BY <1>1, <2>1, Zenon
  <2>6. CallOK(d) /\ d.row = d0.row /\ d.kind = d0.kind /\ d.end = d0.end /\ d.alone = a
    <3>1. Marked(d0, d, a)
      BY <2>3, <2>5, AloneOnly, Zenon
    <3> QED
      BY <3>1, Zenon DEF Marked
  <2> QED
    BY <2>1, <2>2, <2>4, <2>6, Zenon
<1>10. call'[s] = c /\ call' = [t \in Sessions |-> call'[t]]
  BY <1>6
<1>11. TablesOK' /\ \A t \in Sessions : CallOK(call[t])'
  <2>1. TablesOK' /\ \A d : CallOK(d)' <=> CallOK(d)
    BY <1>1, Zenon DEF TablesOK, CallOK
  <2>2. ASSUME NEW t \in Sessions PROVE CallOK(call[t])'
    <3>1. PICK d : d = call'[t]
      OBVIOUS
    <3>2. CallOK(d)
      BY <1>8, <1>9, <1>10, <3>1, Zenon
    <3>3. CallOK(d)'
      BY <2>1, <3>2, Zenon
    <3> QED
      BY <3>1, <3>3, Zenon DEF CallOK
  <2> QED
    BY <2>1, <2>2
<1>12. \A x : Has(x)' <=> Has(x)
  BY Zenon DEF Has, Reachable, shardForKey, Shards
<1>13. ASSUME NEW t \in Sessions, call'[t].alone, call'[t].row # <<>>
       PROVE  /\ \A u \in Sessions \ {t} : call'[u].row # call'[t].row
              /\ call'[t].kind = "insert" /\ call'[t].end = "row" => ~Has(call[t].row)'
  <2>1. PICK x : x = call'[t].row
    OBVIOUS
  <2>2. Has(call[t].row)' <=> Has(x)
    BY <1>12, <2>1, Zenon DEF Has, Reachable, shardForKey
  <2>3. CASE t = s
    <3>1. c = e /\ x = r /\ b /\ r # <<>>
      BY <1>7, <1>8, <1>10, <1>13, <2>1, <2>3, IdleOK, Zenon
    <3>2. ASSUME NEW u \in Sessions \ {s} PROVE call[u].row # r
      BY <1>3, <3>1, Zenon DEF BusyRows, Busy
    <3> QED
      BY <1>7, <1>9, <1>10, <2>1, <2>2, <2>3, <3>1, <3>2, Zenon
  <2>4. CASE t # s
    <3>1. x = call[t].row /\ call[t].alone /\ (r = <<>> \/ x # r)
      BY <1>9, <1>13, <2>1, <2>4, Zenon
    <3>2. /\ \A u \in Sessions \ {t} : call[u].row # x
          /\ call[t].kind = "insert" /\ call[t].end = "row" => ~Has(x)
      BY <1>1, <1>13, <2>1, <3>1, Zenon DEF AloneOK
    <3>3. c.row = <<>> \/ c.row = r
      BY <1>7, <1>8, IdleOK, Zenon
    <3>4. ASSUME NEW u \in Sessions \ {t} PROVE call'[u].row # x
      <4>1. CASE u = s
        BY <1>10, <1>13, <2>1, <3>1, <3>3, <4>1, Zenon
      <4>2. CASE u # s
        BY <1>9, <3>2, <4>2, Zenon
      <4> QED
        BY <4>1, <4>2
    <3> QED
      BY <1>9, <2>1, <2>2, <2>4, <3>2, <3>4, Zenon
  <2> QED
    BY <2>3, <2>4
<1> QED
  BY <1>1, <1>10, <1>11, <1>13, Zenon DEF RowInv, AloneOK, Shards

(***************************************************************************)
(* The definitions, and the ends of the process                            *)
(***************************************************************************)

\* A step that writes nothing and at most adds to the definitions, with every
\* call where it was.
LEMMA QuietInv ==
    ASSUME RowInv, stores' = stores, TablesOK', DOMAIN tables \subseteq DOMAIN tables',
           call' = [t \in Sessions |-> call'[t]],
           \A t \in Sessions :
              /\ CallOK(call'[t]) /\ call'[t].row = call[t].row /\ call'[t].kind = call[t].kind
              /\ call'[t].end = call[t].end
              /\ call'[t].alone /\ call[t].row # <<>> => call[t].alone
    PROVE  RowInv'
<1>1. /\ DOMAIN stores = Shards
      /\ \A t \in Sessions : AloneOK(t)
  BY Zenon DEF RowInv
<1>2. \A d : CallOK(d) => CallOK(d)'
  BY Zenon DEF CallOK
<1>3. ASSUME NEW t \in Sessions PROVE CallOK(call[t])'
  <2>1. PICK d : d = call'[t]
    OBVIOUS
  <2>2. CallOK(d)'
    BY <1>2, <2>1, Zenon
  <2> QED
    BY <2>1, <2>2, Zenon DEF CallOK
<1>4. \A x : Has(x)' <=> Has(x)
  BY Zenon DEF Has, Reachable, shardForKey, Shards
<1>5. ASSUME NEW t \in Sessions, call'[t].alone, call'[t].row # <<>>
      PROVE  /\ \A u \in Sessions \ {t} : call'[u].row # call'[t].row
             /\ call'[t].kind = "insert" /\ call'[t].end = "row" => ~Has(call[t].row)'
  <2>1. PICK x : x = call'[t].row
    OBVIOUS
  <2>2. Has(call[t].row)' <=> Has(x)
    BY <1>4, <2>1, Zenon DEF Has, Reachable, shardForKey
  <2>3. x = call[t].row /\ call[t].alone
    BY <1>5, <2>1, Zenon
  <2>4. /\ \A u \in Sessions \ {t} : call[u].row # x
        /\ call[t].kind = "insert" /\ call[t].end = "row" => ~Has(x)
    BY <1>1, <1>5, <2>1, <2>3, ZenonT(30) DEF AloneOK
  <2> QED
    BY <2>1, <2>2, <2>4, Zenon
<1> QED
  BY <1>1, <1>3, <1>5, Zenon DEF RowInv, AloneOK, Shards

\* CreateTable adds a table without indexes.
LEMMA CreateTableInv ==
    ASSUME RowInv, NEW tdef \in Schemas, CreateTable(tdef)
    PROVE  RowInv'
<1>1. /\ TablesOK /\ call = [t \in Sessions |-> call[t]] /\ \A t \in Sessions : CallOK(call[t])
      /\ stores' = stores /\ call' = call /\ tables' = With(tables, tdef.name, tdef)
  BY Zenon DEF RowInv, CreateTable
<1>2. /\ DOMAIN tables' = DOMAIN tables \cup {tdef.name} /\ tables'[tdef.name] = tdef
      /\ \A t \in DOMAIN tables \ {tdef.name} : tables'[t] = tables[t]
  BY <1>1 DEF With
<1>3. TableOK(tdef.name, tdef)
  <2>6. PICK n, c, p : n = tdef.name /\ c = tdef.cols /\ p = tdef.pkeys
    OBVIOUS
  <2>1. tdef = [name |-> n, cols |-> c, pkeys |-> p, indexes |-> <<>>]
    <3>1. tdef = [name |-> tdef.name, cols |-> tdef.cols, pkeys |-> tdef.pkeys, indexes |-> <<>>]
      BY SchemasAssumption, Zenon
    <3> QED
      BY <2>6, <3>1, Zenon
  <2>2. tdef.name = n /\ tdef.cols = c /\ tdef.pkeys = p /\ tdef.indexes = <<>>
    BY <2>1
  <2>3. tdef = [name |-> tdef.name, cols |-> tdef.cols, pkeys |-> tdef.pkeys, indexes |-> tdef.indexes]
    BY <2>1, <2>2, Zenon
  <2>4. <<>> \in Seq({m.index : m \in NewIndexes}) /\ DOMAIN <<>> = {}
    OBVIOUS
  <2>5. HashTable(tdef.name) \in TablePrefixes
    BY Zenon DEF TablePrefixes
  <2> QED
    BY <2>2, <2>3, <2>4, <2>5, Zenon DEF TableOK
<1>4. TablesOK'
  <2>1. ASSUME NEW t \in DOMAIN tables' PROVE TableOK(t, tables'[t])
    BY <1>1, <1>2, <1>3, Zenon DEF TablesOK
  <2> QED
    BY <2>1, Zenon DEF TablesOK, TableOK
<1>5. DOMAIN tables \subseteq DOMAIN tables'
  BY <1>2
<1> QED
  BY <1>1, <1>4, <1>5, QuietInv, Zenon

\* CreateIndex appends to the indexes of a table; calls at work are not alone any
\* more.
LEMMA CreateIndexInv ==
    ASSUME RowInv, NEW n \in NewIndexes, CreateIndex(n.table, n.index)
    PROVE  RowInv'
<1>1. /\ TablesOK /\ call = [t \in Sessions |-> call[t]] /\ \A t \in Sessions : CallOK(call[t])
      /\ stores' = stores /\ n.table \in DOMAIN tables
  BY Zenon DEF RowInv, CreateIndex
<1>2. PICK table, idx, tdef : table = n.table /\ idx = n.index /\ tdef = tables[table]
  OBVIOUS
<1>3. TableOK(table, tdef) /\ table \in DOMAIN tables
  BY <1>1, <1>2, Zenon DEF TablesOK
<1>4. PICK c, p, x : tdef = [name |-> table, cols |-> c, pkeys |-> p, indexes |-> x]
  BY <1>3, Zenon DEF TableOK
<1>5. tdef.name = table /\ tdef.cols = c /\ tdef.pkeys = p /\ tdef.indexes = x
  BY <1>4
<1>6. PICK y : y = Append(x, idx)
  BY Zenon
<1>7. PICK new : new = [name |-> table, cols |-> c, pkeys |-> p, indexes |-> y]
  BY Zenon
<1>8. new.name = table /\ new.cols = c /\ new.pkeys = p /\ new.indexes = y
  BY <1>7
<1>9. tables' = [tables EXCEPT ![table] = new]
  <2>1. tables' = [tables EXCEPT ![n.table].indexes = Append(@, n.index)]
    BY DEF CreateIndex
  <2>2. [tdef EXCEPT !.indexes = Append(tdef.indexes, idx)] = new
    <3>1. [tdef EXCEPT !.indexes = Append(tdef.indexes, idx)] = [tdef EXCEPT !.indexes = y]
      BY <1>5, <1>6, Zenon
    <3>2. PICK z : z = [tdef EXCEPT !.indexes = y]
      BY Zenon
    <3>3. z \in [name : {table}, cols : {c}, pkeys : {p}, indexes : {y}]
      BY <1>4, <3>2
    <3>4. z = new
      BY <1>7, <3>3
    <3> QED
      BY <3>1, <3>2, <3>4, Zenon
  <2> QED
    BY <1>2, <2>1, <2>2, Zenon
<1>10. TableOK(table, new)
  <2>1. x \in Seq({m.index : m \in NewIndexes}) /\ \A i \in DOMAIN x : HashIndex(table, x[i].name) \in IndexPrefixes
    BY <1>3, <1>5, Zenon DEF TableOK
  <2>2. idx \in {m.index : m \in NewIndexes} /\ HashIndex(table, idx.name) \in IndexPrefixes
    BY <1>2, Zenon DEF IndexPrefixes
  <2>3. y \in Seq({m.index : m \in NewIndexes}) /\ \A i \in DOMAIN y : y[i] = idx \/ (i \in DOMAIN x /\ y[i] = x[i])
    BY <1>6, <2>1, <2>2
  <2>4. new = [name |-> table, cols |-> new.cols, pkeys |-> new.pkeys, indexes |-> new.indexes]
    BY <1>7, <1>8, Zenon
  <2>5. HashTable(table) \in TablePrefixes
    BY <1>3, Zenon DEF TableOK
  <2>6. \A i \in DOMAIN y : HashIndex(table, y[i].name) \in IndexPrefixes
    BY <2>1, <2>2, <2>3, Zenon
  <2> QED
    BY <1>8, <2>3, <2>4, <2>5, <2>6, Zenon DEF TableOK
<1>11. TablesOK' /\ DOMAIN tables' = DOMAIN tables
  <2>1. DOMAIN tables' = DOMAIN tables /\ tables'[table] = new /\ \A t \in DOMAIN tables \ {table} : tables'[t] = tables[t]
    BY <1>3, <1>9
  <2>2. ASSUME NEW t \in DOMAIN tables' PROVE TableOK(t, tables'[t])
    BY <1>1, <1>10, <2>1, Zenon DEF TablesOK
  <2> QED
    BY <2>1, <2>2, Zenon DEF TablesOK, TableOK
<1>12. call' = [t \in Sessions |-> [call[t] EXCEPT !.alone = (call[t] = Idle)]]
  BY Zenon DEF CreateIndex
<1>13. ASSUME NEW t \in Sessions
       PROVE  /\ CallOK(call'[t]) /\ call'[t].row = call[t].row /\ call'[t].kind = call[t].kind
              /\ call'[t].end = call[t].end
              /\ call'[t].alone /\ call[t].row # <<>> => call[t].alone
  <2>1. PICK d0, b : d0 = call[t] /\ b = (d0 = Idle)
    OBVIOUS
  <2>2. PICK d : d = [d0 EXCEPT !.alone = b]
    BY Zenon
  <2>3. call'[t] = d
    BY <1>12, <2>1, <2>2, Zenon
  <2>4. Marked(d0, d, b)
    BY <1>1, <2>1, <2>2, AloneOnly, Zenon
  <2> QED
    BY <2>1, <2>3, <2>4, IdleOK, Zenon DEF Marked
<1>14. call' = [t \in Sessions |-> call'[t]]
  BY <1>12
<1>15. DOMAIN tables \subseteq DOMAIN tables'
  BY <1>11
<1> QED
  BY <1>1, <1>11, <1>13, <1>14, <1>15, QuietInv, Zenon

\* No call and no definition is left.
LEMMA NothingLeft ==
    ASSUME call = [s \in Sessions |-> Idle], tables = <<>>, DOMAIN stores = Shards
    PROVE  RowInv
<1>1. \A s \in Sessions : call[s] = Idle
  OBVIOUS
<1>2. call = [s \in Sessions |-> call[s]]
  OBVIOUS
<1>3. DOMAIN tables = {}
  OBVIOUS
<1>4. TablesOK
  BY <1>3, Zenon DEF TablesOK
<1>5. \A s \in Sessions : CallOK(call[s]) /\ AloneOK(s)
  BY <1>1, IdleOK, Zenon DEF AloneOK
<1> QED
  BY <1>2, <1>4, <1>5, Zenon DEF RowInv

\* The end of the process leaves the rows and nothing else.
LEMMA EndsInv ==
    ASSUME RowInv, Ends
    PROVE  RowInv'
<1>1. call' = [s \in Sessions |-> Idle] /\ tables' = <<>> /\ stores' = stores
  BY DEF Ends, Exit
<1>2. DOMAIN stores' = Shards
  BY <1>1, Zenon DEF RowInv
<1>3. \A s \in Sessions : call'[s] = Idle
  BY <1>1
<1>4. call' = [s \in Sessions |-> call'[s]]
  BY <1>1
<1>5. DOMAIN tables' = {}
  BY <1>1
<1>6. TablesOK'
  BY <1>5, Zenon DEF TablesOK
<1>7. CallOK(Idle)' /\ Idle.row = <<>>
  <2>1. CallOK(Idle) /\ Idle.row = <<>> /\ Idle.end # "row"
    BY IdleOK, Zenon
  <2> QED
    BY <2>1, Zenon DEF CallOK
<1>8. ASSUME NEW s \in Sessions PROVE CallOK(call[s])' /\ AloneOK(s)'
  <2>1. CallOK(call[s])'
    BY <1>3, <1>7, Zenon DEF CallOK
  <2> QED
    BY <1>3, <1>7, <2>1, Zenon DEF AloneOK
<1> QED
  BY <1>2, <1>4, <1>6, <1>8, Zenon DEF RowInv, Shards

\* A step of another kind changes neither rows nor calls nor definitions.
LEMMA SameInv ==
    ASSUME RowInv, stores' = stores, tables' = tables, call' = call
    PROVE  RowInv'
<1>1. \A d : CallOK(d)' <=> CallOK(d)
  BY Zenon DEF CallOK
<1>2. \A x : Has(x)' <=> Has(x)
  BY Zenon DEF Has, Reachable, shardForKey, Shards
<1>3. /\ DOMAIN stores = Shards /\ TablesOK /\ call = [t \in Sessions |-> call[t]]
      /\ \A t \in Sessions : CallOK(call[t]) /\ AloneOK(t)
  BY Zenon DEF RowInv
<1>4. TablesOK'
  BY <1>3, Zenon DEF TablesOK
<1>5. \A t \in Sessions : /\ CallOK(call'[t]) /\ call'[t].row = call[t].row /\ call'[t].kind = call[t].kind
                          /\ call'[t].end = call[t].end
                          /\ call'[t].alone /\ call[t].row # <<>> => call[t].alone
  BY <1>3, Zenon
<1>6. call' = [t \in Sessions |-> call'[t]] /\ DOMAIN tables \subseteq DOMAIN tables'
  BY <1>3, Zenon
<1> QED
  BY <1>4, <1>5, <1>6, QuietInv, Zenon

\* Every step keeps the invariant.
LEMMA RowInvNext ==
    ASSUME RowInv, [Next]_vars
    PROVE  RowInv'
<1>1. CASE OpenDB \/ OpenDBFails \/ UNCHANGED vars
  BY <1>1, SameInv DEF OpenDB, OpenDBFails, Open, OpenFails, vars
<1>2. CASE Kill
  BY <1>2, EndsInv DEF Kill
<1>3. ASSUME NEW tdef \in Schemas, CreateTable(tdef) PROVE RowInv'
  BY <1>3, CreateTableInv
<1>4. ASSUME NEW n \in NewIndexes, CreateIndex(n.table, n.index) PROVE RowInv'
  BY <1>4, CreateIndexInv
<1>5. ASSUME NEW s \in Sessions, NEW job, Call(s, job) PROVE RowInv'
  <2>1. Start(s, <<job>>) /\ tables' = tables /\ stores' = stores
    BY <1>5 DEF Call
  <2> QED
    BY <2>1, StartInv, Zenon
<1>6. ASSUME NEW s \in Sessions, Step(s) PROVE RowInv'
  BY <1>6, StepMoves, MovesInv
<1>7. ASSUME NEW s \in Sessions, StepFail(s) PROVE RowInv'
  BY <1>7, StepFailMoves, MovesInv
<1>8. ASSUME NEW s \in Sessions, Panic(s) PROVE RowInv'
  BY <1>8, EndsInv DEF Panic
<1> QED
  BY <1>1, <1>2, <1>3, <1>4, <1>5, <1>6, <1>7, <1>8, Zenon DEF Next

\* The invariant holds in every state.
LEMMA RowInvariant == Spec => []RowInv
<1>1. Init => RowInv
  <2> SUFFICES ASSUME Init PROVE RowInv
    OBVIOUS
  <2>1. call = [s \in Sessions |-> Idle] /\ tables = <<>> /\ DOMAIN stores = Shards
    BY DEF Init, ShardInit
  <2> QED
    BY <2>1, NothingLeft, Zenon
<1> QED
  BY <1>1, RowInvNext, PTL DEF Spec

\* Insert writes no row over another one, as long as no other call is at that row
\* between the Get of dbUpdate and its Set: whatever rows, tables and indexes the
\* other sessions write or create meanwhile, the answer of the Get still holds
\* when the row is written.
THEOREM InsertsKeepRows == Spec => InsertKeepsRow
<1>1. RowInv /\ [Next]_vars =>
        [\A s \in Sessions :
            (call[s].kind = "insert" /\ call[s].alone /\ call[s].end = "row" /\ call'[s] # call[s])
              => ~Has(call[s].row) \/ stores' = stores]_vars
  <2> SUFFICES ASSUME RowInv, NEW s \in Sessions,
                      call[s].kind = "insert", call[s].alone, call[s].end = "row"
               PROVE  ~Has(call[s].row)
    OBVIOUS
  <2>1. call[s].row # <<>>
    BY Zenon DEF RowInv, CallOK
  <2> QED
    BY <2>1, Zenon DEF RowInv, AloneOK
<1> QED
  BY <1>1, RowInvariant, PTL DEF Spec, InsertKeepsRow

(***************************************************************************)
(* The rows of all tables are one map                                      *)
(***************************************************************************)

\* A table has the columns and the primary key of a schema.
TableLike(t, tdef) ==
    \E d \in Schemas : d.name = t /\ tdef.name = t /\ tdef.cols = d.cols /\ tdef.pkeys = d.pkeys

\* What is written to a row of RowIds is the encoding of values of RowVals.
WriteOK(o) ==
    \A id \in RowIds :
        o.kind = "set" /\ o.key = EncodeKey(id[1], id[2]) => \E w \in RowVals : o.val = EncodeValues(w)

RowWrites(c) == c.end = "row" => \A o : c.ops = <<o>> => WriteOK(o)

\* The invariant that the refinement needs beside RowInv.
WriteInv ==
    /\ load \in DOMAIN Loads
    /\ \A t \in DOMAIN tables : TableLike(t, tables[t])
    /\ \A s \in Sessions : RowWrites(call[s])

\* checkRecord looks at the columns and the length of the primary key.
LEMMA CheckedAlike ==
    ASSUME NEW tdef, NEW d, tdef.cols = d.cols, tdef.pkeys = d.pkeys, NEW rec, NEW n
    PROVE  checkRecord(tdef, rec, n) = checkRecord(d, rec, n)
<1> DEFINE Bad(t) == {i \in DOMAIN rec.cols : Column(t, rec.cols[i]) = 0 \/ i > Len(rec.vals)}
           From1(t, j) == {i \in DOMAIN rec.cols : Column(t, rec.cols[i]) = j}
           Filled(t) == [j \in DOMAIN t.cols |-> IF From1(t, j) = {} THEN ZeroValue(t.cols[j].type)
                                                 ELSE rec.vals[Max(From1(t, j))]]
           Verdict(v) == [verdict |-> v, vals |-> <<>>]
           Of(bad, vals, pkeys, first) ==
              IF bad # {} THEN Verdict(IF first = 0 THEN "err" ELSE "panic")
              ELSE IF n # pkeys /\ ~Encodable(SubSeq(vals, 1, Min({pkeys, Len(vals)}))) THEN Verdict("err")
              ELSE IF pkeys > Len(vals) THEN Verdict("panic")
              ELSE [verdict |-> "ok", vals |-> IF n = pkeys THEN SubSeq(vals, 1, n) ELSE vals]
<1>1. \A t : checkRecord(t, rec, n) = Of(Bad(t), Filled(t), t.pkeys, Column(t, rec.cols[Min(Bad(t))]))
  BY Zenon DEF checkRecord
<1>2. \A name : Column(tdef, name) = Column(d, name)
  BY DEF Column
<1>3. Bad(tdef) = Bad(d) /\ \A j : From1(tdef, j) = From1(d, j)
  BY <1>2
<1> HIDE DEF From1
<1>4. Filled(tdef) = Filled(d)
  BY <1>3
<1> HIDE DEF Of, Bad, Filled
<1> QED
  BY <1>1, <1>2, <1>3, <1>4, Zenon

\* A plan that writes a row writes what its record holds.
LEMMA PlanWrites ==
    ASSUME load \in DOMAIN Loads, NEW job \in Loads[load].jobs,
           \A t \in DOMAIN tables : TableLike(t, tables[t]),
           NEW o, Plan(job).end = "row", Plan(job).ops = <<o>>
    PROVE  WriteOK(o)
<1> DEFINE tdef == tables[job.table]
           chk == checkRecord(tdef, job.rec, Len(tdef.cols))
<1>1. /\ \A end : Fails(end).ops # <<o>>
      /\ \A p, vals : Writes(p, vals).ops = <<o>> => p = o
  BY DEF Fails, Writes
<1>2. job.table \in DOMAIN tables
  <2>1. job.table \notin DOMAIN tables => Plan(job) = Fails("err")
    BY Zenon DEF Plan
  <2> QED
    BY <1>1, <2>1, Zenon
<1>3. PICK d \in Schemas : d.name = job.table /\ tdef.name = job.table /\ tdef.cols = d.cols /\ tdef.pkeys = d.pkeys
  BY <1>2, Zenon DEF TableLike
<1> HIDE DEF tdef
<1>4. chk = checkRecord(d, job.rec, Len(d.cols))
  <2>1. checkRecord(tdef, job.rec, Len(d.cols)) = checkRecord(d, job.rec, Len(d.cols))
    BY <1>3, CheckedAlike
  <2> QED
    BY <1>3, <2>1, Zenon
<1>5. ASSUME NEW mode, Plan(job) = dbUpdate(tdef, job.rec, mode)
      PROVE  o = RowOp(tdef, chk.vals) /\ chk.verdict = "ok" /\ Encodable(chk.vals)
  <2>1. \/ \E end : Plan(job) = Fails(end)
        \/ Plan(job) = Writes(RowOp(tdef, chk.vals), chk.vals) /\ chk.verdict = "ok" /\ Encodable(chk.vals)
    BY <1>5, Zenon DEF dbUpdate
  <2> HIDE DEF chk
  <2> QED
    BY <1>1, <2>1, Zenon
<1>6. ASSUME Plan(job) = dbDelete(tdef, job.rec)
      PROVE  o.kind # "set"
  <2>1. \/ \E end : Plan(job) = Fails(end)
        \/ \E k, vals : Plan(job) = Writes(DelOp(k), vals)
    BY <1>6, Zenon DEF dbDelete
  <2>2. \A k : DelOp(k).kind # "set"
    BY DEF DelOp
  <2> QED
    BY <1>1, <2>1, <2>2, Zenon
<1> HIDE DEF chk
<1>7. CASE o.kind # "set"
  BY <1>7 DEF WriteOK
<1>8. CASE o.kind = "set"
  <2>1. job.kind # "delete" /\ \E mode : Plan(job) = dbUpdate(tdef, job.rec, mode)
    BY <1>2, <1>6, <1>8, SMTT(20) DEF Plan, tdef
  <2>2. o = RowOp(tdef, chk.vals) /\ chk.verdict = "ok" /\ Encodable(chk.vals)
    BY <1>5, <2>1
  <2>3. PICK key, rest : key = SubSeq(chk.vals, 1, tdef.pkeys) /\ rest = SubSeq(chk.vals, tdef.pkeys + 1, Len(chk.vals))
    BY Zenon
  <2>4. key = SubSeq(chk.vals, 1, d.pkeys) /\ rest = SubSeq(chk.vals, d.pkeys + 1, Len(chk.vals))
    BY <1>3, <2>3, Zenon
  <2>5. key \in Seq(Values) /\ (<<Prefix(d), key>> \in RowIds => rest \in RowVals)
    BY <1>3, <1>4, <2>1, <2>2, <2>4, RowsAssumption, Zenon
  <2>6. Prefix(d) = Prefix(tdef)
    BY <1>3, Zenon DEF Prefix
  <2>7. o.key = EncodeKey(Prefix(d), key) /\ o.val = EncodeValues(rest)
    BY <2>2, <2>3, <2>6 DEF RowOp, SetOp, RowKey
  <2>8. ASSUME NEW id \in RowIds, o.key = EncodeKey(id[1], id[2])
        PROVE  rest \in RowVals
    <3>1. id = <<id[1], id[2]>> /\ id[2] \in Seq(Values)
      BY RowsAssumption, Zenon
    <3>2. PICK p, x, q : p = id[1] /\ x = id[2] /\ q = Prefix(d)
      OBVIOUS
    <3>3. EncodeKey(q, key) = EncodeKey(p, x) /\ x \in Seq(Values) /\ key \in Seq(Values)
      BY <2>5, <2>7, <2>8, <3>1, <3>2, Zenon
    <3>4. q = p /\ key = x
      BY <3>3, KeysDiffer
    <3>5. Prefix(d) = id[1] /\ key = id[2]
      BY <3>2, <3>4
    <3> QED
      BY <2>5, <3>1, <3>5, Zenon
  <2> QED
    BY <2>7, <2>8, Zenon DEF WriteOK
<1> QED
  BY <1>7, <1>8

\* A call that is not at its row has none to write.
LEMMA RestWrites ==
    /\ RowWrites(Idle)
    /\ \A c : c.end # "row" => RowWrites(c)
<1>1. \A c : c.end # "row" => RowWrites(c)
  BY Zenon DEF RowWrites
<1> QED
  BY <1>1, IdleOK, Zenon

\* The call that starts writes what its record holds, and the others what they
\* were about to.
LEMMA StartWrites ==
    ASSUME RowInv, WriteInv, NEW s \in Sessions, NEW job \in Loads[load].jobs, Start(s, <<job>>)
    PROVE  \A t \in Sessions : RowWrites(call'[t])
<1>1. /\ \A t \in Sessions : CallOK(call[t]) /\ RowWrites(call[t])
      /\ load \in DOMAIN Loads /\ \A t \in DOMAIN tables : TableLike(t, tables[t])
  BY Zenon DEF RowInv, WriteInv
<1>2. PICK p, r : p = Plan(job) /\ r = RowOf(p)
  OBVIOUS
<1>3. Head(<<job>>) = job
  OBVIOUS
<1>4. PICK j, b : call' = [t \in Sessions |->
        IF t = s THEN Rest([jobs |-> j, ops |-> p.ops, end |-> p.end, kind |-> job.kind, table |-> job.table,
                            row |-> r, vals |-> p.vals, alone |-> b])
        ELSE [call[t] EXCEPT !.alone = call[t].alone /\ (r = <<>> \/ call[t].row # r)]]
  BY <1>2, <1>3, Zenon DEF Start
<1>5. PICK e : e = [jobs |-> j, ops |-> p.ops, end |-> p.end, kind |-> job.kind, table |-> job.table,
                    row |-> r, vals |-> p.vals, alone |-> b]
  BY Zenon
<1>6. e.end = p.end /\ e.ops = p.ops
  BY <1>5
<1>7. RowWrites(e)
  <2>1. ASSUME p.end = "row", NEW o, p.ops = <<o>> PROVE WriteOK(o)
    BY <1>1, <1>2, <2>1, PlanWrites, Zenon
  <2> QED
    BY <1>6, <2>1, Zenon DEF RowWrites
<1>8. call'[s] = Rest(e)
  BY <1>4, <1>5, Zenon
<1>9. RowWrites(call'[s])
  BY <1>7, <1>8, RestWrites, Zenon DEF Rest
<1>10. ASSUME NEW t \in Sessions \ {s} PROVE RowWrites(call'[t])
  <2>1. PICK d0, a : d0 = call[t] /\ a = (call[t].alone /\ (r = <<>> \/ call[t].row # r))
    OBVIOUS
  <2>2. PICK d : d = [d0 EXCEPT !.alone = a]
    BY Zenon
  <2>3. call'[t] = d
    BY <1>4, <2>1, <2>2, Zenon
  <2>4. Marked(d0, d, a)
    BY <1>1, <2>1, <2>2, AloneOnly, Zenon
  <2>5. d.end = d0.end /\ d.ops = d0.ops /\ RowWrites(d0)
    BY <1>1, <2>1, <2>4, Zenon DEF Marked
  <2> QED
    BY <2>3, <2>5, Zenon DEF RowWrites
<1> QED
  BY <1>9, <1>10, Zenon

\* CreateTable and CreateIndex leave every table like a schema, and the calls where
\* they were.
LEMMA CreateTableWrites ==
    ASSUME WriteInv, NEW tdef \in Schemas, CreateTable(tdef)
    PROVE  /\ load' = load /\ call' = call
           /\ \A t \in DOMAIN tables' : TableLike(t, tables'[t])
<1>1. load' = load /\ call' = call /\ tables' = With(tables, tdef.name, tdef)
  BY DEF CreateTable
<1>2. /\ DOMAIN tables' = DOMAIN tables \cup {tdef.name} /\ tables'[tdef.name] = tdef
      /\ \A t \in DOMAIN tables \ {tdef.name} : tables'[t] = tables[t]
  BY <1>1 DEF With
<1>3. TableLike(tdef.name, tdef)
  BY Zenon DEF TableLike
<1>4. \A t \in DOMAIN tables : TableLike(t, tables[t])
  BY Zenon DEF WriteInv
<1> QED
  BY <1>1, <1>2, <1>3, <1>4, Zenon

LEMMA CreateIndexWrites ==
    ASSUME RowInv, WriteInv, NEW n \in NewIndexes, CreateIndex(n.table, n.index)
    PROVE  /\ load' = load /\ \A s \in Sessions : RowWrites(call'[s])
           /\ \A t \in DOMAIN tables' : TableLike(t, tables'[t])
<1>1. /\ \A t \in Sessions : CallOK(call[t]) /\ RowWrites(call[t])
      /\ \A t \in DOMAIN tables : TableLike(t, tables[t]) /\ TableOK(t, tables[t])
  BY Zenon DEF RowInv, WriteInv, TablesOK
<1>2. /\ load' = load /\ n.table \in DOMAIN tables
      /\ tables' = [tables EXCEPT ![n.table].indexes = Append(@, n.index)]
      /\ call' = [s \in Sessions |-> [call[s] EXCEPT !.alone = (call[s] = Idle)]]
  BY Zenon DEF CreateIndex
<1>3. PICK table, tdef, y : /\ table = n.table /\ tdef = tables[table] /\ y = Append(tdef.indexes, n.index)
  BY Zenon
<1>4. PICK c, p, x : tdef = [name |-> table, cols |-> c, pkeys |-> p, indexes |-> x]
  BY <1>1, <1>2, <1>3, Zenon DEF TableOK
<1>5. PICK new : new = [tdef EXCEPT !.indexes = y]
  BY Zenon
<1>6. new.name = tdef.name /\ new.cols = tdef.cols /\ new.pkeys = tdef.pkeys
  BY <1>4, <1>5
<1>7. /\ DOMAIN tables' = DOMAIN tables /\ tables'[table] = new
      /\ \A t \in DOMAIN tables \ {table} : tables'[t] = tables[t]
  <2>1. tables' = [tables EXCEPT ![table] = new]
    BY <1>2, <1>3, <1>5, Zenon
  <2> QED
    BY <1>2, <1>3, <2>1
<1>8. TableLike(table, new)
  <2>1. TableLike(table, tdef)
    BY <1>1, <1>2, <1>3, Zenon
  <2> QED
    BY <1>6, <2>1, Zenon DEF TableLike
<1>9. \A t \in DOMAIN tables' : TableLike(t, tables'[t])
  BY <1>1, <1>7, <1>8, Zenon
<1>10. ASSUME NEW s \in Sessions PROVE RowWrites(call'[s])
  <2>1. PICK d0, a : d0 = call[s] /\ a = (call[s] = Idle)
    OBVIOUS
  <2>2. PICK d : d = [d0 EXCEPT !.alone = a]
    BY Zenon
  <2>3. call'[s] = d
    BY <1>2, <2>1, <2>2, Zenon
  <2>4. Marked(d0, d, a)
    BY <1>1, <2>1, <2>2, AloneOnly, Zenon
  <2>5. d.end = d0.end /\ d.ops = d0.ops /\ RowWrites(d0)
    BY <1>1, <2>1, <2>4, Zenon DEF Marked
  <2> QED
    BY <2>3, <2>5, Zenon DEF RowWrites
<1> QED
  BY <1>2, <1>9, <1>10, Zenon

\* Every step keeps the second invariant.
LEMMA WriteInvNext ==
    ASSUME RowInv, WriteInv, [Next]_vars
    PROVE  WriteInv'
<1>1. /\ load \in DOMAIN Loads /\ \A t \in DOMAIN tables : TableLike(t, tables[t])
      /\ \A s \in Sessions : RowWrites(call[s])
      /\ call = [s \in Sessions |-> call[s]]
  BY Zenon DEF WriteInv, RowInv
<1>2. SUFFICES /\ load' = load /\ \A s \in Sessions : RowWrites(call'[s])
               /\ \A t \in DOMAIN tables' : TableLike(t, tables'[t])
  BY <1>1, Zenon DEF WriteInv
<1>3. CASE load' = load /\ tables' = tables /\ call' = call
  BY <1>1, <1>3, Zenon
<1>4. CASE Ends
  <2>1. load' = load /\ call' = [s \in Sessions |-> Idle] /\ tables' = <<>>
    BY <1>4 DEF Ends
  <2>2. DOMAIN tables' = {} /\ \A s \in Sessions : call'[s] = Idle
    BY <2>1
  <2> QED
    BY <2>1, <2>2, RestWrites, Zenon
<1>5. ASSUME NEW tdef \in Schemas, CreateTable(tdef)
      PROVE  /\ load' = load /\ \A s \in Sessions : RowWrites(call'[s])
             /\ \A t \in DOMAIN tables' : TableLike(t, tables'[t])
  BY <1>1, <1>5, CreateTableWrites, Zenon
<1>6. ASSUME NEW n \in NewIndexes, CreateIndex(n.table, n.index)
      PROVE  /\ load' = load /\ \A s \in Sessions : RowWrites(call'[s])
             /\ \A t \in DOMAIN tables' : TableLike(t, tables'[t])
  BY <1>6, CreateIndexWrites, Zenon
<1>7. ASSUME NEW s \in Sessions, NEW job \in now.jobs, Call(s, job)
      PROVE  /\ load' = load /\ \A t \in Sessions : RowWrites(call'[t])
             /\ \A t \in DOMAIN tables' : TableLike(t, tables'[t])
  <2>1. Start(s, <<job>>) /\ load' = load /\ tables' = tables
    BY <1>7 DEF Call
  <2>2. job \in Loads[load].jobs
    BY Zenon DEF now, AllLoads
  <2> QED
    BY <1>1, <2>1, <2>2, StartWrites, Zenon
<1>8. ASSUME NEW s \in Sessions, Step(s) \/ StepFail(s)
      PROVE  /\ load' = load /\ \A t \in Sessions : RowWrites(call'[t])
             /\ \A t \in DOMAIN tables' : TableLike(t, tables'[t])
  <2>1. load' = load /\ tables' = tables
    BY <1>8 DEF Step, StepFail
  <2>2. PICK c : Moves(s, c)
    BY <1>8, StepMoves, StepFailMoves, Zenon
  <2>3. call' = [call EXCEPT ![s] = c] /\ c.end # "row"
    BY <2>2, Zenon DEF Moves
  <2>4. \A t \in Sessions : call'[t] = IF t = s THEN c ELSE call[t]
    BY <1>1, <2>3
  <2> QED
    BY <1>1, <2>1, <2>3, <2>4, RestWrites, Zenon
<1> QED
  <2>1. CASE OpenDB \/ OpenDBFails \/ UNCHANGED vars
    BY <1>3, <2>1 DEF OpenDB, OpenDBFails, vars
  <2>2. CASE Kill \/ \E s \in Sessions : Panic(s)
    BY <1>4, <2>2 DEF Kill, Panic
  <2> QED
    BY <1>5, <1>6, <1>7, <1>8, <2>1, <2>2, Zenon DEF Next

LEMMA WriteInvariant == Spec => [](RowInv /\ WriteInv)
<1>1. Init => WriteInv
  <2> SUFFICES ASSUME Init PROVE WriteInv
    OBVIOUS
  <2>1. call = [s \in Sessions |-> Idle] /\ tables = <<>> /\ load \in DOMAIN Loads
    BY DEF Init, AllLoads
  <2>2. DOMAIN tables = {} /\ \A s \in Sessions : call[s] = Idle
    BY <2>1
  <2> QED
    BY <2>1, <2>2, RestWrites, Zenon DEF WriteInv
<1> QED
  BY <1>1, RowInvariant, WriteInvNext, PTL DEF Spec

\* The rows as the abstract map has them.
rows == [id \in RowIds |-> RowValue(id)]

\* Set and Del change what Get finds of their own key, and of no other.
LEMMA OneKey ==
    ASSUME DOMAIN stores = Shards, NEW k
    PROVE  /\ \A v : Set(k, v) => Has(k)' /\ Value(k)' = v
           /\ Del(k) => ~Has(k)'
           /\ (\E v : Set(k, v)) \/ Del(k) =>
                \A x : x # k => (Has(x)' <=> Has(x)) /\ (Has(x) => Value(x)' = Value(x))
<1>0. PICK i : i = shardForKey(k)
  OBVIOUS
<1>1. \A x : /\ Has(x) <=> shardForKey(x) \in Shards /\ x \in DOMAIN stores[shardForKey(x)]
             /\ Has(x)' <=> shardForKey(x) \in Shards /\ x \in DOMAIN stores'[shardForKey(x)]
             /\ Value(x) = stores[shardForKey(x)][x]
             /\ Value(x)' = stores'[shardForKey(x)][x]
  BY Zenon DEF Has, Value, Reachable, shardForKey, Shards
<1>2. ASSUME NEW v, Set(k, v)
      PROVE  /\ Has(k)' /\ Value(k)' = v
             /\ \A x : x # k => (Has(x)' <=> Has(x)) /\ (Has(x) => Value(x)' = Value(x))
  <2>1. PICK f : f = With(stores[i], k, v) /\ stores' = [stores EXCEPT ![i] = f] /\ i \in Shards
    BY <1>0, <1>2, Zenon DEF Set, Reachable
  <2>2. /\ k \in DOMAIN f /\ f[k] = v
        /\ \A x : x # k => (x \in DOMAIN f <=> x \in DOMAIN stores[i]) /\ (x \in DOMAIN stores[i] => f[x] = stores[i][x])
    BY <2>1 DEF With
  <2>3. stores'[i] = f /\ \A j \in Shards \ {i} : stores'[j] = stores[j]
    BY <2>1
  <2> QED
    BY <1>0, <1>1, <2>1, <2>2, <2>3, Zenon
<1>3. ASSUME Del(k)
      PROVE  /\ ~Has(k)'
             /\ \A x : x # k => (Has(x)' <=> Has(x)) /\ (Has(x) => Value(x)' = Value(x))
  <2>1. PICK f : f = Without(stores[i], k) /\ stores' = [stores EXCEPT ![i] = f] /\ i \in Shards
    BY <1>0, <1>3, Zenon DEF Del, Reachable
  <2>2. /\ k \notin DOMAIN f
        /\ \A x : x # k => (x \in DOMAIN f <=> x \in DOMAIN stores[i]) /\ (x \in DOMAIN stores[i] => f[x] = stores[i][x])
    BY <2>1 DEF Without
  <2>3. stores'[i] = f /\ \A j \in Shards \ {i} : stores'[j] = stores[j]
    BY <2>1
  <2> QED
    BY <1>0, <1>1, <2>1, <2>2, <2>3, Zenon
<1> QED
  BY <1>2, <1>3, Zenon

\* The keys of two rows differ, and no key of an index entry is the key of a row.
LEMMA RowKeys ==
    /\ \A id \in RowIds : IdKey[id] = EncodeKey(id[1], id[2]) /\ Head(IdKey[id]) \notin IndexPrefixes
    /\ \A id, x \in RowIds : IdKey[id] = IdKey[x] => id = x
<1>1. ASSUME NEW id \in RowIds
      PROVE  /\ IdKey[id] = EncodeKey(id[1], id[2]) /\ Head(IdKey[id]) \notin IndexPrefixes
             /\ id = <<id[1], id[2]>> /\ id[2] \in Seq(Values)
  <2>1. IdKey[id] = EncodeKey(id[1], id[2])
    BY DEF IdKey, Ids
  <2>2. /\ id = <<id[1], id[2]>> /\ id[2] \in Seq(Values)
        /\ id[1] \notin IndexPrefixes
    BY RowsAssumption, Zenon DEF IndexPrefixes
  <2>3. Head(EncodeKey(id[1], id[2])) = id[1]
    BY KeyHead, Zenon
  <2> QED
    BY <2>1, <2>2, <2>3, Zenon
<1>2. ASSUME NEW id \in RowIds, NEW x \in RowIds, IdKey[id] = IdKey[x]
      PROVE  id = x
  <2>1. PICK p, v, q, w : p = id[1] /\ v = id[2] /\ q = x[1] /\ w = x[2]
    OBVIOUS
  <2>2. EncodeKey(p, v) = EncodeKey(q, w) /\ v \in Seq(Values) /\ w \in Seq(Values)
    BY <1>1, <1>2, <2>1, Zenon
  <2>3. p = q /\ v = w
    BY <2>2, KeysDiffer
  <2> QED
    BY <1>1, <2>1, <2>3, Zenon
<1> QED
  BY <1>1, <1>2, Zenon

\* What dbGet finds of a row, before a step and after it.
LEMMA RowFound ==
    ASSUME NEW id \in RowIds, NEW k, k = IdKey[id]
    PROVE  /\ rows[id] = IF Has(k) THEN Decoded[Value(k)] ELSE NoVal
           /\ rows'[id] = IF Has(k)' THEN Decoded[Value(k)'] ELSE NoVal
<1>1. rows[id] = RowValue(id) /\ rows'[id] = RowValue(id)'
  BY Zenon DEF rows
<1> QED
  BY <1>1, Zenon DEF RowValue, Has, Value, Reachable, shardForKey, Shards

\* A write of a key is a step of the map of rows, or changes no row.
LEMMA WriteIsStep ==
    ASSUME DOMAIN stores = Shards, NEW o, (o.kind = "set" /\ Set(o.key, o.val)) \/ Del(o.key),
           WriteOK(o) \/ Head(o.key) \in IndexPrefixes
    PROVE  [Rows!Next]_rows
<1>1. PICK k : k = o.key
  OBVIOUS
<1>2. (o.kind = "set" /\ Set(k, o.val)) \/ Del(k)
  BY <1>1, Zenon
<1>3. \A x : x # k => (Has(x)' <=> Has(x)) /\ (Has(x) => Value(x)' = Value(x))
  BY <1>2, OneKey, Zenon
<1>4. ASSUME NEW id \in RowIds, IdKey[id] # k PROVE rows'[id] = rows[id]
  <2>1. PICK x : x = IdKey[id]
    BY SMTT(20)
  <2>2. /\ rows[id] = IF Has(x) THEN Decoded[Value(x)] ELSE NoVal
        /\ rows'[id] = IF Has(x)' THEN Decoded[Value(x)'] ELSE NoVal
    BY <2>1, RowFound
  <2>3. (Has(x)' <=> Has(x)) /\ (Has(x) => Value(x)' = Value(x))
    BY <1>3, <1>4, <2>1, ZenonT(40)
  <2>4. CASE Has(x)
    BY <2>2, <2>3, <2>4, SMTT(20)
  <2>5. CASE ~Has(x)
    BY <2>2, <2>3, <2>5
  <2> QED
    BY <2>4, <2>5
<1>5. CASE \A id \in RowIds : IdKey[id] # k
  <2>1. rows' = rows
    BY <1>4, <1>5, Zenon DEF rows
  <2> QED
    BY <2>1
<1>6. ASSUME NEW id \in RowIds, IdKey[id] = k PROVE [Rows!Next]_rows
  <2>1. \A x \in RowIds \ {id} : rows'[x] = rows[x]
    BY <1>4, <1>6, RowKeys, Zenon
  <2>2. rows' = [rows EXCEPT ![id] = rows'[id]]
    BY <2>1, Zenon DEF rows
  <2>3. CASE Del(k)
    <3>1. rows'[id] = NoVal
      BY <1>6, <2>3, OneKey, RowFound, Zenon
    <3>2. CASE rows[id] = NoVal
      <4>1. rows' = rows
        BY <2>2, <3>1, <3>2, Zenon DEF rows
      <4> QED
        BY <4>1
    <3>3. CASE rows[id] # NoVal
      <4>1. Rows!Del(id)
        BY <2>2, <3>1, <3>3, Zenon DEF Rows!Del, rows, Ids
      <4> QED
        BY <4>1, Zenon DEF Rows!Next, Ids
    <3> QED
      BY <3>2, <3>3
  <2>4. CASE o.kind = "set" /\ Set(k, o.val)
    <3>1. Head(k) \notin IndexPrefixes /\ k = EncodeKey(id[1], id[2])
      BY <1>6, RowKeys, Zenon
    <3>2. PICK w \in RowVals : o.val = EncodeValues(w)
      BY <1>1, <2>4, <3>1, Zenon DEF WriteOK
    <3>3. w \in Seq(Values) /\ EncodeValues(w) \in Vals
      BY RowsAssumption, Zenon
    <3>4. Decoded[o.val] = w
      <4>1. DecodeValues(EncodeValues(w)) = w
        BY <3>3, DecodeEncode, Zenon
      <4> QED
        BY <3>2, <3>3, <4>1, Zenon DEF Decoded
    <3>5. rows'[id] = w
      <4>1. Has(k)' /\ Value(k)' = o.val
        BY <2>4, OneKey, Zenon
      <4>2. rows'[id] = IF Has(k)' THEN Decoded[Value(k)'] ELSE NoVal
        BY <1>6, RowFound
      <4> QED
        BY <3>4, <4>1, <4>2, Zenon
    <3>6. Rows!Set(id)
      BY <2>2, <3>5, Zenon DEF Rows!Set, rows, Ids, IdVals
    <3> QED
      BY <3>6, Zenon DEF Rows!Next, Ids
  <2> QED
    BY <1>2, <2>3, <2>4
<1> QED
  BY <1>5, <1>6, Zenon

\* A step that writes nothing changes no row.
LEMMA NoWriteNoStep ==
    ASSUME stores' = stores
    PROVE  rows' = rows
  BY Zenon DEF rows, RowValue, Has, Value, Reachable, shardForKey, Shards

\* Every step is a step of the map of rows, or changes no row.
LEMMA StepIsStep ==
    ASSUME RowInv, WriteInv, [Next]_vars
    PROVE  [Rows!Next]_rows
<1>1. CASE stores' = stores
  BY <1>1, NoWriteNoStep
<1>2. ASSUME NEW s \in Sessions, Step(s) \/ StepFail(s), stores' # stores PROVE [Rows!Next]_rows
  <2>1. /\ DOMAIN stores = Shards /\ CallOK(call[s]) /\ RowWrites(call[s])
    BY Zenon DEF RowInv, WriteInv
  <2>2. PICK o : /\ o = Head(call[s].ops) /\ call[s].ops # <<>>
                 /\ (o.kind = "set" /\ Set(o.key, o.val)) \/ Del(o.key)
    BY <1>2 DEF Step, StepFail
  <2>3. WriteOK(o) \/ Head(o.key) \in IndexPrefixes
    <3>1. CASE call[s].end # "row"
      BY <2>1, <2>2, <3>1, HeadOp, Zenon
    <3>2. CASE call[s].end = "row"
      <4>1. PICK p : call[s].ops = <<p>>
        BY <2>1, <3>2, Zenon DEF CallOK
      <4>2. p = o
        BY <2>2, <4>1
      <4> QED
        BY <2>1, <3>2, <4>1, <4>2, Zenon DEF RowWrites
    <3> QED
      BY <3>1, <3>2
  <2> QED
    BY <2>1, <2>2, <2>3, WriteIsStep, Zenon
<1>3. ASSUME stores' # stores PROVE \E s \in Sessions : Step(s) \/ StepFail(s)
  BY <1>3, Zenon DEF Next, vars, OpenDB, OpenDBFails, Open, OpenFails, Kill, Panic, Ends, Exit, CreateTable, CreateIndex, Call
<1> QED
  BY <1>1, <1>2, <1>3, Zenon

\* RowsAreMap for all constants: the rows of all tables are one map.  Whatever calls
\* interleave, fail or are cut off, a step changes one row at most, to values that
\* an Insert or an Update was given or to nothing.
THEOREM RelationalIsMap == Spec => RowsAreMap
<1>1. Init => Rows!Init
  <2> SUFFICES ASSUME Init PROVE Rows!Init
    OBVIOUS
  <2>1. \A i \in Shards : stores[i] = <<>>
    BY DEF Init, ShardInit
  <2>2. \A k : ~Has(k)
    BY <2>1 DEF Has, Reachable
  <2> QED
    BY <2>2, Zenon DEF Rows!Init, RowValue
<1> QED
  BY <1>1, WriteInvariant, StepIsStep, PTL DEF Spec, RowsAreMap, Rows!Spec, rows, Ids
=============================================================================
