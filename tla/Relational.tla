----------------------------- MODULE Relational -----------------------------
(***************************************************************************)
(* Tables, rows and secondary indexes of internal/relational over the      *)
(* files of module Shard.  A row is one key of the store and every index   *)
(* entry another; Insert, Update and Delete write them one after the       *)
(* other, with calls of other sessions in between, and the store may fail  *)
(* or the process end after each.  The definitions of tables and indexes   *)
(* live in memory only.                                                    *)
(*                                                                         *)
(* A call is planned in its first step (the checks, the encoding and the   *)
(* Get) and then carries out its writes one by one.                        *)
(***************************************************************************)
EXTENDS Encoding, Shard, FiniteSets

CONSTANTS
    Sessions,
    HashTable(_),     \* hashTableName of a table
    HashIndex(_, _),  \* hashTableName of table_index
    Schemas,          \* the tables that may be created
    NewIndexes,       \* the indexes that may be created: [table, index]
    RowIds, RowVals,  \* the rows of all tables: <<prefix, key values>>, other values
    Bounds,           \* the start and stop values of a Scan
    Loads             \* a sequence of what may happen: [sessions, jobs, calls, errors, exits], the sessions
                      \* at work, the calls they may make and the bounds on the number of
                      \* calls, of store errors and of ends of the process

\* CREATE TABLE gives a table no indexes.
ASSUME SchemasAssumption ==
    \A tdef \in Schemas :
        tdef = [name |-> tdef.name, cols |-> tdef.cols, pkeys |-> tdef.pkeys, indexes |-> <<>>]

\* No index has the prefix of a table.  hashTableName does not see to that: it is
\* a hash of 32 bits, and table_index may be the name of another table.
ASSUME PrefixAssumption ==
    \A tdef \in Schemas, n \in NewIndexes : HashTable(tdef.name) # HashIndex(n.table, n.index.name)

VARIABLES
    load,     \* the load of this behaviour, an index of Loads
    tables,   \* DB.tables: a function on the names of the tables there are
    call,     \* call[s]: what session s is doing
    dirty,    \* ghost: rows whose index entries need not match (see Settle)
    calls, errors, exits

vars == <<load, stores, open, tables, call, dirty, calls, errors, exits>>

AllLoads == Loads
now == AllLoads[load]

Prefix(tdef) == HashTable(tdef.name)

\* The first column of that name, or 0.
Column(tdef, name) ==
    LET at == {j \in DOMAIN tdef.cols : tdef.cols[j].name = name}
    IN IF at = {} THEN 0 ELSE Min(at)

(***************************************************************************)
(* Plans: the write of a row, then those of its index entries, and how the *)
(* call ends after them                                                    *)
(***************************************************************************)

Fails(end) == [ops |-> <<>>, end |-> end, vals |-> <<>>]
Writes(op, vals) == [ops |-> <<op>>, end |-> "row", vals |-> vals]
SetOp(key, val) == [kind |-> "set", key |-> key, val |-> val]
DelOp(key) == [kind |-> "del", key |-> key]

\* checkRecord: [verdict, vals].  The columns of the record are taken in order;
\* one that has no value is an index out of range, and so are key columns that
\* the table does not have.
checkRecord(tdef, rec, n) ==
    LET bad  == {i \in DOMAIN rec.cols : Column(tdef, rec.cols[i]) = 0 \/ i > Len(rec.vals)}
        from(j) == {i \in DOMAIN rec.cols : Column(tdef, rec.cols[i]) = j}
        vals == [j \in DOMAIN tdef.cols |->
                    IF from(j) = {} THEN ZeroValue(tdef.cols[j].type)
                    ELSE rec.vals[Max(from(j))]]
        is(verdict) == [verdict |-> verdict, vals |-> <<>>]
    IN IF bad # {} THEN is(IF Column(tdef, rec.cols[Min(bad)]) = 0 THEN "err" ELSE "panic")
       ELSE IF n # tdef.pkeys /\ ~Encodable(SubSeq(vals, 1, Min({tdef.pkeys, Len(vals)}))) THEN is("err")
       ELSE IF tdef.pkeys > Len(vals) THEN is("panic")
       ELSE [verdict |-> "ok", vals |-> IF n = tdef.pkeys THEN SubSeq(vals, 1, n) ELSE vals]

RowKey(tdef, vals) == EncodeKey(Prefix(tdef), SubSeq(vals, 1, tdef.pkeys))

\* A column that the table does not have is skipped.
indexKeyVals(tdef, idx, row) ==
    LET known == SelectSeq(idx.keys, LAMBDA name : Column(tdef, name) # 0)
    IN [i \in DOMAIN known |-> row[Column(tdef, known[i])]]

IndexKey(tdef, idx, row) ==
    EncodeKey(HashIndex(tdef.name, idx.name), indexKeyVals(tdef, idx, row))

updateIndex(tdef, idx, vals) ==
    SetOp(IndexKey(tdef, idx, vals), EncodeValues(SubSeq(vals, 1, tdef.pkeys)))

deleteIndex(tdef, idx, vals) == DelOp(IndexKey(tdef, idx, vals))

\* Mutants: Update leaves the indexes alone; so does Delete.
EntryOps_InsertOnly(tdef, kind, vals) ==
    [ops |-> IF kind # "insert" THEN <<>>
             ELSE [i \in DOMAIN tdef.indexes |-> updateIndex(tdef, tdef.indexes[i], vals)],
     end |-> "true"]

EntryOps_NoDelete(tdef, kind, vals) ==
    [ops |-> IF kind = "delete" THEN <<>>
             ELSE [i \in DOMAIN tdef.indexes |-> updateIndex(tdef, tdef.indexes[i], vals)],
     end |-> "true"]

\* The loops over the indexes, once the row is written or deleted.  Delete appends
\* the decoded values behind a slice of full length, so the columns that are not in
\* the key have no type there: the first index on one of them panics, with the row
\* gone and the entries before it.
EntryOps(tdef, kind, vals) ==
    LET row  == [j \in DOMAIN tdef.cols |-> IF j <= Len(vals) THEN vals[j] ELSE Untyped]
        bad  == {i \in DOMAIN tdef.indexes : ~Encodable(indexKeyVals(tdef, tdef.indexes[i], row))}
        good == IF bad = {} THEN Len(tdef.indexes) ELSE Min(bad) - 1
        entry(idx) == IF kind = "delete" THEN deleteIndex(tdef, idx, row) ELSE updateIndex(tdef, idx, row)
    IN [ops |-> [i \in 1 .. good |-> entry(tdef.indexes[i])],
        end |-> IF bad = {} THEN "true" ELSE "panic"]

RowOp(tdef, vals) ==
    SetOp(RowKey(tdef, vals), EncodeValues(SubSeq(vals, tdef.pkeys + 1, Len(vals))))

\* Mutant: an existing row is not looked for.
dbUpdate_Blind(tdef, rec, mode) ==
    LET chk == checkRecord(tdef, rec, Len(tdef.cols))
    IN IF chk.verdict # "ok" THEN Fails(chk.verdict) ELSE Writes(RowOp(tdef, chk.vals), chk.vals)

\* Insert (mode 0) and Update (mode 1, which also writes a row that is not there).
dbUpdate(tdef, rec, mode) ==
    LET chk == checkRecord(tdef, rec, Len(tdef.cols))
    IN IF chk.verdict # "ok" THEN Fails(chk.verdict)
       ELSE IF ~Encodable(chk.vals) THEN Fails("panic")
       ELSE IF mode = 0 /\ Has(RowKey(tdef, chk.vals)) THEN Fails("false")
       ELSE Writes(RowOp(tdef, chk.vals), chk.vals)

dbDelete(tdef, rec) ==
    LET chk == checkRecord(tdef, rec, tdef.pkeys)
    IN IF chk.verdict # "ok" THEN Fails(chk.verdict)
       ELSE IF ~Encodable(chk.vals) THEN Fails("panic")
       ELSE IF ~Has(RowKey(tdef, chk.vals)) THEN Fails("false")
       ELSE Writes(DelOp(RowKey(tdef, chk.vals)), chk.vals)

Plan(job) ==
    IF job.table \notin DOMAIN tables THEN Fails("err")
    ELSE CASE job.kind = "insert" -> dbUpdate(tables[job.table], job.rec, 0)
           [] job.kind = "update" -> dbUpdate(tables[job.table], job.rec, 1)
           [] OTHER -> dbDelete(tables[job.table], job.rec)

\* RowIds and RowVals hold what can be encoded, no row has the prefix of an index,
\* and the values that Insert and Update write to the rows of RowIds are in RowVals.
ASSUME RowsAssumption ==
    /\ \A id \in RowIds :
          /\ id = <<id[1], id[2]>> /\ id[2] \in Seq(Values)
          /\ \A n \in NewIndexes : id[1] # HashIndex(n.table, n.index.name)
    /\ \A w \in RowVals : w \in Seq(Values) /\ EncodeValues(w) \in Vals
    /\ \A tdef \in Schemas, i \in DOMAIN Loads : \A job \in Loads[i].jobs :
          LET chk  == checkRecord(tdef, job.rec, Len(tdef.cols))
              key  == SubSeq(chk.vals, 1, tdef.pkeys)
              rest == SubSeq(chk.vals, tdef.pkeys + 1, Len(chk.vals))
          IN job.table = tdef.name /\ job.kind # "delete" /\ chk.verdict = "ok" /\ Encodable(chk.vals) =>
                key \in Seq(Values) /\ (<<Prefix(tdef), key>> \in RowIds => rest \in RowVals)

(***************************************************************************)
(* Sessions.  jobs: the records a statement has still to write; ops, end:  *)
(* the rest of the current plan, where end is "row" until the row itself   *)
(* is written; row, vals: the row it is about and its values; alone: no    *)
(* other call has been at that row meanwhile.                              *)
(***************************************************************************)

Idle == [jobs |-> <<>>, ops |-> <<>>, end |-> "idle", kind |-> "none", table |-> NoVal, row |-> <<>>,
         vals |-> <<>>, alone |-> TRUE]

Busy == {s \in Sessions : call[s].row # <<>>}
BusyRows == {call[s].row : s \in Busy}

RowOf(plan) == IF plan.ops = <<>> THEN <<>> ELSE plan.ops[1].key

\* A call that has nothing left to do returns, unless it panics.
Rest(c) == IF c.ops = <<>> /\ c.jobs = <<>> /\ c.end # "panic" THEN Idle ELSE c

Start(s, jobs) ==
    LET plan == Plan(Head(jobs))
        row  == RowOf(plan)
    IN /\ call' = [t \in Sessions |->
                     IF t = s
                     THEN Rest([jobs |-> IF plan.end \in {"err", "panic"} THEN <<>> ELSE Tail(jobs),
                                ops |-> plan.ops, end |-> plan.end, kind |-> Head(jobs).kind,
                                table |-> Head(jobs).table, row |-> row, vals |-> plan.vals,
                                alone |-> row \notin BusyRows])
                     ELSE [call[t] EXCEPT !.alone = @ /\ (row = <<>> \/ call[t].row # row)]]
       /\ dirty' = IF row \in BusyRows THEN dirty \cup {row} ELSE dirty

Running == open # {}

\* Insert, Update, Delete of DB
Call(s, job) ==
    /\ Running /\ call[s] = Idle
    /\ calls < now.calls
    /\ calls' = calls + 1
    /\ Start(s, <<job>>)
    /\ UNCHANGED <<load, stores, open, tables, errors, exits>>

\* The call moves on to the writes of plan.  A row whose call has done all its
\* writes with no other call at that row is settled: its entries match again.
Settle(s, plan) ==
    LET done == plan.ops = <<>> /\ plan.end = "true"
    IN /\ call' = [call EXCEPT ![s] = Rest([call[s] EXCEPT !.ops = plan.ops, !.end = plan.end, !.vals = <<>>,
                                                           !.row = IF done THEN <<>> ELSE call[s].row])]
       /\ dirty' = IF done /\ call[s].alone THEN dirty \ {call[s].row} ELSE dirty

\* What is left to write after the first of c.ops: after the row, the entries of the indexes there
\* are by then.
AfterOp(c) ==
    IF c.end = "row" THEN EntryOps(tables[c.table], c.kind, c.vals) ELSE [ops |-> Tail(c.ops), end |-> c.end]

\* Mutant: a write that has been done is done again.
Step_Again(s) ==
    /\ Running /\ call[s].ops # <<>>
    /\ Head(call[s].ops).kind = "set"
    /\ Set(Head(call[s].ops).key, Head(call[s].ops).val)
    /\ UNCHANGED <<load, call, dirty, tables, calls, errors, exits>>

\* The next write of the call.  A row that another call has deleted in between
\* ends a Delete; an entry that is not there does not.
Step(s) ==
    /\ Running /\ call[s].ops # <<>>
    /\ \E op \in {Head(call[s].ops)} : \E rest \in {AfterOp(call[s])} :
          \/ op.kind = "set" /\ Set(op.key, op.val) /\ Settle(s, rest)
          \/ op.kind = "del" /\ Del(op.key) /\ Settle(s, rest)
          \/ /\ op.kind = "del" /\ ~Has(op.key) /\ call[s].end # "row"
             /\ Settle(s, rest)
             /\ UNCHANGED <<stores, open>>
          \/ /\ op.kind = "del" /\ ~Has(op.key) /\ call[s].end = "row"
             /\ call' = [call EXCEPT ![s] = Rest([call[s] EXCEPT !.ops = <<>>, !.end = "false", !.vals = <<>>, !.row = <<>>])]
             /\ UNCHANGED <<stores, open, dirty>>
    /\ UNCHANGED <<load, tables, calls, errors, exits>>

\* The store returns an error, having written or not; so does the call.
StepFail(s) ==
    /\ Running /\ call[s].ops # <<>>
    /\ errors < now.errors
    /\ errors' = errors + 1
    /\ LET op == Head(call[s].ops)
       IN \/ UNCHANGED <<stores, open>>
          \/ op.kind = "set" /\ Set(op.key, op.val)
          \/ op.kind # "set" /\ Del(op.key)
    /\ call' = [call EXCEPT ![s] = Idle]
    /\ dirty' = dirty \cup {call[s].row}
    /\ UNCHANGED <<load, tables, calls, exits>>

\* A statement that writes several records goes on to the next.
NextJob(s) ==
    /\ Running /\ call[s].ops = <<>> /\ call[s].jobs # <<>> /\ call[s].end # "panic"
    /\ Start(s, call[s].jobs)
    /\ UNCHANGED <<load, stores, open, tables, calls, errors, exits>>

\* The process ends: unfinished calls are cut off, the definitions are lost.
Ends ==
    /\ Exit
    /\ tables' = <<>>
    /\ call' = [s \in Sessions |-> Idle]
    /\ dirty' = dirty \cup BusyRows
    /\ exits' = exits + 1
    /\ UNCHANGED <<load, calls, errors>>

\* No handler recovers from a panic: it is the end of the process.
Panic(s) ==
    /\ Running /\ call[s].ops = <<>> /\ call[s].end = "panic"
    /\ Ends

Kill == Running /\ exits < now.exits /\ Ends

\* OpenDB on the opened files: no table is defined.
OpenDB ==
    /\ Open
    /\ UNCHANGED <<load, tables, call, dirty, calls, errors, exits>>

OpenDBFails ==
    /\ OpenFails
    /\ UNCHANGED vars

CreateTable(tdef) ==
    /\ Running
    /\ tdef.name \notin DOMAIN tables
    /\ tdef.pkeys >= 1
    /\ tables' = With(tables, tdef.name, tdef)
    /\ UNCHANGED <<load, stores, open, call, dirty, calls, errors, exits>>

Stored == UNION {DOMAIN stores[i] : i \in Shards}
WithPrefix(prefix) == {k \in Stored : Head(k) = prefix}

\* CREATE INDEX appends to TableDef.Indexes and writes no entries: the rows that
\* are there, or being written, do not get one, and entries that an index of this
\* name has left behind stay.
CreateIndex(table, idx) ==
    /\ Running
    /\ table \in DOMAIN tables
    /\ tables' = [tables EXCEPT ![table].indexes = Append(@, idx)]
    /\ dirty' = dirty \cup BusyRows \cup WithPrefix(HashTable(table))
                  \cup {EncodeKey(HashTable(table), DecodeValues(Get(k))) :
                           k \in WithPrefix(HashIndex(table, idx.name))}
    /\ call' = [s \in Sessions |-> [call[s] EXCEPT !.alone = (call[s] = Idle)]]
    /\ UNCHANGED <<load, stores, open, calls, errors, exits>>

(***************************************************************************)
(* Scan                                                                    *)
(***************************************************************************)

\* The elements of a set in ascending order.
Sorted(S, less(_, _)) ==
    [i \in 1 .. Cardinality(S) |-> CHOOSE x \in S : Cardinality({y \in S : less(y, x)}) = i - 1]

\* The keys of a file from where SeekLE lands (the last key not above the one
\* sought, else the first) to the end.
Seek(store, key) ==
    LET atOrBelow == {k \in DOMAIN store : ~KeyLess(key, k)}
    IN Sorted({k \in DOMAIN store : \A b \in atOrBelow : ~KeyLess(k, b)}, KeyLess)

\* The keys a Scanner passes while it is Valid, in order: it stops at the first
\* key above stop or of another table.
UpTo(iter, prefix, stop) ==
    LET past == {i \in DOMAIN iter : \/ stop # <<>> /\ KeyLess(stop, iter[i])
                                     \/ Head(iter[i]) # prefix}
    IN IF past = {} THEN iter ELSE SubSeq(iter, 1, Min(past) - 1)

\* Seek asks one file only, the one where the start key itself would be.
From(key) == Seek(stores[shardForKey(key)], key)

Scan(tdef, start, stop, cmp1, cmp2) ==
    UpTo(From(EncodeKeyPartial(Prefix(tdef), start, IF start = <<>> THEN 0 ELSE cmp1)), Prefix(tdef),
         IF stop = <<>> THEN <<>> ELSE EncodeKeyPartial(Prefix(tdef), stop, cmp2))

\* Scanner.Record: all column names, but only the values that are not in the key.
ScanRecord(tdef, key) ==
    [cols |-> [j \in DOMAIN tdef.cols |-> tdef.cols[j].name], vals |-> DecodeValues(Get(key))]

Init ==
    /\ load \in DOMAIN AllLoads
    /\ ShardInit
    /\ tables = <<>>
    /\ call = [s \in Sessions |-> Idle]
    /\ dirty = {}
    /\ calls = 0 /\ errors = 0 /\ exits = 0

Next ==
    \/ OpenDB \/ OpenDBFails \/ Kill
    \/ \E tdef \in Schemas : CreateTable(tdef)
    \/ \E n \in NewIndexes :
          /\ \A t \in DOMAIN tables : \A i \in DOMAIN tables[t].indexes : tables[t].indexes[i] # n.index   \* bound
          /\ CreateIndex(n.table, n.index)
    \/ \E s \in Sessions :
          \/ s \in now.sessions /\ \E job \in now.jobs : Call(s, job)
          \/ Step(s) \/ StepFail(s) \/ Panic(s)

Spec == Init /\ [][Next]_vars

(***************************************************************************)
(* Properties                                                              *)
(***************************************************************************)

Ids == RowIds
IdVals == RowVals
IdKey == [id \in Ids |-> EncodeKey(id[1], id[2])]

Decoded == [val \in Vals |-> DecodeValues(val)]

\* dbGet of a row.
RowValue(id) == IF Has(IdKey[id]) THEN Decoded[Value(IdKey[id])] ELSE NoVal

Rows == INSTANCE KVMap WITH Keys <- Ids, Vals <- IdVals, map <- [id \in Ids |-> RowValue(id)]

\* The rows of all tables are one map from primary keys to values: whatever calls
\* interleave, fail or are cut off, a step changes one row at most, to values that
\* a call was given or to nothing.  No two keys have the same encoding, no index
\* entry is taken for a row, and values are read back as they were written.
RowsAreMap == Rows!Spec

\* Settled rows: no call is at the row, and none has failed there, been cut off or
\* run into another one, since the indexes of its table were created.
Settled(key) == key \notin dirty \cup BusyRows

AllValues(key) == DecodeValues(Tail(key)) \o DecodeValues(Get(key))

\* The index has the columns of the primary key and no others.
KeyIndex(tdef, idx) ==
    {Column(tdef, idx.keys[i]) : i \in DOMAIN idx.keys} = 1 .. tdef.pkeys

\* A settled row has its entry in every index of its table, under the values it has
\* now; in an index on the primary key the entry names the row itself.
IndexCovers ==
    \A t \in DOMAIN tables : \A i \in DOMAIN tables[t].indexes :
        LET tdef == tables[t]
            idx  == tdef.indexes[i]
            entry(key) == IndexKey(tdef, idx, AllValues(key))
        IN \A key \in WithPrefix(Prefix(tdef)) :
              Settled(key) =>
                 /\ Has(entry(key))
                 /\ KeyIndex(tdef, idx) => EncodeKey(Prefix(tdef), DecodeValues(Get(entry(key)))) = key

\* An entry of an index on the primary key names a row that is there, once the row
\* is settled.
NoGhostEntry ==
    \A t \in DOMAIN tables : \A i \in DOMAIN tables[t].indexes :
        KeyIndex(tables[t], tables[t].indexes[i]) =>
           \A e \in WithPrefix(HashIndex(t, tables[t].indexes[i].name)) :
              LET key == EncodeKey(HashTable(t), DecodeValues(Get(e)))
              IN Settled(key) => Has(key)

\* Insert writes no row over another one, as long as no other call is at that row
\* between its Get and its Set.
InsertKeepsRow ==
    [][\A s \in Sessions :
          (call[s].kind = "insert" /\ call[s].alone /\ call[s].end = "row" /\ call'[s] # call[s])
            => ~Has(call[s].row) \/ stores' = stores]_vars

\* The same without the exception.
InsertNeverOverwrites ==
    [][\A s \in Sessions :
          (call[s].kind = "insert" /\ call[s].end = "row" /\ call'[s] # call[s])
            => ~Has(call[s].row) \/ stores' = stores]_vars

\* What a Scan is: of the rows in the file that the start key is routed to, in
\* the order of their primary keys, those not above stop from the last one not
\* above start.  When no row is, it starts at the first row if nothing in the file
\* comes before this table, and finds nothing otherwise.
ScanOrder ==
    \A t \in DOMAIN tables : \A b \in Bounds :
        LET tdef == tables[t]
            file == shardForKey(EncodeKey(Prefix(tdef), b.start))
            ids  == {id \in Ids : id[1] = Prefix(tdef) /\ IdKey[id] \in DOMAIN stores[file]}
            low  == {id \in ids : b.start # <<>> /\ ~TupleLess(b.start, id[2])}
            from == {id \in ids : /\ \A l \in low : ~TupleLess(id[2], l[2])
                                  /\ (b.stop = <<>> \/ ~TupleLess(b.stop, id[2]))}
            first == \A k \in DOMAIN stores[file] : Head(k) >= Prefix(tdef)
        IN Running =>
           Scan(tdef, b.start, b.stop, 0, 0) =
             IF low = {} /\ ~first THEN <<>>
             ELSE LET sorted == Sorted(from, LAMBDA x, y : TupleLess(x[2], y[2]))
                  IN [i \in DOMAIN sorted |-> IdKey[sorted[i]]]

\* A scan without bounds finds every row of the table.
ScanFindsAll ==
    \A t \in DOMAIN tables :
        Len(Scan(tables[t], <<>>, <<>>, 0, 0)) = Cardinality(WithPrefix(HashTable(t)))
=============================================================================
