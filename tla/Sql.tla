-------------------------------- MODULE Sql --------------------------------
(***************************************************************************)
(* The executor of internal/sql/executor.go: statements given as text are  *)
(* parsed and carried out on the tables of module Relational.  A SELECT is *)
(* one step here; INSERT, UPDATE and DELETE are the jobs of that module,   *)
(* one record after the other.                                             *)
(***************************************************************************)
EXTENDS Relational, Parser, SequencesExt

CONSTANTS
    Spelling(_),   \* the bytes of a name
    Written        \* the statements the parser is asked to read

ASSUME MaxIntAssumption == MaxInt = Half - 1

VARIABLE truth   \* ghost: what the statements so far have inserted (see Truth), or NoVal
                 \* when one has been cut off, has run into another or was no INSERT

sqlVars == <<vars, truth>>

\* int64 arithmetic wraps around.
Wrap(n) == ((n + Half) % All) - Half

evalNode(n) ==
    CASE n.type = "int" -> I64(n.i64)
      [] n.type = "str" -> Bytes(n.str)
      [] n.type = "ident" -> Bytes(Spelling(n.str))
      [] OTHER -> Untyped
evalNodes(nodes) == [i \in DOMAIN nodes |-> evalNode(nodes[i])]

\* The operands of a node; a number, a string or a name has none.
Kids(n) == IF n.type \in {"none", "int", "str", "ident"} THEN <<>> ELSE n.kids

sqlTypeToColType(t) ==
    CASE t = "int" -> TypeInt64
      [] t = "bool" -> TypeBool
      [] t = "float" -> TypeFloat64
      [] OTHER -> TypeBytes

\* The names of PRIMARY KEY are counted: the key is that many of the first columns.
TableOf(stmt) ==
    [name |-> stmt.table, pkeys |-> Len(stmt.pkeys), indexes |-> <<>>,
     cols |-> [i \in DOMAIN stmt.cols |->
                 [name |-> stmt.cols[i].name, type |-> sqlTypeToColType(stmt.cols[i].type)]]]

(***************************************************************************)
(* SELECT                                                                  *)
(***************************************************************************)

\* The values of a column, as all aggregates look for them: the
\* name is sought in Cols, the value taken at the same place in Vals.
Cells(col, rows) ==
    LET cell(r, i) == IF r.cols[i] = col /\ i <= Len(r.vals) THEN <<r.vals[i]>> ELSE <<>>
    IN FlattenSeq([k \in DOMAIN rows |->
                     FlattenSeq([i \in DOMAIN rows[k].cols |-> cell(rows[k], i)])])

\* aggregateSum
Sum(cells) == FoldLeft(LAMBDA sum, v : IF v.type = TypeInt64 THEN Wrap(sum + v.i64) ELSE sum, 0, cells)

\* valCompare(a, b) < 0
valLess(a, b) ==
    IF a.type # b.type THEN a.type < b.type
    ELSE CASE a.type = TypeInt64 -> a.i64 < b.i64
           [] a.type = TypeBytes -> KeyLess(a.str, b.str)
           [] OTHER -> FALSE

\* Mutant: the first value is kept.
Best_First(cells, dir) == IF cells = <<>> THEN Untyped ELSE Head(cells)

\* aggregateMinMax
Best(cells, dir) ==
    LET better(best, v) == IF (dir < 0 /\ valLess(v, best)) \/ (dir > 0 /\ valLess(best, v))
                           THEN v ELSE best
    IN IF cells = <<>> THEN Untyped ELSE FoldLeft(better, Head(cells), Tail(cells))

\* Division towards zero.
Quotient(n, d) == IF n >= 0 THEN n \div d ELSE -((-n) \div d)

Aggregates == {<<"count">>, <<"sum">>, <<"avg">>, <<"min">>, <<"max">>}

aggregate(name, cells, count) ==
    CASE name = <<"count">> -> I64(count)
      [] name = <<"sum">> -> I64(Sum(cells))
      [] name = <<"avg">> -> I64(IF count = 0 THEN 0 ELSE Quotient(Sum(cells), count))
      [] OTHER -> Best(cells, IF name = <<"min">> THEN -1 ELSE 1)

isAggregate(outs) == \E i \in DOMAIN outs : outs[i].type = "func" /\ outs[i].str \in Aggregates

\* One record: the columns are named after the functions and their arguments.
computeAggregates(outs, rows) ==
    LET fs == SelectSeq(outs, LAMBDA o : o.type = "func" /\ o.str \in Aggregates)
        col(f) == IF f.kids[1].type = "ident" THEN f.kids[1].str ELSE <<>>
    IN <<[cols |-> fs, vals |-> [i \in DOMAIN fs |->
                                   aggregate(fs[i].str, Cells(col(fs[i]), rows), Len(rows))]]>>

\* Mutant: one row too many.
window_OneMore(rows, offset, limit) ==
    SubSeq(rows, Max({offset, 0}) + 1, Min({Wrap(offset + limit) + 1, Len(rows)}))

\* The loop over the scanner: the sum of offset and limit may wrap around.
window(rows, offset, limit) ==
    SubSeq(rows, Max({offset, 0}) + 1, Min({Wrap(offset + limit), Len(rows)}))

\* [end, rows].  The filter is not looked at.
Selected(tdef, scan, start, stop) ==
    Then(window(Scan(tdef, start, stop, 0, 0), scan.offset, scan.limit), LAMBDA keys :
       [i \in DOMAIN keys |-> ScanRecord(tdef, keys[i])])
SelectFor(table, scan, start, stop) ==
    IF ~Encodable(start) \/ ~Encodable(stop) THEN [end |-> "panic", rows |-> <<>>]
    ELSE [end |-> "true", rows |-> Selected(tables[table], scan, start, stop)]
execSelect(outs, table, scan) ==
    IF table \notin DOMAIN tables THEN [end |-> "err", rows |-> <<>>]
    ELSE Then(SelectFor(table, scan, evalNodes(Kids(scan.key1)), evalNodes(Kids(scan.key2))), LAMBDA sel :
            IF sel.end = "true" /\ isAggregate(outs)
            THEN [sel EXCEPT !.rows = computeAggregates(outs, @)] ELSE sel)

(***************************************************************************)
(* Statements                                                              *)
(***************************************************************************)

execCreateTable(ast) ==
    /\ Running
    /\ LET tdef == TableOf(ast)
       IN \/ CreateTable(tdef)
          \/ (tdef.name \in DOMAIN tables \/ tdef.pkeys < 1) /\ UNCHANGED vars
    /\ UNCHANGED truth

execCreateIndex(ast) ==
    /\ Running
    /\ LET idx == [name |-> ast.name, keys |-> ast.keys]
       IN \/ /\ ast.table \in DOMAIN tables
             /\ ~Contains(tables[ast.table].indexes, idx)   \* bound
             /\ CreateIndex(ast.table, idx)
          \/ ast.table \notin DOMAIN tables /\ UNCHANGED vars
    /\ UNCHANGED truth

\* What an INSERT says: every column has the value given for its name, or the zero
\* of its type; a row that is there already stays.
Truth(tdef, ast) ==
    LET at(j)  == {i \in DOMAIN ast.names : ast.names[i] = tdef.cols[j].name}
        row    == [j \in DOMAIN tdef.cols |-> IF at(j) = {} THEN ZeroValue(tdef.cols[j].type)
                                              ELSE evalNode(ast.values[Max(at(j))])]
        id     == <<tdef.name, SubSeq(row, 1, tdef.pkeys)>>
        says   == /\ Len(ast.names) <= Len(ast.values) /\ tdef.pkeys <= Len(tdef.cols)
                  /\ \A i \in DOMAIN ast.names : Column(tdef, ast.names[i]) # 0
    IN IF truth = NoVal \/ ~says THEN truth
       ELSE IF ~Encodable(row) \/ id \in DOMAIN truth THEN truth
       ELSE With(truth, id, SubSeq(row, tdef.pkeys + 1, Len(row)))

\* Whether there was such a row already is not reported.
execInsert(s, ast) ==
    \/ /\ ast.table \in DOMAIN tables
       /\ Call(s, [kind |-> "insert", table |-> ast.table,
                   rec |-> [cols |-> ast.names, vals |-> evalNodes(ast.values)]])
       /\ truth' = IF call'[s].row \in BusyRows THEN NoVal ELSE Truth(tables[ast.table], ast)
    \/ ast.table \notin DOMAIN tables /\ UNCHANGED sqlVars

Crash(s) ==
    /\ calls < now.calls
    /\ calls' = calls + 1
    /\ call' = [call EXCEPT ![s] = [Idle EXCEPT !.end = "panic"]]
    /\ UNCHANGED <<load, stores, open, tables, dirty, errors, exits, truth>>

Select(s, ast) ==
    IF execSelect(ast.outs, ast.table, ast.scan).end = "panic" THEN Crash(s)
    ELSE UNCHANGED sqlVars

\* The record of a row with the new values in it.  A column whose place is behind
\* the last value panics; so does checkRecord, later in the same step.
Updated(ast, rec) ==
    LET at(j) == {i \in DOMAIN ast.names : j <= Len(rec.cols) /\ ast.names[i] = rec.cols[j]}
    IN [rec EXCEPT !.vals = [j \in DOMAIN rec.vals |->
           IF at(j) = {} THEN rec.vals[j] ELSE evalNode(ast.values[Max(at(j))])]]

\* UPDATE and DELETE write the records that the SELECT of their scan has found.
Rewrite(s, ast, rows) ==
    /\ calls < now.calls
    /\ calls' = calls + 1
    /\ Start(s, [i \in DOMAIN rows |->
                   [kind |-> ast.stmt, table |-> ast.table,
                    rec |-> IF ast.stmt = "update" THEN Updated(ast, rows[i]) ELSE rows[i]]])
    /\ truth' = NoVal
    /\ UNCHANGED <<load, stores, open, tables, errors, exits>>

\* execUpdate and execDelete
execRewrite(s, ast) ==
    \E sel \in {execSelect(<<Ident(<<"*">>)>>, ast.table, ast.scan)} :
       \/ sel.end = "panic" /\ Crash(s)
       \/ sel.rows # <<>> /\ Rewrite(s, ast, sel.rows)
       \/ sel.end # "panic" /\ sel.rows = <<>> /\ UNCHANGED sqlVars

Execute(s, ast) ==
    \/ ast.stmt = "create table" /\ execCreateTable(ast)
    \/ ast.stmt = "create index" /\ execCreateIndex(ast)
    \/ ast.stmt = "insert" /\ execInsert(s, ast)
    \/ ast.stmt = "select" /\ Select(s, ast)
    \/ ast.stmt \in {"update", "delete"} /\ execRewrite(s, ast)
    \/ ast.stmt \in {"string", "error"} /\ UNCHANGED sqlVars

Texts == UNION {Loads[l].jobs : l \in DOMAIN Loads}
Parsed == [text \in Texts |-> Parse(text)]

ExecuteRaw(s, text) ==
    /\ Running /\ call[s] = Idle
    /\ Execute(s, Parsed[text])

SqlInit == Init /\ truth = <<>>

Cut == IF Busy = {} THEN truth ELSE NoVal

Work(s) ==
    \/ (Step(s) \/ NextJob(s)) /\ UNCHANGED truth
    \/ Panic(s) /\ truth' = Cut

SqlNext ==
    \/ (OpenDB \/ OpenDBFails) /\ UNCHANGED truth
    \/ Kill /\ truth' = Cut
    \/ \E s \in Sessions :
          \/ Work(s)
          \/ StepFail(s) /\ truth' = NoVal
          \/ s \in now.sessions /\ \E text \in now.jobs : ExecuteRaw(s, text)

\* A session that has begun a statement carries on.
SqlSpec == SqlInit /\ [][SqlNext]_sqlVars /\ \A s \in Sessions : WF_sqlVars(Work(s))

(***************************************************************************)
(* Properties.  Show writes a statement down, with parentheses only where  *)
(* the precedence of SQL asks for them.                                    *)
(***************************************************************************)

Level(e) ==
    CASE e.type = "or" -> 1
      [] e.type = "and" -> 2
      [] e.type \in {"=", "!=", "<", "<=", ">", ">=", "like"} -> 3
      [] e.type \in {"+", "-"} -> 4
      [] e.type \in {"*", "/", "%"} -> 5
      [] OTHER -> 6

W(word) == <<Word(<<word>>)>>
S(sym)  == <<Sym(sym)>>
ShowNum(n) == IF n < 0 THEN <<TightMinus, Num(-n)>> ELSE <<Num(n)>>

\* Token sequences with commas between them, in parentheses.
Listed(seqs) ==
    S("(") \o FlattenSeq([i \in DOMAIN seqs |-> IF i = 1 THEN seqs[i] ELSE S(",") \o seqs[i]]) \o S(")")
Names(list) == [i \in DOMAIN list |-> <<Word(list[i])>>]

RECURSIVE Show(_, _)
Show(e, level) ==
    LET l == Level(e)
        op == IF e.type \in {"or", "and", "like"} THEN W(e.type) ELSE S(e.type)
    IN CASE l < level -> S("(") \o Show(e, 1) \o S(")")
         [] l >= level /\ l < 6 ->
               Show(e.kids[1], IF l = 3 THEN 4 ELSE l) \o op \o Show(e.kids[2], l + 1)
         [] e.type = "not" -> W("not") \o Show(e.kids[1], 6)
         [] e.type = "int" -> ShowNum(e.i64)
         [] e.type = "str" -> <<Quoted(e.str)>>
         [] e.type = "ident" -> <<Word(e.str)>>
         [] e.type = "func" -> <<Word(e.str)>> \o Listed([i \in DOMAIN e.kids |-> Show(e.kids[i], 1)])

ShowScan(sc) ==
    (IF sc.key1 = None THEN <<>> ELSE W("index") \o W("by") \o Show(sc.key1, 3))
      \o (IF sc.key2 = None THEN <<>> ELSE W("and") \o Show(sc.key2, 3))
      \o (IF sc.filter = None THEN <<>> ELSE W("filter") \o Show(sc.filter, 1))
      \o (IF sc.limit = MaxInt THEN <<>> ELSE W("limit") \o ShowNum(sc.limit) \o W("offset") \o ShowNum(sc.offset))

ShowStmt(ast) ==
    LET col(c) == <<Word(c.name)>> \o W(c.type)
        set(i) == <<Word(ast.names[i])>> \o S("=") \o Show(ast.values[i], 1)
        table  == <<Word(ast.table)>>
        bare(seqs) == SubSeq(Listed(seqs), 2, Len(Listed(seqs)) - 1)
    IN CASE ast.stmt = "create table" ->
               W("create") \o W("table") \o table
                 \o Listed([i \in DOMAIN ast.cols |-> col(ast.cols[i])]
                             \o <<W("primary") \o W("key") \o Listed(Names(ast.pkeys))>>)
         [] ast.stmt = "create index" ->
               W("create") \o W("index") \o (IF ast.unique THEN W("unique") ELSE <<>>) \o <<Word(ast.name)>>
                 \o W("on") \o table \o Listed(Names(ast.keys))
         [] ast.stmt = "insert" ->
               W("insert") \o W("into") \o table
                 \o (IF ast.names = <<>> THEN <<>> ELSE Listed(Names(ast.names)))
                 \o W("values") \o Listed([i \in DOMAIN ast.values |-> Show(ast.values[i], 1)])
         [] ast.stmt = "select" ->
               W("select") \o bare([i \in DOMAIN ast.outs |->
                                      IF ast.outs[i].str = <<"*">> THEN S("*") ELSE Show(ast.outs[i], 1)])
                 \o W("from") \o table \o ShowScan(ast.scan)
         [] ast.stmt = "update" ->
               W("update") \o table \o W("set") \o bare([i \in DOMAIN ast.names |-> set(i)])
                 \o W("where") \o ShowScan(ast.scan)
         [] ast.stmt = "delete" ->
               W("delete") \o W("from") \o table
                 \o (IF ast.scan = NoScan THEN <<>> ELSE W("where") \o ShowScan(ast.scan))

\* The parser reads a statement as it was written: operators bind by precedence and
\* to the left, and no part of one clause is taken for another.
Misread == {ast \in Written : Parse(ShowStmt(ast)) # ast}
ParsesAsWritten == Running => Misread = {}

\* The rows inserted into a table, and at most n elements of a sequence.
RowsInserted(tdef) ==
    LET ids == Sorted({id \in DOMAIN truth : id[1] = tdef.name}, LAMBDA x, y : TupleLess(x[2], y[2]))
    IN [i \in DOMAIN ids |-> [cols |-> [j \in DOMAIN tdef.cols |-> tdef.cols[j].name],
                              vals |-> truth[ids[i]]]]
Part(seq, from, n) == SubSeq(seq, from, Min({Len(seq), from + n - 1}))

InFull == [NoScan EXCEPT !.limit = MaxInt]

\* SELECT without INDEX BY finds the rows the INSERTs so far have named, with their
\* values, in the order of the primary key, from OFFSET on and at most LIMIT many:
\* also after restarts, in all sessions, and whatever else is in the file behind the
\* table.  (Rows whose statement was cut off or ran into another are excepted, and
\* so is a window whose end is out of range.)
SelectsInserted ==
    (Running /\ Busy = {} /\ truth # NoVal) =>
    \A text \in Texts : \A ast \in {Parsed[text]} :
        (/\ ast.stmt = "select" /\ ast.table \in DOMAIN tables
         /\ ast.scan.key1 = None /\ ast.scan.key2 = None
         /\ ast.scan.offset >= 0 /\ ast.scan.offset + ast.scan.limit <= MaxInt
         /\ \A k \in Stored : Head(k) >= HashTable(ast.table))
           => execSelect(ast.outs, ast.table, ast.scan).rows =
                Part(RowsInserted(tables[ast.table]), ast.scan.offset + 1, ast.scan.limit)

\* COUNT is the number of rows, and no value at the place of the column is below
\* MIN or above MAX, which are among these values.
AggregatesSound ==
    Running => \A t \in DOMAIN tables : \A j \in DOMAIN tables[t].cols :
        LET of(f) == Func(<<f>>, <<Ident(tables[t].cols[j].name)>>)
        IN \A rows \in {execSelect(<<>>, t, InFull).rows} :
           \A vals \in {execSelect(<<of("count"), of("min"), of("max")>>, t, InFull).rows[1].vals} :
           \A cells \in {{rows[i].vals[j] : i \in {n \in DOMAIN rows : j <= Len(rows[n].vals)}}} :
              /\ vals[1] = I64(Len(rows))
              /\ cells # {} => vals[2] \in cells /\ vals[3] \in cells
              /\ \A c \in cells : ~ValueLess(c, vals[2]) /\ ~ValueLess(vals[3], c)

\* SUM is the sum of the values the INSERTs have given the column.
SumAdds ==
    (Running /\ Busy = {} /\ truth # NoVal) =>
    \A t \in DOMAIN tables : \A j \in DOMAIN tables[t].cols :
        LET ids  == {id \in DOMAIN truth : id[1] = t}
            cell(id) == (id[2] \o truth[id])[j]
            outs == <<Func(<<"sum">>, <<Ident(tables[t].cols[j].name)>>)>>
            ints == {id \in ids : cell(id).type = TypeInt64}
        IN execSelect(outs, t, InFull).rows[1].vals[1]
             = I64(FoldSet(LAMBDA id, n : n + cell(id).i64, 0, ints))

\* Every statement that has begun ends, with an answer or with the process.
QueryReturns == \A s \in Sessions : (call[s] # Idle) ~> (call[s] = Idle)

\* No statement panics.
StatementsReturn == \A s \in Sessions : call[s].end # "panic"
=============================================================================
