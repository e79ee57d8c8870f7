---------------------------- MODULE MCRelational ----------------------------
(* Two tables of one integer or one text key and one other column, an index   *)
(* on the key and one on the other column.                                    *)
EXTENDS Relational

CONSTANTS s1, s2

TwoSessions == {s1, s2}

\* "users" sorts before "notes", with the indexes of users in between.
TableHash(table) ==
    CASE table = "users" -> 2 [] table = "notes" -> 5 [] table = "logs" -> 6 [] table = "pairs" -> 7
IndexHash(table, index) ==
    CASE index = "byid" -> 3 [] index = "byage" -> 4 [] index = "byb" -> 8

Col(name, type) == [name |-> name, type |-> type]
Table(name, cols, pkeys) == [name |-> name, cols |-> cols, pkeys |-> pkeys, indexes |-> <<>>]

Users == Table("users", <<Col("id", TypeInt64), Col("age", TypeInt64)>>, 1)
Notes == Table("notes", <<Col("tag", TypeBytes), Col("text", TypeBytes)>>, 1)

ById == [table |-> "users", index |-> [name |-> "byid", keys |-> <<"id">>]]
ByAge == [table |-> "users", index |-> [name |-> "byage", keys |-> <<"age">>]]

Job(kind, table, columns, values) ==
    [kind |-> kind, table |-> table, rec |-> [cols |-> columns, vals |-> values]]

IntIds == {-1, 1}
Ages == {0, 256}
Tags == {<<>>, <<0>>, <<1>>, <<1, 1>>}

UserJobs(kinds, ids, ages) ==
    {Job(kind, "users", <<"id", "age">>, <<I64(id), I64(age)>>) : kind \in kinds, id \in ids, age \in ages}
Deletes(ids) == {Job("delete", "users", <<"id">>, <<I64(id)>>) : id \in ids}
Notes1(tags) == {Job("insert", "notes", <<"tag">>, <<Bytes(tag)>>) : tag \in tags}

MakeLoad(sessions, jobs, n, failures, ends) ==
    [sessions |-> sessions, jobs |-> jobs, calls |-> n, errors |-> failures, exits |-> ends]

\* Two sessions at the same rows; one session that writes a row again and again;
\* many rows in both tables.
Races  == MakeLoad({s1, s2}, UserJobs({"insert", "update"}, {1}, Ages) \cup Deletes({1}), 2, 1, 1)
Rounds == MakeLoad({s1}, UserJobs({"insert"}, {-1}, {0}) \cup UserJobs({"update"}, {-1}, {256})
                       \cup Deletes({-1}), 4, 0, 1)
Many   == MakeLoad({s1}, UserJobs({"insert"}, IntIds, {0}) \cup Notes1(Tags), 4, 0, 0)

RelLoads == <<Races, Rounds, Many>>

AllRowIds == {<<2, <<I64(id)>>>> : id \in IntIds} \cup {<<5, <<Bytes(tag)>>>> : tag \in Tags}
AllRowVals == {<<I64(age)>> : age \in Ages} \cup {<<Bytes(<<>>)>>}

Range1(start, stop) == [start |-> start, stop |-> stop]
SomeBounds ==
    {Range1(<<>>, <<>>), Range1(<<I64(0)>>, <<>>), Range1(<<I64(-1)>>, <<I64(0)>>),
     Range1(<<>>, <<I64(1)>>), Range1(<<Bytes(<<1>>)>>, <<>>)}

Keyless == Table("logs", <<Col("line", TypeBytes)>>, 0)
AllTables == {Users, Notes, Keyless}
BothIndexes == {ById, ByAge}

\* A key of two columns, and an index on the second: rows may share an entry.
Pairs == {Table("pairs", <<Col("a", TypeInt64), Col("b", TypeInt64)>>, 2)}
ByB == {[table |-> "pairs", index |-> [name |-> "byb", keys |-> <<"b">>]]}
PairLoad == <<MakeLoad({s1}, {Job(kind, "pairs", <<"a", "b">>, <<I64(a), I64(0)>>) :
                            kind \in {"insert", "delete"}, a \in {0, 1}}, 3, 0, 0)>>
RaceLoad == <<MakeLoad({s1, s2}, UserJobs({"insert"}, {1}, Ages), 2, 0, 0)>>
ManyLoad == <<Many>>

ByteHash(k) == IF Len(k) >= 3 THEN k[3] + k[Len(k)] ELSE k[1]
NoRange(k) == 0

EntryKeys == {EncodeKey(3, <<I64(id)>>) : id \in IntIds} \cup {EncodeKey(4, <<I64(age)>>) : age \in Ages}
RawKeys == {EncodeKey(id[1], id[2]) : id \in AllRowIds} \cup EntryKeys
RawVals == {EncodeValues(v) : v \in AllRowVals \cup {<<I64(id)>> : id \in IntIds}}
=============================================================================
