------------------------------- MODULE MCSql -------------------------------
(* Statements on a table "users", and on a table "notes" that sorts behind    *)
(* it, with the text of every statement.                                      *)
EXTENDS Sql

CONSTANTS s1, s2

BothSessions == {s1, s2}

Users == <<"users">>
Notes == <<"notes">>
id    == <<"id">>
name  == <<"name">>
age   == <<"age">>
star  == <<Ident(<<"*">>)>>

NameBytes(n) == <<Len(n[1])>>
TableHash(table) == IF table = Users THEN 2 ELSE 5
IndexHash(table, index) == 3
NoHash(k) == 0

Col(n, type) == [name |-> n, type |-> type]
Window(limit, offset) == [InFull EXCEPT !.limit = limit, !.offset = offset]
Where(key1, key2) == [InFull EXCEPT !.key1 = key1, !.key2 = key2]
IdIs(n) == Op("=", <<Ident(id), IntLit(n)>>)

CreateUsers  == CreateTableStmt(Users, <<Col(id, "int"), Col(name, "bytes"), Col(age, "int")>>, <<id>>)
CreateNarrow == CreateTableStmt(Users, <<Col(id, "int"), Col(age, "int")>>, <<id>>)
CreateNotes  == CreateTableStmt(Notes, <<Col(name, "bytes")>>, <<name>>)
ByAge        == CreateIndexStmt(<<"byage">>, Users, <<age>>, FALSE)
InsertUser(n, a) == InsertStmt(Users, <<id, age>>, <<IntLit(n), IntLit(a)>>)
InsertNote == InsertStmt(Notes, <<name>>, <<Text(<<0>>)>>)
InsertSum  == InsertStmt(Users, <<id, age>>, <<IntLit(0), Op("+", <<IntLit(1), IntLit(1)>>)>>)
InsertMore == InsertStmt(Users, <<id, age, name>>, <<IntLit(0), IntLit(1)>>)
InsertWrong == InsertStmt(Users, <<name, <<"size">>>>, <<Text(<<1>>), IntLit(1)>>)
SelectAll(table) == SelectStmt(star, table, InFull)
SelectIn(limit, offset) == SelectStmt(star, Users, Window(limit, offset))
SelectAt(n) == SelectStmt(<<Ident(id), Ident(name)>>, Users, Where(IdIs(n), None))
SelectSum == SelectStmt(star, Users, Where(Op("=", <<Ident(id), Op("-", <<IntLit(1), IntLit(2)>>)>>), None))
UpdateUser == UpdateStmt(Users, <<age>>, <<IntLit(5)>>, Window(1, 0))
UpdateAll == UpdateStmt(Users, <<age, id>>, <<IntLit(5), IntLit(7)>>, InFull)
DeleteUser == DeleteStmt(Users, Where(Op(">=", <<IntLit(0), IntLit(1)>>), None))
DeleteAll == DeleteStmt(Users, NoScan)

Selects == {SelectAll(Users), SelectAll(Notes), SelectIn(1, 0), SelectIn(1, 1), SelectIn(2, 1)}

\* Expressions of up to four operands.
Atoms == {Ident(age), IntLit(-1)}
Pairs1(X, Y) == {Op(o, <<x, y>>) : o \in {"or", "and", "<=", "-", "*"}, x \in X, y \in Y}
Small == Atoms \cup Pairs1(Atoms, {Ident(age)}) \cup {Op("not", <<IntLit(1)>>), Func(<<"f">>, <<Ident(id), IntLit(2)>>)}
Exprs == Small \cup Pairs1(Small, Small) \cup {Text(<<7>>), IntLit(-MaxInt - 1), Func(<<"g">>, <<>>)}
Inserted(es) == {InsertStmt(Users, <<id>>, <<e>>) : e \in es}
Filtered(es) == {SelectStmt(star, Users, [Window(1, 0) EXCEPT !.filter = e]) : e \in es}

Stmts == {CreateUsers, CreateNarrow, CreateNotes, ByAge, [ByAge EXCEPT !.unique = TRUE], InsertUser(1, 2),
          InsertNote, InsertMore, SelectAt(1), UpdateUser, UpdateAll, DeleteUser, DeleteAll,
          SelectStmt(star, Users, Where(IdIs(1), IdIs(2))),
          DeleteStmt(Users, [Where(IdIs(1), None) EXCEPT !.filter = Op("or", <<IdIs(1), IdIs(2)>>)])} \cup Selects
ManyWritten == Stmts \cup Inserted(Exprs) \cup Filtered(Small)

\* A column whose name begins with a keyword.
Odd == Inserted({Op("=", <<Ident(<<"not", "e">>), IntLit(1)>>)})

Show1(stmts) == {ShowStmt(ast) : ast \in stmts}
MakeLoad(sessions, texts, n, failures, ends) ==
    [sessions |-> sessions, jobs |-> texts, calls |-> n, errors |-> failures, exits |-> ends]

\* Odd text: nothing, half a statement, a quote that is not closed, a number out of
\* range, a limit without a number.
BadTexts == {<<>>, SubSeq(ShowStmt(InsertUser(1, 1)), 1, 12) \o <<Unclosed>>,
             SubSeq(ShowStmt(InsertUser(1, 1)), 1, 12) \o <<Num(40000), Sym(")")>>,
             ShowStmt(SelectAll(Users)) \o W("limit") \o W("offset") \o <<Num(1)>>, W("create") \o W("table") \o W("users"), W("explain") \o ShowStmt(SelectAll(Users)),
             W("begin"), ShowStmt(InsertUser(1, 1)) \o S(";"),
             W("select") \o W("count") \o S("(") \o S("*") \o S(")") \o W("from") \o W("users")}

Basic == MakeLoad({s1, s2}, Show1({CreateUsers, CreateNotes, ByAge, InsertUser(1, 2), InsertUser(-1, 3), InsertNote,
                               SelectAll(Users)}), 3, 1, 1)
Wrong == MakeLoad({s1}, Show1({CreateUsers, InsertUser(1, 1), InsertSum, InsertMore, InsertWrong, SelectAt(1), SelectSum,
                           DeleteAll, UpdateUser, DeleteUser} \cup Selects) \cup BadTexts, 2, 0, 1)
Narrow == MakeLoad({s1}, Show1({CreateUsers, CreateNarrow, InsertUser(1, 2), InsertUser(2, 1), UpdateAll, DeleteUser}), 4, 0, 1)

SqlLoads == <<Basic, Wrong, Narrow>>
ReadmeLoad == <<MakeLoad({s1}, Show1({CreateUsers, InsertUser(1, 2), SelectAll(Users), UpdateUser, DeleteUser}), 2, 0, 0)>>
NoSet == {}
=============================================================================
