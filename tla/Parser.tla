------------------------------- MODULE Parser -------------------------------
(***************************************************************************)
(* The recursive descent parser of internal/sql/parser.go.  The input is a *)
(* sequence of tokens in place of characters; blanks, comments and upper   *)
(* case are left out.  Keywords are matched without a look at what follows *)
(* them, so a word is a sequence of fragments: "order" is <<"or", "der">>, *)
(* its first fragment is taken for the keyword OR wherever that fits, and  *)
(* "der" stays in the input.                                               *)
(*                                                                         *)
(* Every p... operator returns [n, r]: what it has read and the rest of    *)
(* the input.  The errors of pExpect are dropped by its callers, which go  *)
(* on or return what they have; Parse then finds input left over.          *)
(***************************************************************************)
EXTENDS Integers, Sequences, TLC

CONSTANT MaxInt   \* math.MaxInt64

Word(fragments) == [t |-> "word", v |-> fragments]
Num(n)     == [t |-> "num", v |-> n]
Quoted(s)  == [t |-> "str", v |-> s]
Unclosed   == [t |-> "open", v |-> ""]    \* a quote that is not closed, up to the end
Sym(c)     == [t |-> "sym", v |-> c]
TightMinus == [t |-> "tight", v |-> "-"]  \* a minus right in front of digits

Res(n, r) == [n |-> n, r |-> r]

\* What comes next, given what has been read.
Then(res, next(_)) == CHOOSE x \in {next(y) : y \in {res}} : TRUE

\* The keyword at the front, or "".
Ahead(toks) ==
    IF toks = <<>> THEN ""
    ELSE IF toks[1].t = "word" THEN toks[1].v[1]
    ELSE IF toks[1].t \in {"sym", "tight"} THEN toks[1].v
    ELSE ""

\* pKeyword: Is tells, Skip moves past the keyword.
Is(toks, kw) == Ahead(toks) = kw
Skip(toks) ==
    IF toks[1].t = "word" /\ Len(toks[1].v) > 1
    THEN <<Word(Tail(toks[1].v))>> \o Tail(toks)
    ELSE Tail(toks)
IsBoth(toks, kw1, kw2) == Is(toks, kw1) /\ Is(Skip(toks), kw2)

Past(toks, kw) == IF Is(toks, kw) THEN Skip(toks) ELSE toks
pExpect(res, kw) == Then(res, LAMBDA y : Res(y.n, Past(y.r, kw)))

\* The empty name is <<>>.
pMustSym(toks) ==
    IF toks # <<>> /\ toks[1].t = "word" THEN Res(toks[1].v, Tail(toks))
    ELSE IF toks # <<>> /\ toks[1].t = "num" THEN Res(<<ToString(toks[1].v)>>, Tail(toks))
    ELSE Res(<<>>, toks)

\* pNum: a number out of range becomes the nearest one in range.
IsNum(toks) == toks # <<>> /\ toks[1].t \in {"num", "tight"}
pNum(toks) ==
    IF toks[1].t = "num" THEN Res(IF toks[1].v > MaxInt THEN MaxInt ELSE toks[1].v, Tail(toks))
    ELSE Res(IF toks[2].v > MaxInt THEN -MaxInt - 1 ELSE -toks[2].v, Tail(Tail(toks)))

(***************************************************************************)
(* Expressions                                                             *)
(***************************************************************************)

None      == [type |-> "none"]   \* QLNode{}
IntLit(n) == [type |-> "int", i64 |-> n]
Text(s)   == [type |-> "str", str |-> s]
Ident(s)  == [type |-> "ident", str |-> s]
Func(s, k) == [type |-> "func", str |-> s, kids |-> k]
Op(o, k)   == [type |-> o, kids |-> k]

\* The node of an operator and its two operands, and the list of what was there
\* and one more.
Join(op, left, right) == Then(right, LAMBDA y : Res(Op(op, <<left.n, y.n>>), y.r))
Add(list, res) == Then(res, LAMBDA y : Res(Append(list.n, y.n), y.r))
First(res) == Then(res, LAMBDA y : Res(<<y.n>>, y.r))

\* The binary operators, from those that bind loosest to those that bind tightest.
\* "==" is never asked for: "=" matches the half of it.
Operators == << {"or"}, {"and"}, {"<=", ">=", "!=", "<>", "=", "<", ">", "like"}, {"+", "-"}, {"*", "/", "%"} >>
Comparison == 3

RECURSIVE pExprAtom(_), pExpr(_, _), OpTail(_, _), ExprTail(_)

\* pExprOr, pExprAnd, pExprCmp, pExprAdd, pExprMul, pExprAtom
pExpr(level, toks) ==
    IF level > Len(Operators) THEN pExprAtom(toks)
    ELSE Then(pExpr(level + 1, toks), LAMBDA left : OpTail(level, left))
pExprOr(toks) == pExpr(1, toks)
pExprCmp(toks) == pExpr(Comparison, toks)

\* Mutant: the right side takes all that follows.
OpTail_RightFirst(level, left) ==
    IF Ahead(left.r) \in Operators[level]
    THEN Join(Ahead(left.r), left, pExpr(level, Skip(left.r))) ELSE left

\* The loops: as long as there is an operator, what has been read is its left side.
\* A comparison is read once.
OpTail(level, left) ==
    IF Ahead(left.r) \notin Operators[level] THEN left
    ELSE Then(Join(IF Is(left.r, "<>") THEN "!=" ELSE Ahead(left.r), left, pExpr(level + 1, Skip(left.r))),
              LAMBDA all : IF level = Comparison THEN all ELSE OpTail(level, all))

ExprTail(list) ==
    IF Is(list.r, ",") THEN Then(Add(list, pExprOr(Skip(list.r))), ExprTail) ELSE list
ExprList(toks) == Then(First(pExprOr(toks)), ExprTail)

\* A name, or the call of a function when a parenthesis follows.
NameOrCall(name) ==
    IF name.n = <<>> THEN Res(None, name.r)
    ELSE IF ~Is(name.r, "(") THEN Res(Ident(name.n), name.r)
    ELSE IF Is(Skip(name.r), ")") THEN Res(Func(name.n, <<>>), Skip(Skip(name.r)))
    ELSE Then(pExpect(ExprList(Skip(name.r)), ")"), LAMBDA args : Res(Func(name.n, args.n), args.r))

Not(kid) == Res(Op("not", <<kid.n>>), kid.r)

pExprAtom(toks) ==
    CASE Is(toks, "not") -> Then(pExprAtom(Skip(toks)), Not)
      [] Is(toks, "(") -> pExpect(pExprOr(Skip(toks)), ")")
      [] IsNum(toks) -> Res(IntLit(pNum(toks).n), pNum(toks).r)
      [] toks # <<>> /\ toks[1].t = "str" -> Res(Text(toks[1].v), Tail(toks))
      [] toks # <<>> /\ toks[1].t = "open" -> Res(None, <<>>)
      [] OTHER -> NameOrCall(pMustSym(toks))

(***************************************************************************)
(* Statements                                                              *)
(***************************************************************************)

RECURSIVE NameTail(_), ColTail(_), SelectTail(_), SetTail(_)

NameTail(list) ==
    IF Is(list.r, ",") THEN Then(Add(list, pMustSym(Skip(list.r))), NameTail) ELSE list
NameList(toks) == Then(First(pMustSym(toks)), NameTail)

pType(toks) ==
    LET is(type) == Res(type, Skip(toks))
    IN CASE Ahead(toks) \in {"int64", "int"} -> is("int")
         [] Ahead(toks) \in {"bytes", "text", "string"} -> is("bytes")
         [] Is(toks, "bool") -> is("bool")
         [] Ahead(toks) \in {"float64", "float"} -> is("float")
         [] OTHER -> Res("other", toks)

CreateTableStmt(table, cols, pkeys) ==
    [stmt |-> "create table", table |-> table, cols |-> cols, pkeys |-> pkeys]

\* One item of the list of CREATE TABLE, the primary key or a column, added to st.
PrimaryKey(st, names) == Res([st EXCEPT !.pkeys = @ \o names.n], names.r)
ColSpec(st, name) ==
    Then(pType(name.r), LAMBDA type :
       Res([st EXCEPT !.cols = Append(@, [name |-> name.n, type |-> type.n])], type.r))
ColItem(st, toks) ==
    IF IsBoth(toks, "primary", "key")
    THEN Then(pExpect(NameList(Past(Skip(Skip(toks)), "(")), ")"), LAMBDA names : PrimaryKey(st, names))
    ELSE Then(pMustSym(toks), LAMBDA name : ColSpec(st, name))
ColTail(st) == IF Is(st.r, ",") THEN Then(ColItem(st.n, Skip(st.r)), ColTail) ELSE st

pCreateTable(name) ==
    LET st == CreateTableStmt(name.n, <<>>, <<>>)
    IN IF Is(name.r, "(") THEN pExpect(Then(ColItem(st, Skip(name.r)), ColTail), ")")
       ELSE Res(st, name.r)

CreateIndexStmt(name, table, keys, unique) ==
    [stmt |-> "create index", name |-> name, table |-> table, keys |-> keys, unique |-> unique]
IndexKeys(name, table, unique) ==
    Then(IF Is(table.r, "(") THEN pExpect(NameList(Skip(table.r)), ")") ELSE Res(<<>>, table.r),
         LAMBDA keys : Res(CreateIndexStmt(name, table.n, keys.n, unique), keys.r))
IndexOn(name, unique) ==
    IF Is(name.r, "on")
    THEN Then(pMustSym(Skip(name.r)), LAMBDA table : IndexKeys(name.n, table, unique))
    ELSE Res(CreateIndexStmt(name.n, <<>>, <<>>, unique), name.r)
pCreateIndex(toks) ==
    Then(pMustSym(Past(toks, "unique")), LAMBDA name : IndexOn(name, Is(toks, "unique")))

\* QLScan.  Without pScan its limit is zero.
NoScan == [key1 |-> None, key2 |-> None, filter |-> None, offset |-> 0, limit |-> 0]

\* A field of the scan is read.
Into(sc, field, res) == Then(res, LAMBDA y : Res([sc EXCEPT ![field] = y.n], y.r))
NumInto(sc, field, toks) == IF IsNum(toks) THEN Into(sc, field, pNum(toks)) ELSE Res(sc, toks)

ScanKey2(sc) ==
    IF Ahead(sc.r) \in {"and", ","} THEN Into(sc.n, "key2", pExprCmp(Skip(sc.r))) ELSE sc
pIndexBy(sc) ==
    IF IsBoth(sc.r, "index", "by")
    THEN Then(Into(sc.n, "key1", pExprCmp(Skip(Skip(sc.r)))), ScanKey2) ELSE sc
ScanFilter(sc) ==
    IF Is(sc.r, "filter") THEN Into(sc.n, "filter", pExprOr(Skip(sc.r))) ELSE sc
pLimit(sc) ==
    IF Is(sc.r, "limit")
    THEN Then(NumInto(sc.n, "limit", Skip(sc.r)), LAMBDA l :
            IF Is(l.r, "offset") THEN NumInto(l.n, "offset", Skip(l.r)) ELSE l)
    ELSE sc
pScan(toks) ==
    Then(Then(Then(Res([NoScan EXCEPT !.limit = MaxInt], toks), pIndexBy), ScanFilter), pLimit)

\* The select list: a star or a name.  An alias takes the place of the name.
SelectName(name) == IF Is(name.r, "as") THEN pMustSym(Skip(name.r)) ELSE name
pSelectExpr(toks) ==
    IF Is(toks, "*") THEN Res(<<"*">>, Skip(toks)) ELSE Then(pMustSym(toks), SelectName)
SelectTail(list) ==
    IF Is(list.r, ",") THEN Then(Add(list, pSelectExpr(Skip(list.r))), SelectTail) ELSE list

SelectStmt(outs, table, scan) ==
    [stmt |-> "select", outs |-> outs, table |-> table, scan |-> scan]
SelectFrom(outs, table) ==
    Then(pScan(table.r), LAMBDA scan : Res(SelectStmt(outs, table.n, scan.n), scan.r))
SelectBody(list) ==
    LET outs == [i \in DOMAIN list.n |-> Ident(list.n[i])]
    IN IF Is(list.r, "from") THEN Then(pMustSym(Skip(list.r)), LAMBDA table : SelectFrom(outs, table))
       ELSE Res(SelectStmt(outs, <<>>, NoScan), list.r)
pSelect(toks) == Then(Then(First(pSelectExpr(toks)), SelectTail), SelectBody)

InsertStmt(table, names, values) ==
    [stmt |-> "insert", table |-> table, names |-> names, values |-> values]
InsertValues(table, names) ==
    Then(pExpect(ExprList(Past(Past(names.r, "values"), "(")), ")"), LAMBDA vals :
       Res(InsertStmt(table, names.n, vals.n), vals.r))
pInsert(table) ==
    Then(IF Is(table.r, "(") THEN pExpect(NameList(Skip(table.r)), ")") ELSE Res(<<>>, table.r),
         LAMBDA names : InsertValues(table.n, names))

UpdateStmt(table, names, values, scan) ==
    [stmt |-> "update", table |-> table, names |-> names, values |-> values, scan |-> scan]
SetItem(st, toks) ==
    Then(pMustSym(toks), LAMBDA name :
       Then(pExprOr(Past(name.r, "=")), LAMBDA value :
          Res([st EXCEPT !.names = Append(@, name.n), !.values = Append(@, value.n)], value.r)))
SetTail(st) == IF Is(st.r, ",") THEN Then(SetItem(st.n, Skip(st.r)), SetTail) ELSE st
pUpdate(table) ==
    Then(Then(SetItem(UpdateStmt(table.n, <<>>, <<>>, NoScan), Past(table.r, "set")), SetTail), LAMBDA st :
       Into(st.n, "scan", pScan(Past(st.r, "where"))))

DeleteStmt(table, scan) == [stmt |-> "delete", table |-> table, scan |-> scan]
pDelete(table) ==
    Then(IF Is(table.r, "where") THEN pScan(Skip(table.r)) ELSE Res(NoScan, table.r),
         LAMBDA scan : Res(DeleteStmt(table.n, scan.n), scan.r))

\* Statements that are answered with a string, and those that are unknown.
Saying  == [stmt |-> "string"]
Unknown == [stmt |-> "error"]

pStmt(toks) ==
    CASE IsBoth(toks, "create", "table") -> Then(pMustSym(Skip(Skip(toks))), pCreateTable)
      [] IsBoth(toks, "create", "index") -> pCreateIndex(Skip(Skip(toks)))
      [] Is(toks, "select") -> pSelect(Skip(toks))
      [] IsBoth(toks, "insert", "into") -> Then(pMustSym(Skip(Skip(toks))), pInsert)
      [] Is(toks, "update") -> Then(pMustSym(Skip(toks)), pUpdate)
      [] IsBoth(toks, "delete", "from") -> Then(pMustSym(Skip(Skip(toks))), pDelete)
      [] Is(toks, "explain") -> Res(Saying, pSelect(Skip(toks)).r)
      [] Ahead(toks) \in {"begin", "commit", "abort"} -> Res(Saying, Skip(toks))
      [] OTHER -> Res(Unknown, toks)

\* Input that is left over is an error.
Parse(toks) == Then(pStmt(toks), LAMBDA res : IF res.r = <<>> THEN res.n ELSE Unknown)
=============================================================================
