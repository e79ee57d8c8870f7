------------------------------ MODULE MCServer ------------------------------
(* Short messages for a buffer of ten bytes: two commands fill it, a query of *)
(* four characters leaves one byte, and one of seven is too long.  The length *)
(* of FourChars is the type of BEGIN.                                         *)
EXTENDS Server

CONSTANTS c1, c2

TwoClients == {c1, c2}

TokenLine == <<84, 10>>
WrongLine == <<85, 13>>

Chars(n)   == [i \in 1 .. n |-> 65 + i]
Query     == EncodeMessage(MsgQuery, Chars(1))
FourChars == EncodeMessage(MsgQuery, Chars(4))
TooLong   == EncodeMessage(MsgQuery, Chars(7))
Begin     == EncodeMessage(MsgBegin, <<>>)
Commit    == EncodeMessage(MsgCommit, <<>>)
Abort     == EncodeMessage(MsgAbort, <<>>)
Prepare   == EncodeMessage(2, Chars(1))

MakeLoad(clients, scripts, window, cuts, auth, signal) ==
    [clients |-> clients, scripts |-> scripts, window |-> window, cuts |-> cuts, auth |-> auth, signal |-> signal]

Pieces  == MakeLoad({c1}, {<<Begin, FourChars, Abort>>, <<FourChars, Begin, Commit>>, <<TooLong, Query>>, <<Prepare, Begin, Begin>>},
                    3, TRUE, FALSE, FALSE)
OneByOne == MakeLoad({c1}, {<<TooLong, FourChars>>, <<Begin, FourChars>>}, 1, TRUE, FALSE, FALSE)
Tokens  == MakeLoad({c1}, {<<TokenLine, Query>>, <<WrongLine, Query>>, <<Query, Query>>, <<TokenLine, Begin, Query>>},
                    2, TRUE, TRUE, FALSE)
Several == MakeLoad({c1, c2}, {<<Query>>, <<Begin, Begin>>}, 1, FALSE, FALSE, TRUE)
Guarded == MakeLoad({c1, c2}, {<<TokenLine, Query>>, <<Query>>}, 1, FALSE, TRUE, TRUE)

ServerLoads == <<Pieces, OneByOne, Tokens, Several, Guarded>>
CutLoads == <<OneByOne>>

\* Columns and cells up to and past 255 characters.
Cell(n) == [i \in 1 .. n |-> 66]
Row(cols, n) == [c \in {cols[i] : i \in DOMAIN cols} |-> Cell(n)]
TwoCols == <<Chars(1), Chars(2)>>
SomeResults ==
    {[cols |-> TwoCols, rows |-> [k \in 1 .. r |-> Row(TwoCols, n + k)]] : r \in 0 .. 2, n \in {0, 254}}
      \cup {[cols |-> <<>>, rows |-> <<>>], [cols |-> <<Cell(256)>>, rows |-> <<Row(<<Cell(256)>>, 0)>>]}
=============================================================================
