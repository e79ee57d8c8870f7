------------------------------ MODULE Protocol ------------------------------
(***************************************************************************)
(* The wire protocol: internal/protocol/protocol.go, and printResult of    *)
(* cmd/svacara-cli/main.go, which takes results apart.  Bytes are numbers  *)
(* below 256.                                                              *)
(***************************************************************************)
EXTENDS Integers, Sequences, FiniteSetsExt

MsgQuery  == 1
MsgBegin  == 4
MsgCommit == 5
MsgAbort  == 6
MsgResult == 16

\* An integer in two and in four bytes, the higher ones cut off, and back.
PutUint16(n) == <<(n \div 256) % 256, n % 256>>
PutUint32(n) ==
    <<(n \div (256 * 256 * 256)) % 256, (n \div (256 * 256)) % 256, (n \div 256) % 256, n % 256>>
Uint16(b) == 256 * b[1] + b[2]
Uint32(b) == 256 * (256 * (256 * b[1] + b[2]) + b[3]) + b[4]

EncodeMessage(type, payload) == <<type>> \o PutUint32(Len(payload)) \o payload

Invalid == [ok |-> FALSE]
Message(type, payload) == [ok |-> TRUE, type |-> type, payload |-> payload]

\* Mutant: a payload that is not complete is accepted.
DecodeMessage_Short(data) ==
    IF Len(data) < 5 THEN Invalid ELSE Message(data[1], SubSeq(data, 6, Len(data)))

\* What follows the payload is dropped.
DecodeMessage(data) ==
    IF Len(data) < 5 THEN Invalid
    ELSE IF Len(data) < 5 + Uint32(SubSeq(data, 2, 5)) THEN Invalid
    ELSE Message(data[1], SubSeq(data, 6, 5 + Uint32(SubSeq(data, 2, 5))))

\* Mutant: the length has one byte.
EncodeString_OneByte(s) == <<0, Len(s) % 256>> \o s

EncodeString(s) == PutUint16(Len(s)) \o s

\* Some parts of a message, one after the other.
Joined(parts) ==
    LET part(i) == parts[i]
    IN MapThenFoldSet(\o, <<>>, part, Min, DOMAIN parts)

\* A row is a function from column names to strings.
EncodeResult(cols, rows) ==
    EncodeMessage(MsgResult,
        <<Len(cols) % 256>>
          \o Joined([i \in DOMAIN cols |-> EncodeString(cols[i])])
          \o Joined([k \in DOMAIN rows |->
                        Joined([i \in DOMAIN cols |-> EncodeString(rows[k][cols[i]])])]))

\* The body the client reads: as many bytes as the header says.
Body(answer) == SubSeq(answer, 6, 5 + Uint32(SubSeq(answer, 2, 5)))

\* The strings that data holds, one after the other; one that is cut off panics.
Broken == <<-1>>
Strings(data) ==
    LET from[i \in 1 .. Len(data) + 1] ==
            LET end == i + 1 + Uint16(SubSeq(data, i, i + 1))
            IN IF i >= Len(data) THEN <<>>
               ELSE IF end > Len(data) THEN <<Broken>>
               ELSE <<SubSeq(data, i + 2, end)>> \o from[end + 1]
    IN from[1]

\* The lines that are printed: the columns, then every full row.
printResult(data) ==
    LET ncols == data[1]
        all   == Strings(Tail(data))
    IN IF ncols = 0 THEN <<<<>>>>
       ELSE [k \in 1 .. Len(all) \div ncols |-> SubSeq(all, (k - 1) * ncols + 1, k * ncols)]
=============================================================================
