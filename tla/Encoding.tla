------------------------------ MODULE Encoding ------------------------------
(***************************************************************************)
(* The order-preserving encoding of internal/kvstore/encoding.go: values   *)
(* become byte sequences whose order is the order of the values.           *)
(*                                                                         *)
(* An integer has IntBytes bytes (8 in the code).  The four bytes of a     *)
(* table prefix are one number here: big-endian bytes of equal length      *)
(* compare as numbers do.  A float is given by its bits; NaN is left out.  *)
(***************************************************************************)
EXTENDS Integers, Sequences, FiniteSetsExt

CONSTANT IntBytes

ASSUME IntBytesAssumption == IntBytes \in Nat \ {0}

TypeInt64   == 1
TypeBytes   == 2
TypeBool    == 3
TypeFloat64 == 4

I64(n)   == [type |-> TypeInt64, i64 |-> n]
Bytes(s) == [type |-> TypeBytes, str |-> s]
Bool(b)  == [type |-> TypeBool, bool |-> b]
Float(u) == [type |-> TypeFloat64, bits |-> u]
Untyped  == [type |-> 0]   \* Value{}: no type, and EncodeValues panics

\* The value of a type whose other fields are zero.
ZeroValue(type) ==
    CASE type = TypeInt64 -> I64(0)
      [] type = TypeBytes -> Bytes(<<>>)
      [] type = TypeBool -> Bool(FALSE)
      [] type = TypeFloat64 -> Float(0)

\* One more than the largest unsigned integer.
All ==
    LET power[n \in 0 .. IntBytes] == IF n = 0 THEN 1 ELSE 256 * power[n - 1]
    IN power[IntBytes]
Half == All \div 2   \* the sign bit

\* The conversions between int64 and uint64, and an unsigned integer with its sign
\* bit flipped.
Unsigned(n) == IF n < 0 THEN n + All ELSE n
Signed(u)   == IF u < Half THEN u ELSE u - All
FlipSign(u) == IF u < Half THEN u + Half ELSE u - Half

BigEndian(u) ==
    LET shifted[k \in 0 .. IntBytes] == IF k = 0 THEN u ELSE shifted[k - 1] \div 256
    IN [i \in 1 .. IntBytes |-> shifted[IntBytes - i] % 256]

FromBigEndian(bytes) ==
    LET first[n \in 0 .. Len(bytes)] == IF n = 0 THEN 0 ELSE 256 * first[n - 1] + bytes[n]
    IN first[Len(bytes)]

\* What appending the parts one after the other makes.
Joined(parts) ==
    LET first[n \in 0 .. Len(parts)] == IF n = 0 THEN <<>> ELSE first[n - 1] \o parts[n]
    IN first[Len(parts)]

escapeBytes(in) ==
    Joined([i \in DOMAIN in |-> IF in[i] = 0 THEN <<1, 1>>
                                ELSE IF in[i] = 1 THEN <<1, 2>>
                                ELSE <<in[i]>>])

\* One turn of the loop of unescapeBytes, at the byte x.at.
unescapeTurn(in, x) ==
    IF x.at > Len(in) THEN x
    ELSE IF in[x.at] = 1 /\ x.at < Len(in) /\ in[x.at + 1] \in {1, 2}
    THEN [at |-> x.at + 2, out |-> Append(x.out, in[x.at + 1] - 1)]
    ELSE [at |-> x.at + 1, out |-> Append(x.out, in[x.at])]

unescapeBytes(in) ==
    LET loop[n \in 0 .. Len(in)] ==
            IF n = 0 THEN [at |-> 1, out |-> <<>>] ELSE unescapeTurn(in, loop[n - 1])
    IN loop[Len(in)].out

\* A float that is not below zero (-0 is not) has its sign bit flipped, any other
\* one all of its bits.
FloatBits(u) == IF u <= Half THEN FlipSign(u) ELSE All - 1 - u

\* Mutant: the sign bit stays as it is.
EncodeValue_Unsigned(v) ==
    <<v.type>> \o
    (CASE v.type = TypeInt64 -> BigEndian(Unsigned(v.i64))
       [] v.type = TypeBytes -> Append(escapeBytes(v.str), 0)
       [] v.type = TypeBool -> <<IF v.bool THEN 1 ELSE 0>>
       [] v.type = TypeFloat64 -> BigEndian(FloatBits(v.bits)))

EncodeValue(v) ==
    <<v.type>> \o
    (CASE v.type = TypeInt64 -> BigEndian(FlipSign(Unsigned(v.i64)))
       [] v.type = TypeBytes -> Append(escapeBytes(v.str), 0)
       [] v.type = TypeBool -> <<IF v.bool THEN 1 ELSE 0>>
       [] v.type = TypeFloat64 -> BigEndian(FloatBits(v.bits)))

\* EncodeValues panics unless every value has a type.
Encodable(vals) == \A i \in DOMAIN vals : vals[i].type # 0

EncodeValues(vals) == Joined([i \in DOMAIN vals |-> EncodeValue(vals[i])])

EncodeKey(prefix, vals) == <<prefix>> \o EncodeValues(vals)

EncodeKeyPartial(prefix, vals, cmp) ==
    EncodeKey(prefix, vals) \o (IF cmp \in {1, -3} THEN <<255>> ELSE <<>>)

\* Mutant: the sign bit stays flipped.
DecodeValue_Flipped(in) ==
    LET u == FromBigEndian(SubSeq(in, 2, 1 + IntBytes))
        end == CHOOSE n \in DOMAIN in : n > 1 /\ in[n] = 0 /\ \A m \in 2 .. n - 1 : in[m] # 0
    IN IF in[1] = TypeInt64 THEN <<I64(Signed(u)), 1 + IntBytes>>
       ELSE <<Bytes(unescapeBytes(SubSeq(in, 2, end - 1))), end>>

\* The value at the head of in, and the number of bytes it takes.
DecodeValue(in) ==
    LET u == FromBigEndian(SubSeq(in, 2, 1 + IntBytes))
        end == CHOOSE n \in DOMAIN in : n > 1 /\ in[n] = 0 /\ \A m \in 2 .. n - 1 : in[m] # 0
    IN CASE in[1] = TypeInt64 -> <<I64(Signed(FlipSign(u))), 1 + IntBytes>>
         [] in[1] = TypeBytes -> <<Bytes(unescapeBytes(SubSeq(in, 2, end - 1))), end>>
         [] in[1] = TypeBool -> <<Bool(in[2] # 0), 2>>
         [] in[1] = TypeFloat64 -> <<Float(IF u < Half THEN All - 1 - u ELSE FlipSign(u)), 1 + IntBytes>>

\* One turn of the loop of DecodeValues.
decodeTurn(x) ==
    LET head == DecodeValue(x.rest)
    IN IF x.rest = <<>> THEN x
       ELSE [rest |-> SubSeq(x.rest, head[2] + 1, Len(x.rest)), out |-> Append(x.out, head[1])]

\* What DecodeValues appends to its argument.  The store holds nothing but what
\* EncodeValues made, so its panics do not happen.
DecodeValues(in) ==
    LET loop[n \in 0 .. Len(in)] ==
            IF n = 0 THEN [rest |-> in, out |-> <<>>] ELSE decodeTurn(loop[n - 1])
    IN loop[Len(in)].out

\* btree.CompareKeys(a, b) < 0
KeyLess(a, b) ==
    \E n \in 0 .. Len(a) :
        /\ n < Len(b)
        /\ \A i \in 1 .. n : a[i] = b[i]
        /\ n = Len(a) \/ a[n + 1] < b[n + 1]

(***************************************************************************)
(* What the encoding is for                                                *)
(***************************************************************************)

Byte == 0 .. 255

\* The values that come back as they are: all but -0, which is encoded like no
\* number and decoded to a NaN.
Values ==
    [type : {TypeInt64}, i64 : -Half .. Half - 1]
      \cup [type : {TypeBytes}, str : Seq(Byte)]
      \cup [type : {TypeBool}, bool : BOOLEAN]
      \cup [type : {TypeFloat64}, bits : (0 .. All - 1) \ {Half}]

\* The order of values as a reader of SQL has it: of one type, that of the numbers
\* or texts they are, and FALSE before TRUE.
Number(u) == IF u < Half THEN u ELSE Half - u

ValueLess(a, b) ==
    \/ a.type < b.type
    \/ a.type = TypeInt64 /\ b.type = TypeInt64 /\ a.i64 < b.i64
    \/ a.type = TypeBytes /\ b.type = TypeBytes /\ KeyLess(a.str, b.str)
    \/ a.type = TypeBool /\ b.type = TypeBool /\ ~a.bool /\ b.bool
    \/ a.type = TypeFloat64 /\ b.type = TypeFloat64 /\ Number(a.bits) < Number(b.bits)

TupleLess(x, y) ==
    \E n \in 0 .. Len(x) :
        /\ n < Len(y)
        /\ \A i \in 1 .. n : x[i] = y[i]
        /\ n = Len(x) \/ ValueLess(x[n + 1], y[n + 1])
=============================================================================
