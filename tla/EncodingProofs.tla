--------------------------- MODULE EncodingProofs ---------------------------
(***************************************************************************)
(* What internal/kvstore/encoding.go promises the relational layer, for    *)
(* values of all four types and integers of any number of bytes: values    *)
(* are decoded as they were encoded, and keys are in the order of their    *)
(* values.                                                                 *)
(*                                                                         *)
(* The definitions are recursive functions.  A lemma by induction takes    *)
(* the least number for which it fails.                                    *)
(***************************************************************************)
EXTENDS Encoding, TLAPS, WellFoundedInduction

\* A set of numbers that is not empty has a least one.
LEMMA LeastNumber ==
    ASSUME NEW S \in SUBSET Nat, S # {}
    PROVE  \E m \in S : \A v \in S : m <= v
<1>1. PICK m \in S : \A v \in S : <<v, m>> \notin OpToRel(<, Nat)
  BY NatLessThanWellFounded, WFMin, Zenon
<1>2. \A v \in S : ~(v < m)
  BY <1>1, Zenon DEF OpToRel
<1> QED
  BY <1>2

\* A set that has 0, and with every number the next one up to n, has all up to n.
LEMMA CountUp ==
    ASSUME NEW n \in Nat, NEW T, 0 \in T, \A k \in 0 .. n - 1 : k \in T => k + 1 \in T
    PROVE  0 .. n \subseteq T
<1> DEFINE S == {m \in 0 .. n : m \notin T}
<1> SUFFICES ASSUME S # {} PROVE FALSE
  OBVIOUS
<1>1. S \in SUBSET Nat
  OBVIOUS
<1>2. PICK m \in S : \A v \in S : m <= v
  BY <1>1, LeastNumber, Zenon
<1>3. m \in 0 .. n /\ m \notin T /\ m # 0
  OBVIOUS
<1>4. m - 1 \in 0 .. n - 1 /\ m - 1 \in 0 .. n /\ (m - 1) + 1 = m /\ ~(m <= m - 1)
  BY <1>3
<1>5. m - 1 \in T
  BY <1>2, <1>4
<1> QED
  BY <1>3, <1>4, <1>5

(***************************************************************************)
(* Joined                                                                  *)
(***************************************************************************)

\* f[n] is what the first n parts make.
Fronts(parts, n, f) ==
    f = [i \in 0 .. n |-> IF i = 0 THEN <<>> ELSE f[i - 1] \o parts[i]]

LEMMA FrontsExist ==
    ASSUME NEW parts, NEW n \in Nat
    PROVE  \E f : Fronts(parts, n, f)
<1> DEFINE T == {m \in 0 .. n : \E f : Fronts(parts, m, f)}
<1>1. 0 \in T
  <2>1. Fronts(parts, 0, [i \in 0 .. 0 |-> <<>>])
    BY DEF Fronts
  <2> QED
    BY <2>1
<1>2. ASSUME NEW k \in 0 .. n - 1, k \in T PROVE k + 1 \in T
  <2>1. PICK f : Fronts(parts, k, f)
    BY <1>2
  <2> DEFINE g == [i \in 0 .. k + 1 |-> IF i = k + 1 THEN f[k] \o parts[k + 1] ELSE f[i]]
  <2>3. ASSUME NEW i \in 0 .. k + 1 PROVE g[i] = IF i = 0 THEN <<>> ELSE g[i - 1] \o parts[i]
    <3>1. \A j \in 0 .. k : f[j] = IF j = 0 THEN <<>> ELSE f[j - 1] \o parts[j]
      BY <2>1, Zenon DEF Fronts
    <3>2. g[i] = IF i = k + 1 THEN f[k] \o parts[k + 1] ELSE f[i]
      OBVIOUS
    <3>3. i # 0 => i - 1 \in 0 .. k + 1 /\ i - 1 # k + 1
      OBVIOUS
    <3>4. i # 0 => g[i - 1] = f[i - 1]
      BY <3>3
    <3>5. CASE i = k + 1
      <4>1. i # 0 /\ i - 1 = k
        BY <3>5
      <4> QED
        BY <3>2, <3>4, <3>5, <4>1, Zenon
    <3>6. CASE i # k + 1
      <4>1. i \in 0 .. k
        BY <3>6
      <4> QED
        BY <3>1, <3>2, <3>4, <3>6, <4>1, Zenon
    <3> QED
      BY <3>5, <3>6
  <2>2. Fronts(parts, k + 1, g)
    BY <2>3, Zenon DEF Fronts
  <2> QED
    BY <2>2
<1> HIDE DEF T
<1>3. n \in T
  BY <1>1, <1>2, CountUp
<1> QED
  BY <1>3, Zenon DEF T

\* What Joined makes of a sequence of parts, front by front.
LEMMA JoinedFronts ==
    ASSUME NEW S, NEW parts \in Seq(Seq(S))
    PROVE  \E f : /\ f[0] = <<>> /\ \A i \in 1 .. Len(parts) : f[i] = f[i - 1] \o parts[i]
                  /\ \A i \in 0 .. Len(parts) : f[i] \in Seq(S)
                  /\ Joined(parts) = f[Len(parts)]
<1> DEFINE n == Len(parts)
<1>0. n \in Nat
  OBVIOUS
<1>1. \E f : Fronts(parts, n, f)
  BY <1>0, FrontsExist, Zenon
<1> DEFINE c == CHOOSE f : f = [i \in 0 .. n |-> IF i = 0 THEN <<>> ELSE f[i - 1] \o parts[i]]
<1>2. c = [i \in 0 .. n |-> IF i = 0 THEN <<>> ELSE c[i - 1] \o parts[i]]
  BY <1>1, Zenon DEF Fronts
<1>3. Joined(parts) = c[n]
  BY Zenon DEF Joined
<1> HIDE DEF c, n
<1>4. c[0] = <<>> /\ \A i \in 1 .. n : c[i] = c[i - 1] \o parts[i]
  <2>1. \A i \in 0 .. n : c[i] = IF i = 0 THEN <<>> ELSE c[i - 1] \o parts[i]
    BY <1>2, Zenon
  <2>2. 0 \in 0 .. n /\ \A i \in 1 .. n : i \in 0 .. n /\ i # 0
    BY <1>0
  <2> QED
    BY <2>1, <2>2, Zenon
<1> DEFINE T == {k \in 0 .. n : c[k] \in Seq(S)}
<1>5. 0 \in T
  <2>1. 0 \in 0 .. n /\ <<>> \in Seq(S)
    BY <1>0
  <2> QED
    BY <1>4, <2>1, Zenon
<1>6. ASSUME NEW k \in 0 .. n - 1, k \in T PROVE k + 1 \in T
  <2>1. k + 1 \in 1 .. n /\ k + 1 \in 0 .. n /\ (k + 1) - 1 = k
    BY <1>0
  <2>2. c[k + 1] = c[k] \o parts[k + 1]
    BY <1>4, <2>1, Zenon
  <2>3. parts[k + 1] \in Seq(S)
    BY <2>1 DEF n
  <2>4. c[k] \in Seq(S)
    BY <1>6
  <2>5. c[k] \o parts[k + 1] \in Seq(S)
    BY <2>3, <2>4
  <2> QED
    BY <2>1, <2>2, <2>5, Zenon
<1>7. 0 .. n \subseteq T
  BY <1>0, <1>5, <1>6, CountUp, Zenon
<1> QED
  BY <1>3, <1>4, <1>7, Zenon DEF n

\* Joined of no parts, and with one part more.
LEMMA JoinedEmpty == Joined(<<>>) = <<>>
<1>1. <<>> \in Seq(Seq({})) /\ Len(<<>>) = 0
  OBVIOUS
<1> QED
  BY <1>1, JoinedFronts, Zenon

LEMMA JoinedAppend ==
    ASSUME NEW S, NEW parts \in Seq(Seq(S)), NEW x \in Seq(S)
    PROVE  Joined(Append(parts, x)) = Joined(parts) \o x /\ Joined(parts) \in Seq(S)
<1> DEFINE n == Len(parts)
           more == Append(parts, x)
<1>1. /\ n \in Nat /\ more \in Seq(Seq(S)) /\ Len(more) = n + 1 /\ more[n + 1] = x
      /\ \A i \in 1 .. n : more[i] = parts[i]
  OBVIOUS
<1>2. PICK f : /\ f[0] = <<>> /\ \A i \in 1 .. Len(parts) : f[i] = f[i - 1] \o parts[i]
               /\ \A i \in 0 .. Len(parts) : f[i] \in Seq(S)
               /\ Joined(parts) = f[Len(parts)]
  BY JoinedFronts, Zenon
<1> HIDE DEF more
<1>3. PICK g : /\ g[0] = <<>> /\ \A i \in 1 .. Len(more) : g[i] = g[i - 1] \o more[i]
               /\ Joined(more) = g[Len(more)]
  BY <1>1, JoinedFronts, Zenon
<1> HIDE DEF n
<1> DEFINE T == {k \in 0 .. n : f[k] = g[k]}
<1>4. 0 \in T
  BY <1>1, <1>2, <1>3
<1>5. ASSUME NEW k \in 0 .. n - 1, k \in T PROVE k + 1 \in T
  <2>1. k + 1 \in 1 .. n /\ k + 1 \in 0 .. n /\ (k + 1) - 1 = k /\ k + 1 \in 1 .. n + 1
    BY <1>1
  <2>2. f[k + 1] = f[k] \o parts[k + 1] /\ g[k + 1] = g[k] \o parts[k + 1]
    BY <1>1, <1>2, <1>3, <2>1, Zenon DEF n
  <2> QED
    BY <1>5, <2>1, <2>2, Zenon
<1>6. f[n] = g[n]
  <2>1. 0 .. n \subseteq T
    BY <1>1, <1>4, <1>5, CountUp, Zenon
  <2> QED
    BY <1>1, <2>1
<1>7. g[n + 1] = g[n] \o x
  <2>1. n + 1 \in 1 .. n + 1 /\ (n + 1) - 1 = n
    BY <1>1
  <2> QED
    BY <1>1, <1>3, <2>1, Zenon
<1> QED
  BY <1>1, <1>2, <1>3, <1>6, <1>7 DEF n, more

\* What the first n parts make.
Made(parts, n) == Joined(SubSeq(parts, 1, n))

LEMMA FrontAppend ==
    ASSUME NEW X, NEW s \in Seq(X), NEW k \in 0 .. Len(s) - 1
    PROVE  /\ SubSeq(s, 1, k) \in Seq(X) /\ s[k + 1] \in X /\ Len(SubSeq(s, 1, k)) = k
           /\ SubSeq(s, 1, k + 1) = Append(SubSeq(s, 1, k), s[k + 1])
OBVIOUS

LEMMA MadeStep ==
    ASSUME NEW S, NEW parts \in Seq(Seq(S)), NEW k \in 0 .. Len(parts) - 1
    PROVE  Made(parts, k + 1) = Made(parts, k) \o parts[k + 1] /\ Made(parts, k) \in Seq(S)
<1>1. /\ SubSeq(parts, 1, k) \in Seq(Seq(S)) /\ parts[k + 1] \in Seq(S)
      /\ SubSeq(parts, 1, k + 1) = Append(SubSeq(parts, 1, k), parts[k + 1])
  BY FrontAppend, Zenon
<1> QED
  BY <1>1, JoinedAppend, Zenon DEF Made

LEMMA MadeEnds ==
    ASSUME NEW S, NEW parts \in Seq(Seq(S))
    PROVE  Made(parts, 0) = <<>> /\ Made(parts, Len(parts)) = Joined(parts) /\ Joined(parts) \in Seq(S)
<1>1. SubSeq(parts, 1, 0) = <<>> /\ SubSeq(parts, 1, Len(parts)) = parts
  OBVIOUS
<1>2. Joined(parts) \in Seq(S)
  <2>1. <<>> \in Seq(S)
    OBVIOUS
  <2> QED
    BY <2>1, JoinedAppend, Zenon
<1> QED
  BY <1>1, <1>2, JoinedEmpty, Zenon DEF Made

\* Concatenation is associative.
Assoc(a, b, c) == (a \o b) \o c = a \o (b \o c)

LEMMA ConcatAssoc ==
    ASSUME NEW S, NEW a \in Seq(S), NEW b \in Seq(S), NEW c \in Seq(S)
    PROVE  Assoc(a, b, c)
<1>1. Len(a \o b) = Len(a) + Len(b) /\ Len(b \o c) = Len(b) + Len(c)
  OBVIOUS
<1> DEFINE x == (a \o b) \o c
           y == a \o (b \o c)
<1>2. x \in Seq(S) /\ y \in Seq(S) /\ Len(x) = Len(a) + Len(b) + Len(c) /\ Len(y) = Len(a) + Len(b) + Len(c)
  OBVIOUS
<1>3. ASSUME NEW i \in 1 .. Len(a) + Len(b) + Len(c) PROVE x[i] = y[i]
  OBVIOUS
<1> HIDE DEF x, y
<1>4. x = y
  BY <1>2, <1>3
<1> QED
  BY <1>4, Zenon DEF x, y, Assoc

\* What the first parts make is the front of what all make.
LEMMA MadeIsFront ==
    ASSUME NEW S, NEW parts \in Seq(Seq(S)), NEW n \in 0 .. Len(parts)
    PROVE  Made(parts, n) \in Seq(S) /\ \E r \in Seq(S) : Joined(parts) = Made(parts, n) \o r
<1> DEFINE l == Len(parts)
           T == {k \in 0 .. l - n : \E r \in Seq(S) : Made(parts, n + k) = Made(parts, n) \o r}
<1>0. l \in Nat /\ n \in Nat /\ l - n \in Nat
  OBVIOUS
<1>1. Made(parts, n) \in Seq(S)
  <2>1. CASE n = l
    BY <2>1, MadeEnds
  <2>2. CASE n # l
    <3>1. n \in 0 .. Len(parts) - 1
      BY <2>2
    <3> QED
      BY <3>1, MadeStep, Zenon
  <2> QED
    BY <2>1, <2>2
<1>2. 0 \in T
  <2>1. 0 \in 0 .. l - n /\ n + 0 = n /\ <<>> \in Seq(S)
    BY <1>0
  <2>2. Made(parts, n) = Made(parts, n) \o <<>>
    <3> DEFINE m == Made(parts, n)
    <3>1. m \in Seq(S)
      BY <1>1
    <3> HIDE DEF m
    <3>2. m = m \o <<>>
      BY <3>1
    <3> QED
      BY <3>2 DEF m
  <2> QED
    BY <2>1, <2>2, Zenon
<1>3. ASSUME NEW k \in 0 .. (l - n) - 1, k \in T PROVE k + 1 \in T
  <2>1. k + 1 \in 0 .. l - n /\ n + k \in 0 .. Len(parts) - 1 /\ n + (k + 1) = (n + k) + 1 /\ (n + k) + 1 \in 1 .. Len(parts)
    BY <1>0
  <2>2. PICK r \in Seq(S) : Made(parts, n + k) = Made(parts, n) \o r
    BY <1>3, Zenon
  <2>3. parts[(n + k) + 1] \in Seq(S)
    BY <2>1
  <2>4. Made(parts, n + (k + 1)) = Made(parts, n + k) \o parts[(n + k) + 1]
    BY <2>1, MadeStep, Zenon
  <2>5. Assoc(Made(parts, n), r, parts[(n + k) + 1])
    BY <1>1, <2>3, ConcatAssoc, Zenon
  <2>6. Made(parts, n + (k + 1)) = Made(parts, n) \o (r \o parts[(n + k) + 1])
    BY <2>2, <2>4, <2>5, Zenon DEF Assoc
  <2>7. r \o parts[(n + k) + 1] \in Seq(S)
    BY <2>3
  <2> QED
    BY <2>1, <2>6, <2>7, Zenon
<1> HIDE DEF T
<1>4. l - n \in T
  <2>1. 0 .. l - n \subseteq T
    BY <1>0, <1>2, <1>3, CountUp, Zenon
  <2> QED
    BY <1>0, <2>1
<1>5. n + (l - n) = l /\ Made(parts, l) = Joined(parts)
  BY <1>0, MadeEnds
<1> QED
  BY <1>1, <1>4, <1>5, Zenon DEF T

\* What comes behind the first n parts starts with the next one.
Splits(S, all, front, part) == \E r \in Seq(S) : all = front \o (part \o r)

LEMMA MadeSplit ==
    ASSUME NEW S, NEW parts \in Seq(Seq(S)), NEW n \in 0 .. Len(parts) - 1
    PROVE  /\ Made(parts, n) \in Seq(S) /\ parts[n + 1] \in Seq(S)
           /\ Splits(S, Joined(parts), Made(parts, n), parts[n + 1])
<1>1. n + 1 \in 0 .. Len(parts) /\ n + 1 \in 1 .. Len(parts)
  OBVIOUS
<1>2. PICK r \in Seq(S) : Joined(parts) = Made(parts, n + 1) \o r
  BY <1>1, MadeIsFront, Zenon
<1>3. Made(parts, n + 1) = Made(parts, n) \o parts[n + 1] /\ Made(parts, n) \in Seq(S)
  BY MadeStep, Zenon
<1>4. parts[n + 1] \in Seq(S)
  BY <1>1
<1>5. Assoc(Made(parts, n), parts[n + 1], r)
  BY <1>3, <1>4, ConcatAssoc, Zenon
<1>6. Joined(parts) = Made(parts, n) \o (parts[n + 1] \o r)
  BY <1>2, <1>3, <1>5, Zenon DEF Assoc
<1>7. Splits(S, Joined(parts), Made(parts, n), parts[n + 1])
  BY <1>6, Zenon DEF Splits
<1> QED
  BY <1>3, <1>4, <1>7, Zenon

(***************************************************************************)
(* Integers                                                                *)
(***************************************************************************)

\* A function may be defined by its value at 0 and how each follows from the one
\* before.
Follows(X, a, g, n, f) ==
    /\ f = [i \in 0 .. n |-> IF i = 0 THEN a ELSE g[f[i - 1]]]
    /\ \A i \in 0 .. n : f[i] \in X

LEMMA Recursion ==
    ASSUME NEW X, NEW a \in X, NEW n \in Nat, NEW g \in [X -> X]
    PROVE  \E f : Follows(X, a, g, n, f)
<1> DEFINE T == {m \in 0 .. n : \E f : Follows(X, a, g, m, f)}
<1>1. 0 \in T
  <2>1. Follows(X, a, g, 0, [i \in 0 .. 0 |-> a])
    BY DEF Follows
  <2> QED
    BY <2>1
<1>2. ASSUME NEW k \in 0 .. n - 1, k \in T PROVE k + 1 \in T
  <2>1. PICK f : Follows(X, a, g, k, f)
    BY <1>2
  <2> DEFINE h == [i \in 0 .. k + 1 |-> IF i = k + 1 THEN g[f[k]] ELSE f[i]]
  <2>2. ASSUME NEW i \in 0 .. k + 1 PROVE h[i] = (IF i = 0 THEN a ELSE g[h[i - 1]]) /\ h[i] \in X
    <3>1. \A j \in 0 .. k : f[j] = (IF j = 0 THEN a ELSE g[f[j - 1]]) /\ f[j] \in X
      BY <2>1, Zenon DEF Follows
    <3>2. h[i] = IF i = k + 1 THEN g[f[k]] ELSE f[i]
      OBVIOUS
    <3>3. i # 0 => i - 1 \in 0 .. k + 1 /\ i - 1 # k + 1
      OBVIOUS
    <3>4. i # 0 => h[i - 1] = f[i - 1]
      BY <3>3
    <3>5. CASE i = k + 1
      <4>1. i # 0 /\ i - 1 = k /\ k \in 0 .. k
        BY <3>5
      <4> QED
        BY <3>1, <3>2, <3>4, <3>5, <4>1, Zenon
    <3>6. CASE i # k + 1
      <4>1. i \in 0 .. k
        BY <3>6
      <4> QED
        BY <3>1, <3>2, <3>4, <3>6, <4>1, Zenon
    <3> QED
      BY <3>5, <3>6
  <2>3. Follows(X, a, g, k + 1, h)
    BY <2>2, Zenon DEF Follows
  <2> QED
    BY <2>3
<1> HIDE DEF T
<1>3. n \in T
  BY <1>1, <1>2, CountUp
<1> QED
  BY <1>3, Zenon DEF T

\* The powers of 256.
LEMMA Powers ==
    \E p : /\ p[0] = 1 /\ \A i \in 1 .. IntBytes : p[i] = 256 * p[i - 1]
           /\ \A i \in 0 .. IntBytes : p[i] \in Nat \ {0}
           /\ All = p[IntBytes]
<1>0. IntBytes \in Nat
  BY IntBytesAssumption
<1> DEFINE X == Nat \ {0}
           g == [x \in X |-> 256 * x]
           c == CHOOSE f : f = [i \in 0 .. IntBytes |-> IF i = 0 THEN 1 ELSE 256 * f[i - 1]]
<1>1. g \in [X -> X] /\ 1 \in X
  OBVIOUS
<1>2. PICK f : Follows(X, 1, g, IntBytes, f)
  <2> HIDE DEF g, X
  <2> QED
    BY <1>0, <1>1, Recursion, Zenon
<1>3. f = [i \in 0 .. IntBytes |-> IF i = 0 THEN 1 ELSE 256 * f[i - 1]]
  <2>1. ASSUME NEW i \in 0 .. IntBytes PROVE f[i] = IF i = 0 THEN 1 ELSE 256 * f[i - 1]
    <3>1. f[i] = IF i = 0 THEN 1 ELSE g[f[i - 1]]
      BY <1>2, Zenon DEF Follows
    <3>2. i # 0 => i - 1 \in 0 .. IntBytes
      BY <1>0
    <3>3. i # 0 => f[i - 1] \in X
      BY <1>2, <3>2, Zenon DEF Follows
    <3> QED
      BY <3>1, <3>3
  <2> QED
    BY <1>2, <2>1, Zenon DEF Follows
<1>4. c = [i \in 0 .. IntBytes |-> IF i = 0 THEN 1 ELSE 256 * c[i - 1]]
  BY <1>3, ZenonT(40)
<1>5. All = c[IntBytes]
  BY Zenon DEF All
<1> HIDE DEF c
<1> DEFINE T == {k \in 0 .. IntBytes : c[k] \in X}
<1>6. \A i \in 0 .. IntBytes : c[i] = IF i = 0 THEN 1 ELSE 256 * c[i - 1]
  BY <1>4, Zenon
<1>7. 0 .. IntBytes \subseteq T
  <2>1. 0 \in T
    BY <1>0, <1>6
  <2>2. ASSUME NEW k \in 0 .. IntBytes - 1, k \in T PROVE k + 1 \in T
    BY <1>0, <1>6, <2>2
  <2> HIDE DEF T
  <2> QED
    BY <1>0, <2>1, <2>2, CountUp
<1>8. \A i \in 1 .. IntBytes : c[i] = 256 * c[i - 1]
  BY <1>0, <1>6
<1>9. c[0] = 1
  BY <1>0, <1>6
<1> QED
  BY <1>5, <1>7, <1>8, <1>9

LEMMA SignBit == All \in Nat /\ Half \in Nat \ {0} /\ All = 2 * Half
<1>1. PICK p : /\ p[0] = 1 /\ \A i \in 1 .. IntBytes : p[i] = 256 * p[i - 1]
               /\ \A i \in 0 .. IntBytes : p[i] \in Nat \ {0}
               /\ All = p[IntBytes]
  BY Powers
<1>2. All = 256 * p[IntBytes - 1] /\ p[IntBytes - 1] \in Nat \ {0}
  BY <1>1, IntBytesAssumption
<1> QED
  BY <1>2 DEF Half

\* s[k] is u without its last k bytes.
Shifted(u, s) ==
    /\ s[0] = u /\ s[IntBytes] = 0
    /\ \A k \in 0 .. IntBytes : s[k] \in Nat
    /\ \A k \in 1 .. IntBytes : s[k] = s[k - 1] \div 256
    /\ BigEndian(u) = [i \in 1 .. IntBytes |-> s[IntBytes - i] % 256]

LEMMA Shifts ==
    ASSUME NEW u \in 0 .. All - 1
    PROVE  \E s : Shifted(u, s)
<1>0. IntBytes \in Nat /\ u \in Nat
  BY IntBytesAssumption, SignBit
<1> DEFINE g == [x \in Nat |-> x \div 256]
           c == CHOOSE f : f = [k \in 0 .. IntBytes |-> IF k = 0 THEN u ELSE f[k - 1] \div 256]
<1>1. g \in [Nat -> Nat]
  OBVIOUS
<1>2. PICK f : Follows(Nat, u, g, IntBytes, f)
  <2> HIDE DEF g
  <2> QED
    BY <1>0, <1>1, Recursion, Zenon
<1>3. f = [k \in 0 .. IntBytes |-> IF k = 0 THEN u ELSE f[k - 1] \div 256]
  <2>1. ASSUME NEW k \in 0 .. IntBytes PROVE f[k] = IF k = 0 THEN u ELSE f[k - 1] \div 256
    <3>1. f[k] = IF k = 0 THEN u ELSE g[f[k - 1]]
      BY <1>2, Zenon DEF Follows
    <3>2. k # 0 => k - 1 \in 0 .. IntBytes
      BY <1>0
    <3>3. k # 0 => f[k - 1] \in Nat
      BY <1>2, <3>2, Zenon DEF Follows
    <3> QED
      BY <3>1, <3>3
  <2> QED
    BY <1>2, <2>1, Zenon DEF Follows
<1>4. c = [k \in 0 .. IntBytes |-> IF k = 0 THEN u ELSE c[k - 1] \div 256]
  BY <1>3, ZenonT(40)
<1>5. BigEndian(u) = [i \in 1 .. IntBytes |-> c[IntBytes - i] % 256]
  BY Zenon DEF BigEndian
<1> HIDE DEF c
<1>6. \A k \in 0 .. IntBytes : c[k] = IF k = 0 THEN u ELSE c[k - 1] \div 256
  BY <1>4, Zenon
<1>7. PICK p : /\ p[0] = 1 /\ \A i \in 1 .. IntBytes : p[i] = 256 * p[i - 1]
               /\ \A i \in 0 .. IntBytes : p[i] \in Nat \ {0}
               /\ All = p[IntBytes]
  BY Powers
<1> DEFINE T == {k \in 0 .. IntBytes : c[k] \in Nat /\ c[k] < p[IntBytes - k]}
<1>8. 0 .. IntBytes \subseteq T
  <2>1. 0 \in T
    BY <1>0, <1>6, <1>7
  <2>2. ASSUME NEW k \in 0 .. IntBytes - 1, k \in T PROVE k + 1 \in T
    <3>1. /\ k + 1 \in 0 .. IntBytes /\ k + 1 # 0 /\ (k + 1) - 1 = k /\ IntBytes - k \in 1 .. IntBytes
          /\ (IntBytes - k) - 1 = IntBytes - (k + 1) /\ IntBytes - (k + 1) \in 0 .. IntBytes
      BY <1>0
    <3>2. c[k + 1] = c[k] \div 256
      BY <1>6, <3>1
    <3>3. p[IntBytes - k] = 256 * p[IntBytes - (k + 1)] /\ p[IntBytes - (k + 1)] \in Nat
      BY <1>7, <3>1
    <3>4. c[k] \in Nat /\ c[k] < p[IntBytes - k]
      BY <2>2
    <3> QED
      BY <3>1, <3>2, <3>3, <3>4
  <2> HIDE DEF T
  <2> QED
    BY <1>0, <2>1, <2>2, CountUp
<1>9. c[IntBytes] = 0
  BY <1>0, <1>7, <1>8
<1>10. c[0] = u /\ \A k \in 1 .. IntBytes : c[k] = c[k - 1] \div 256
  BY <1>0, <1>6
<1>11. \A k \in 0 .. IntBytes : c[k] \in Nat
  BY <1>8
<1>12. Shifted(u, c)
  BY <1>5, <1>9, <1>10, <1>11, Zenon DEF Shifted
<1> QED
  BY <1>12

\* The bytes of an integer make it up again.
LEMMA BigEndianBytes ==
    ASSUME NEW u \in 0 .. All - 1
    PROVE  BigEndian(u) \in Seq(Byte) /\ Len(BigEndian(u)) = IntBytes
<1>1. PICK s : Shifted(u, s)
  BY Shifts
<1> DEFINE b == BigEndian(u)
<1>2. b = [i \in 1 .. IntBytes |-> s[IntBytes - i] % 256]
  BY <1>1, Zenon DEF Shifted
<1>3. \A i \in 1 .. IntBytes : s[IntBytes - i] \in Nat
  BY <1>1, IntBytesAssumption DEF Shifted
<1>4. IntBytes \in Nat
  BY IntBytesAssumption
<1> HIDE DEF b
<1>5. \A i \in 1 .. IntBytes : s[IntBytes - i] % 256 \in Byte
  BY <1>3 DEF Byte
<1>6. b \in Seq(Byte) /\ Len(b) = IntBytes
  BY <1>2, <1>4, <1>5
<1> QED
  BY <1>6 DEF b

LEMMA FromBigEndianOf ==
    ASSUME NEW u \in 0 .. All - 1
    PROVE  FromBigEndian(BigEndian(u)) = u
<1>1. PICK s : Shifted(u, s)
  BY Shifts
<1> DEFINE b == BigEndian(u)
           h == [n \in 0 .. IntBytes |-> s[IntBytes - n]]
           c == CHOOSE f : f = [n \in 0 .. Len(b) |-> IF n = 0 THEN 0 ELSE 256 * f[n - 1] + b[n]]
<1>2. FromBigEndian(b) = c[Len(b)]
  BY Zenon DEF FromBigEndian
<1>3. IntBytes \in Nat /\ Len(b) = IntBytes /\ b = [i \in 1 .. IntBytes |-> s[IntBytes - i] % 256]
  BY <1>1, BigEndianBytes, IntBytesAssumption, Zenon DEF Shifted
<1> HIDE DEF b
<1>4. ASSUME NEW n \in 0 .. IntBytes PROVE h[n] = IF n = 0 THEN 0 ELSE 256 * h[n - 1] + b[n]
  <2>1. CASE n = 0
    BY <1>1, <1>3, <2>1 DEF Shifted
  <2>2. CASE n # 0
    <3>1. /\ n - 1 \in 0 .. IntBytes /\ n \in 1 .. IntBytes /\ IntBytes - (n - 1) \in 1 .. IntBytes
          /\ (IntBytes - (n - 1)) - 1 = IntBytes - n /\ IntBytes - n \in 0 .. IntBytes
      BY <1>3, <2>2
    <3>2. s[IntBytes - (n - 1)] = s[IntBytes - n] \div 256 /\ s[IntBytes - n] \in Nat
      BY <1>1, <3>1 DEF Shifted
    <3>3. h[n] = s[IntBytes - n] /\ h[n - 1] = s[IntBytes - (n - 1)] /\ b[n] = s[IntBytes - n] % 256
      BY <1>3, <3>1
    <3> QED
      BY <2>2, <3>2, <3>3
  <2> QED
    BY <2>1, <2>2
<1>5. h = [n \in 0 .. IntBytes |-> IF n = 0 THEN 0 ELSE 256 * h[n - 1] + b[n]]
  BY <1>4, Zenon
<1>6. c = [n \in 0 .. IntBytes |-> IF n = 0 THEN 0 ELSE 256 * c[n - 1] + b[n]]
  BY <1>3, <1>5, Zenon
<1> HIDE DEF c, h
<1> DEFINE T == {n \in 0 .. IntBytes : c[n] = h[n]}
<1>7. 0 .. IntBytes \subseteq T
  <2>0. /\ \A n \in 0 .. IntBytes : c[n] = IF n = 0 THEN 0 ELSE 256 * c[n - 1] + b[n]
        /\ \A n \in 0 .. IntBytes : h[n] = IF n = 0 THEN 0 ELSE 256 * h[n - 1] + b[n]
    BY <1>4, <1>6, ZenonT(40)
  <2>1. 0 \in T
    <3>1. 0 \in 0 .. IntBytes
      BY <1>3
    <3> QED
      BY <2>0, <3>1, ZenonT(40)
  <2>2. ASSUME NEW n \in 0 .. IntBytes - 1, n \in T PROVE n + 1 \in T
    <3>1. n + 1 \in 0 .. IntBytes /\ n + 1 # 0 /\ (n + 1) - 1 = n
      BY <1>3
    <3>2. c[n] = h[n]
      BY <2>2
    <3> QED
      BY <2>0, <3>1, <3>2
  <2> HIDE DEF T
  <2> QED
    BY <1>3, <2>1, <2>2, CountUp, Zenon
<1>8. h[IntBytes] = u
  BY <1>1, <1>3 DEF h, Shifted
<1> QED
  BY <1>2, <1>3, <1>7, <1>8 DEF b

\* What an integer is encoded as lies Half above it, and comes back.
LEMMA IntCode ==
    ASSUME NEW n \in -Half .. Half - 1
    PROVE  /\ FlipSign(Unsigned(n)) \in 0 .. All - 1 /\ FlipSign(Unsigned(n)) = n + Half
           /\ Signed(FlipSign(FlipSign(Unsigned(n)))) = n
  BY SignBit DEF FlipSign, Unsigned, Signed

LEMMA FloatCode ==
    ASSUME NEW u \in (0 .. All - 1) \ {Half}
    PROVE  /\ FloatBits(u) \in 0 .. All - 1
           /\ FloatBits(u) = IF u < Half THEN Number(u) + Half ELSE Number(u) + Half - 1
           /\ u = IF FloatBits(u) < Half THEN All - 1 - FloatBits(u) ELSE FlipSign(FloatBits(u))
  BY SignBit DEF FloatBits, FlipSign, Number

(***************************************************************************)
(* Texts                                                                   *)
(***************************************************************************)

Escaped(x) == IF x = 0 THEN <<1, 1>> ELSE IF x = 1 THEN <<1, 2>> ELSE <<x>>

Pieces(s) == [i \in DOMAIN s |-> Escaped(s[i])]

LEMMA EscapeIsJoined ==
    ASSUME NEW s
    PROVE  escapeBytes(s) = Joined(Pieces(s))
  BY Zenon DEF escapeBytes, Pieces, Escaped

LEMMA EscapedType ==
    ASSUME NEW x \in Byte
    PROVE  Escaped(x) \in Seq(1 .. 255) /\ Escaped(x) # <<>>
<1>1. /\ x = 0 => Escaped(x) = <<1, 1>>
      /\ x = 1 => Escaped(x) = <<1, 2>>
      /\ x # 0 /\ x # 1 => Escaped(x) = <<x>> /\ x \in 1 .. 255
  BY DEF Escaped, Byte
<1>2. <<1, 1>> \in Seq(1 .. 255) /\ <<1, 2>> \in Seq(1 .. 255) /\ <<1, 1>> # <<>> /\ <<1, 2>> # <<>>
  OBVIOUS
<1>3. x \in 1 .. 255 => <<x>> \in Seq(1 .. 255) /\ <<x>> # <<>>
  OBVIOUS
<1> QED
  BY <1>1, <1>2, <1>3, Zenon

LEMMA PiecesType ==
    ASSUME NEW s \in Seq(Byte)
    PROVE  Pieces(s) \in Seq(Seq(1 .. 255)) /\ Len(Pieces(s)) = Len(s) /\ \A i \in 1 .. Len(s) : Pieces(s)[i] = Escaped(s[i])
<1>1. ASSUME NEW i \in DOMAIN s PROVE Escaped(s[i]) \in Seq(1 .. 255)
  <2>1. s[i] \in Byte
    OBVIOUS
  <2> QED
    BY <2>1, EscapedType
<1> DEFINE p == [i \in 1 .. Len(s) |-> Escaped(s[i])]
<1>2. DOMAIN s = 1 .. Len(s) /\ Len(s) \in Nat
  OBVIOUS
<1>3. Pieces(s) = p
  BY <1>2, Zenon DEF Pieces
<1>4. p \in Seq(Seq(1 .. 255)) /\ Len(p) = Len(s) /\ \A i \in 1 .. Len(s) : p[i] = Escaped(s[i])
  BY <1>1, <1>2
<1> QED
  BY <1>3, <1>4, Zenon

\* No escaped byte is zero, so the zero behind them is the end.
LEMMA EscapedBytes ==
    ASSUME NEW s \in Seq(Byte)
    PROVE  escapeBytes(s) \in Seq(1 .. 255)
  BY PiecesType, MadeEnds, EscapeIsJoined, Zenon

\* The lengths of what the first pieces make.
LEMMA PiecesGrow ==
    ASSUME NEW S, NEW parts \in Seq(Seq(S)), \A i \in 1 .. Len(parts) : parts[i] # <<>>, NEW n \in 0 .. Len(parts)
    PROVE  Len(Made(parts, n)) >= n /\ Len(Made(parts, n)) \in Nat
<1> DEFINE T == {k \in 0 .. Len(parts) : Len(Made(parts, k)) >= k /\ Len(Made(parts, k)) \in Nat}
<1>0. Len(parts) \in Nat
  OBVIOUS
<1>1. 0 \in T
  <2>1. Made(parts, 0) = <<>> /\ 0 \in 0 .. Len(parts)
    BY <1>0, MadeEnds
  <2> QED
    BY <2>1
<1>2. ASSUME NEW k \in 0 .. Len(parts) - 1, k \in T PROVE k + 1 \in T
  <2>1. k + 1 \in 0 .. Len(parts) /\ k + 1 \in 1 .. Len(parts)
    BY <1>0
  <2>2. PICK m, p : m = Made(parts, k) /\ p = parts[k + 1]
    OBVIOUS
  <2>3. Made(parts, k + 1) = m \o p /\ m \in Seq(S)
    BY <2>2, MadeStep, Zenon
  <2>4. p \in Seq(S) /\ p # <<>>
    BY <2>1, <2>2
  <2>5. Len(m \o p) = Len(m) + Len(p) /\ Len(p) >= 1 /\ Len(m) \in Nat /\ Len(p) \in Nat
    BY <2>3, <2>4
  <2>6. Len(m) >= k
    BY <1>2, <2>2
  <2> QED
    BY <2>1, <2>3, <2>5, <2>6
<1> HIDE DEF T
<1>3. n \in T
  BY <1>0, <1>1, <1>2, CountUp, Zenon
<1> QED
  BY <1>3 DEF T

\* The state of unescapeBytes after n turns.
Unescaped(s, n) == [at |-> Len(Made(Pieces(s), n)) + 1, out |-> SubSeq(s, 1, n)]

\* One turn, with what is before the byte, its piece and what is behind.
TurnsOver(x, m, r, out) ==
    unescapeTurn(m \o (Escaped(x) \o r), [at |-> Len(m) + 1, out |-> out])
      = [at |-> Len(m) + Len(Escaped(x)) + 1, out |-> Append(out, x)]

LEMMA TurnOver ==
    ASSUME NEW x \in Byte, NEW m \in Seq(1 .. 255), NEW r \in Seq(1 .. 255), NEW out
    PROVE  TurnsOver(x, m, r, out)
<1>0. PICK e, in, st : e = Escaped(x) /\ in = m \o (e \o r) /\ st = [at |-> Len(m) + 1, out |-> out]
  BY Zenon
<1>1. st.at = Len(m) + 1 /\ st.out = out /\ Len(m) \in Nat
  BY <1>0
<1>2. CASE x = 0
  <2>1. e = <<1, 1>>
    BY <1>0, <1>2 DEF Escaped
  <2>2. Len(in) \in Nat /\ Len(in) >= Len(m) + 2 /\ in[Len(m) + 1] = 1 /\ in[(Len(m) + 1) + 1] = 1 /\ Len(e) = 2
    BY <1>0, <2>1
  <2>3. unescapeTurn(in, st) = [at |-> Len(m) + Len(e) + 1, out |-> Append(out, x)]
    BY <1>1, <1>2, <2>2 DEF unescapeTurn
  <2> QED
    BY <1>0, <2>3, Zenon DEF TurnsOver
<1>3. CASE x = 1
  <2>1. e = <<1, 2>>
    BY <1>0, <1>3 DEF Escaped
  <2>2. Len(in) \in Nat /\ Len(in) >= Len(m) + 2 /\ in[Len(m) + 1] = 1 /\ in[(Len(m) + 1) + 1] = 2 /\ Len(e) = 2
    BY <1>0, <2>1
  <2>3. unescapeTurn(in, st) = [at |-> Len(m) + Len(e) + 1, out |-> Append(out, x)]
    BY <1>1, <1>3, <2>2 DEF unescapeTurn
  <2> QED
    BY <1>0, <2>3, Zenon DEF TurnsOver
<1>4. CASE x # 0 /\ x # 1
  <2>1. e = <<x>>
    BY <1>0, <1>4 DEF Escaped
  <2>2. Len(in) \in Nat /\ Len(in) >= Len(m) + 1 /\ in[Len(m) + 1] = x /\ Len(e) = 1
    BY <1>0, <2>1 DEF Byte
  <2>3. unescapeTurn(in, st) = [at |-> Len(m) + Len(e) + 1, out |-> Append(out, x)]
    BY <1>1, <1>4, <2>2 DEF unescapeTurn
  <2> QED
    BY <1>0, <2>3, Zenon DEF TurnsOver
<1> QED
  BY <1>2, <1>3, <1>4

LEMMA UnescapeTurn ==
    ASSUME NEW s \in Seq(Byte), NEW n \in 0 .. Len(s) - 1
    PROVE  unescapeTurn(escapeBytes(s), Unescaped(s, n)) = Unescaped(s, n + 1)
<1>1. Pieces(s) \in Seq(Seq(1 .. 255)) /\ n \in 0 .. Len(Pieces(s)) - 1 /\ n + 1 \in 1 .. Len(s)
  BY PiecesType
<1>2. s[n + 1] \in Byte /\ SubSeq(s, 1, n + 1) = Append(SubSeq(s, 1, n), s[n + 1])
  BY FrontAppend, Zenon
<1>3. PICK x, m, e, out : x = s[n + 1] /\ m = Made(Pieces(s), n) /\ e = Escaped(x) /\ out = SubSeq(s, 1, n)
  BY Zenon
<1>4. Pieces(s)[n + 1] = e
  BY <1>1, <1>3, PiecesType
<1>5. PICK r \in Seq(1 .. 255) : Joined(Pieces(s)) = m \o (e \o r)
  <2>1. Splits(1 .. 255, Joined(Pieces(s)), m, e)
    BY <1>1, <1>3, <1>4, MadeSplit, ZenonT(40)
  <2> QED
    BY <2>1, Zenon DEF Splits
<1>6. m \in Seq(1 .. 255) /\ e \in Seq(1 .. 255) /\ x \in Byte
  BY <1>1, <1>2, <1>3, MadeStep, EscapedType, Zenon
<1>7. unescapeTurn(m \o (e \o r), [at |-> Len(m) + 1, out |-> out])
        = [at |-> Len(m) + Len(e) + 1, out |-> Append(out, x)]
  <2>1. TurnsOver(x, m, r, out)
    BY <1>6, TurnOver, Zenon
  <2> QED
    BY <1>3, <2>1, Zenon DEF TurnsOver
<1>8. Made(Pieces(s), n + 1) = m \o e
  BY <1>1, <1>3, <1>4, MadeStep, ZenonT(40)
<1>9. Len(m \o e) = Len(m) + Len(e)
  BY <1>6
<1>10. escapeBytes(s) = m \o (e \o r)
  BY <1>5, EscapeIsJoined, Zenon
<1>11. Unescaped(s, n) = [at |-> Len(m) + 1, out |-> out]
  BY <1>3, Zenon DEF Unescaped
<1>12. Unescaped(s, n + 1) = [at |-> Len(m) + Len(e) + 1, out |-> Append(out, x)]
  BY <1>2, <1>3, <1>8, <1>9, Zenon DEF Unescaped
<1> QED
  BY <1>7, <1>10, <1>11, <1>12, Zenon

\* A text is read back as it was.
LEMMA UnescapeOf ==
    ASSUME NEW s \in Seq(Byte)
    PROVE  unescapeBytes(escapeBytes(s)) = s
<1> DEFINE in == escapeBytes(s)
           l == Len(s)
           h == [n \in 0 .. Len(in) |-> Unescaped(s, IF n <= l THEN n ELSE l)]
           c == CHOOSE f : f = [n \in 0 .. Len(in) |-> IF n = 0 THEN [at |-> 1, out |-> <<>>]
                                                       ELSE unescapeTurn(in, f[n - 1])]
<1>1. unescapeBytes(in) = c[Len(in)].out
  BY Zenon DEF unescapeBytes
<1>2. /\ Pieces(s) \in Seq(Seq(1 .. 255)) /\ Len(Pieces(s)) = l /\ l \in Nat /\ l \in 0 .. l
      /\ in \in Seq(1 .. 255) /\ Len(in) \in Nat
  BY PiecesType, EscapedBytes
<1>3. Made(Pieces(s), 0) = <<>> /\ Made(Pieces(s), l) = in
  BY <1>2, MadeEnds, EscapeIsJoined, Zenon
<1>4. Len(in) >= l
  <2>1. \A i \in 1 .. Len(Pieces(s)) : Pieces(s)[i] # <<>>
    <3> SUFFICES ASSUME NEW i \in 1 .. l PROVE Pieces(s)[i] # <<>>
      BY <1>2
    <3>1. Pieces(s)[i] = Escaped(s[i]) /\ s[i] \in Byte
      BY PiecesType
    <3> QED
      BY <3>1, EscapedType
  <2>2. Len(Made(Pieces(s), l)) >= l
    BY <1>2, <2>1, PiecesGrow, Zenon
  <2> QED
    BY <1>3, <2>2
<1>5. Unescaped(s, 0) = [at |-> 1, out |-> <<>>]
  <2>1. SubSeq(s, 1, 0) = <<>> /\ Len(<<>>) + 1 = 1
    OBVIOUS
  <2> QED
    BY <1>3, <2>1, Zenon DEF Unescaped
<1>6. unescapeTurn(in, Unescaped(s, l)) = Unescaped(s, l)
  <2>1. Unescaped(s, l).at = Len(in) + 1
    BY <1>3 DEF Unescaped
  <2>2. Unescaped(s, l).at > Len(in)
    BY <1>2, <2>1
  <2> QED
    BY <2>2, Zenon DEF unescapeTurn
<1> HIDE DEF in
<1>7. ASSUME NEW n \in 0 .. Len(in)
      PROVE  h[n] = IF n = 0 THEN [at |-> 1, out |-> <<>>] ELSE unescapeTurn(in, h[n - 1])
  <2>0. h[n] = Unescaped(s, IF n <= l THEN n ELSE l)
    OBVIOUS
  <2>1. CASE n = 0
    BY <1>2, <1>5, <2>0, <2>1
  <2>2. CASE n # 0 /\ n <= l
    <3>1. n - 1 \in 0 .. Len(in) /\ n - 1 <= l /\ n - 1 \in 0 .. Len(s) - 1 /\ (n - 1) + 1 = n
      BY <1>2, <2>2
    <3>2. h[n - 1] = Unescaped(s, n - 1)
      BY <3>1
    <3>3. unescapeTurn(in, Unescaped(s, n - 1)) = Unescaped(s, n)
      BY <3>1, UnescapeTurn, Zenon DEF in
    <3> QED
      BY <2>0, <2>2, <3>2, <3>3, Zenon
  <2>3. CASE n # 0 /\ ~(n <= l)
    <3>1. n - 1 \in 0 .. Len(in) /\ (n - 1 <= l => n - 1 = l)
      BY <1>2, <2>3
    <3>2. h[n - 1] = Unescaped(s, l)
      BY <3>1
    <3> QED
      BY <1>6, <2>0, <2>3, <3>2, Zenon
  <2> QED
    BY <2>1, <2>2, <2>3
<1>8. h = [n \in 0 .. Len(in) |-> IF n = 0 THEN [at |-> 1, out |-> <<>>] ELSE unescapeTurn(in, h[n - 1])]
  BY <1>7, Zenon
<1>9. c = [n \in 0 .. Len(in) |-> IF n = 0 THEN [at |-> 1, out |-> <<>>] ELSE unescapeTurn(in, c[n - 1])]
  BY <1>8, Zenon
<1>10. h[Len(in)] = Unescaped(s, l)
  BY <1>2, <1>4
<1> HIDE DEF c, h
<1> DEFINE T == {n \in 0 .. Len(in) : c[n] = h[n]}
<1>11. 0 .. Len(in) \subseteq T
  <2>0. /\ \A n \in 0 .. Len(in) : c[n] = IF n = 0 THEN [at |-> 1, out |-> <<>>] ELSE unescapeTurn(in, c[n - 1])
        /\ \A n \in 0 .. Len(in) : h[n] = IF n = 0 THEN [at |-> 1, out |-> <<>>] ELSE unescapeTurn(in, h[n - 1])
    BY <1>7, <1>9, Zenon
  <2>1. 0 \in T
    <3>1. 0 \in 0 .. Len(in)
      BY <1>2
    <3> QED
      BY <2>0, <3>1, Zenon
  <2>2. ASSUME NEW n \in 0 .. Len(in) - 1, n \in T PROVE n + 1 \in T
    <3>1. n + 1 \in 0 .. Len(in) /\ n + 1 # 0 /\ (n + 1) - 1 = n
      BY <1>2
    <3>2. c[n] = h[n]
      BY <2>2
    <3> QED
      BY <2>0, <3>1, <3>2, Zenon
  <2> HIDE DEF T
  <2> QED
    BY <1>2, <2>1, <2>2, CountUp, Zenon
<1>12. Len(in) \in 0 .. Len(in)
  BY <1>2
<1>13. c[Len(in)] = Unescaped(s, l)
  BY <1>10, <1>11, <1>12, Zenon
<1>14. Unescaped(s, l).out = s
  <2>1. SubSeq(s, 1, l) = s
    OBVIOUS
  <2> QED
    BY <2>1 DEF Unescaped
<1> QED
  BY <1>1, <1>13, <1>14, Zenon DEF in

(***************************************************************************)
(* One value                                                               *)
(***************************************************************************)

IsInt(v)   == v.type = TypeInt64 /\ v.i64 \in -Half .. Half - 1 /\ v = I64(v.i64)
IsBytes(v) == v.type = TypeBytes /\ v.str \in Seq(Byte) /\ v = Bytes(v.str)
IsBool(v)  == v.type = TypeBool /\ v.bool \in BOOLEAN /\ v = Bool(v.bool)
IsFloat(v) == v.type = TypeFloat64 /\ v.bits \in (0 .. All - 1) \ {Half} /\ v = Float(v.bits)

LEMMA ValueCases ==
    ASSUME NEW v \in Values
    PROVE  IsInt(v) \/ IsBytes(v) \/ IsBool(v) \/ IsFloat(v)
<1>1. CASE v \in [type : {TypeInt64}, i64 : -Half .. Half - 1]
  BY <1>1 DEF IsInt, I64
<1>2. CASE v \in [type : {TypeBytes}, str : Seq(Byte)]
  BY <1>2 DEF IsBytes, Bytes
<1>3. CASE v \in [type : {TypeBool}, bool : BOOLEAN]
  BY <1>3, Zenon DEF IsBool, Bool
<1>4. CASE v \in [type : {TypeFloat64}, bits : (0 .. All - 1) \ {Half}]
  BY <1>4 DEF IsFloat, Float
<1> QED
  BY <1>1, <1>2, <1>3, <1>4, Zenon DEF Values

LEMMA TypeCases ==
    ASSUME NEW v \in Values
    PROVE  /\ v.type \in {1, 2, 3, 4}
           /\ v.type = 1 => IsInt(v)
           /\ v.type = 2 => IsBytes(v)
           /\ v.type = 3 => IsBool(v)
           /\ v.type = 4 => IsFloat(v)
<1>1. /\ IsInt(v) => v.type = 1
      /\ IsBytes(v) => v.type = 2
      /\ IsBool(v) => v.type = 3
      /\ IsFloat(v) => v.type = 4
  BY Zenon DEF IsInt, IsBytes, IsBool, IsFloat, TypeInt64, TypeBytes, TypeBool, TypeFloat64
<1>2. 1 # 2 /\ 1 # 3 /\ 1 # 4 /\ 2 # 3 /\ 2 # 4 /\ 3 # 4
  OBVIOUS
<1> QED
  BY <1>1, <1>2, ValueCases, Zenon

\* What EncodeValue makes of each.
LEMMA EncodedForm ==
    ASSUME NEW v
    PROVE  /\ IsInt(v) => EncodeValue(v) = <<1>> \o BigEndian(FlipSign(Unsigned(v.i64)))
           /\ IsBytes(v) => EncodeValue(v) = <<2>> \o Append(escapeBytes(v.str), 0)
           /\ IsBool(v) => EncodeValue(v) = <<3>> \o <<IF v.bool THEN 1 ELSE 0>>
           /\ IsFloat(v) => EncodeValue(v) = <<4>> \o BigEndian(FloatBits(v.bits))
<1>1. ASSUME v.type = 1 PROVE EncodeValue(v) = <<1>> \o BigEndian(FlipSign(Unsigned(v.i64)))
  BY <1>1 DEF EncodeValue, TypeInt64, TypeBytes, TypeBool, TypeFloat64
<1>2. ASSUME v.type = 2 PROVE EncodeValue(v) = <<2>> \o Append(escapeBytes(v.str), 0)
  BY <1>2 DEF EncodeValue, TypeInt64, TypeBytes, TypeBool, TypeFloat64
<1>3. ASSUME v.type = 3 PROVE EncodeValue(v) = <<3>> \o <<IF v.bool THEN 1 ELSE 0>>
  BY <1>3 DEF EncodeValue, TypeInt64, TypeBytes, TypeBool, TypeFloat64
<1>4. ASSUME v.type = 4 PROVE EncodeValue(v) = <<4>> \o BigEndian(FloatBits(v.bits))
  BY <1>4 DEF EncodeValue, TypeInt64, TypeBytes, TypeBool, TypeFloat64
<1> QED
  BY <1>1, <1>2, <1>3, <1>4, Zenon DEF IsInt, IsBytes, IsBool, IsFloat, TypeInt64, TypeBytes, TypeBool, TypeFloat64

\* Sequences with the same elements are the same.
LEMMA SameSeq ==
    ASSUME NEW S, NEW x \in Seq(S), NEW y \in Seq(S), Len(x) = Len(y), \A i \in 1 .. Len(y) : x[i] = y[i]
    PROVE  x = y
OBVIOUS

\* The parts of an encoded value that others follow.
Parted(S, t, b, r, in) ==
    /\ in \in Seq(S) /\ Len(in) = 1 + Len(b) + Len(r) /\ Len(<<t>> \o b) = 1 + Len(b)
    /\ in[1] = t /\ \A i \in 1 .. Len(b) : in[i + 1] = b[i]
    /\ SubSeq(in, 2, 1 + Len(b)) = b

LEMMA HeadParts ==
    ASSUME NEW S, NEW t \in S, NEW b \in Seq(S), NEW r \in Seq(S)
    PROVE  Parted(S, t, b, r, (<<t>> \o b) \o r)
<1>1. PICK a, in : a = <<t>> \o b /\ in = a \o r
  BY Zenon
<1>2. a \in Seq(S) /\ Len(a) = 1 + Len(b) /\ a[1] = t /\ \A i \in 1 .. Len(b) : a[i + 1] = b[i]
  BY <1>1
<1>4. /\ in \in Seq(S) /\ Len(in) = Len(a) + Len(r)
      /\ \A i \in 1 .. Len(a) : in[i] = a[i]
      /\ \A i \in 1 .. Len(r) : in[Len(a) + i] = r[i]
  BY <1>1, <1>2
<1>5. in[1] = t /\ \A i \in 1 .. Len(b) : in[i + 1] = b[i]
  BY <1>2, <1>4
<1>6. SubSeq(in, 2, 1 + Len(b)) = b
  <2>1. PICK x : x = SubSeq(in, 2, 1 + Len(b))
    BY Zenon
  <2>2. x \in Seq(S) /\ Len(x) = Len(b) /\ \A i \in 1 .. Len(b) : x[i] = in[i + 1]
    BY <1>2, <1>4, <2>1
  <2>3. \A i \in 1 .. Len(b) : x[i] = b[i]
    BY <1>5, <2>2
  <2>4. x = b
    BY <2>2, <2>3, SameSeq, Zenon
  <2> QED
    BY <2>1, <2>4
<1>7. Len(in) = 1 + Len(b) + Len(r)
  BY <1>2, <1>4
<1>8. Parted(S, t, b, r, in)
  BY <1>1, <1>2, <1>4, <1>5, <1>6, <1>7, Zenon DEF Parted
<1> QED
  BY <1>1, <1>8, Zenon

\* A value is decoded as it was encoded, whatever follows, and as long as it is.
Decodes(v, r) == DecodeValue(EncodeValue(v) \o r) = <<v, Len(EncodeValue(v))>>

\* DecodeValue, by the type it finds.
LEMMA DecodedForm ==
    ASSUME NEW in, NEW b, NEW u, b = SubSeq(in, 2, 1 + IntBytes), u = FromBigEndian(b)
    PROVE  /\ in[1] = 1 => DecodeValue(in) = <<I64(Signed(FlipSign(u))), 1 + IntBytes>>
           /\ in[1] = 3 => DecodeValue(in) = <<Bool(in[2] # 0), 2>>
           /\ in[1] = 4 => DecodeValue(in) = <<Float(IF u < Half THEN All - 1 - u ELSE FlipSign(u)), 1 + IntBytes>>
<1>1. ASSUME in[1] = 1 PROVE DecodeValue(in) = <<I64(Signed(FlipSign(u))), 1 + IntBytes>>
  BY <1>1 DEF DecodeValue, TypeInt64, TypeBytes, TypeBool, TypeFloat64
<1>2. ASSUME in[1] = 3 PROVE DecodeValue(in) = <<Bool(in[2] # 0), 2>>
  BY <1>2 DEF DecodeValue, TypeInt64, TypeBytes, TypeBool, TypeFloat64
<1>3. ASSUME in[1] = 4
      PROVE  DecodeValue(in) = <<Float(IF u < Half THEN All - 1 - u ELSE FlipSign(u)), 1 + IntBytes>>
  BY <1>3 DEF DecodeValue, TypeInt64, TypeBytes, TypeBool, TypeFloat64
<1> QED
  BY <1>1, <1>2, <1>3, Zenon

LEMMA DecodedBytes ==
    ASSUME NEW in, in[1] = 2, NEW n \in DOMAIN in, DOMAIN in \subseteq Nat,
           n > 1, in[n] = 0, \A m \in 2 .. n - 1 : in[m] # 0
    PROVE  DecodeValue(in) = <<Bytes(unescapeBytes(SubSeq(in, 2, n - 1))), n>>
<1> DEFINE end == CHOOSE k \in DOMAIN in : k > 1 /\ in[k] = 0 /\ \A m \in 2 .. k - 1 : in[m] # 0
<1>1. DecodeValue(in) = <<Bytes(unescapeBytes(SubSeq(in, 2, end - 1))), end>>
  BY DEF DecodeValue, TypeInt64, TypeBytes, TypeBool, TypeFloat64
<1>2. end \in DOMAIN in /\ end > 1 /\ in[end] = 0 /\ \A m \in 2 .. end - 1 : in[m] # 0
  OBVIOUS
<1> HIDE DEF end
<1>3. end = n
  <2>1. end \in Nat /\ n \in Nat
    BY <1>2
  <2>2. ~(n < end)
    BY <1>2, <2>1
  <2>3. ~(end < n)
    BY <1>2, <2>1
  <2> QED
    BY <2>1, <2>2, <2>3
<1> QED
  BY <1>1, <1>3, Zenon

LEMMA ElementsOf ==
    ASSUME NEW S, NEW x \in Seq(S)
    PROVE  \A i \in 1 .. Len(x) : x[i] \in S
OBVIOUS

LEMMA SeqIn ==
    ASSUME NEW S, NEW T, S \subseteq T, NEW x \in Seq(S)
    PROVE  x \in Seq(T)
OBVIOUS

LEMMA NonZero ==
    ASSUME NEW x \in Seq(1 .. 255)
    PROVE  x \in Seq(Byte) /\ \A i \in 1 .. Len(x) : x[i] # 0
<1>1. \A i \in 1 .. Len(x) : x[i] \in 1 .. 255
  BY ElementsOf, Zenon
<1>2. \A k \in 1 .. 255 : k \in Byte /\ k # 0
  BY DEF Byte
<1>3. \A i \in 1 .. Len(x) : x[i] \in Byte /\ x[i] # 0
  BY <1>1, <1>2, Zenon
<1>4. x = [i \in 1 .. Len(x) |-> x[i]] /\ Len(x) \in Nat
  OBVIOUS
<1> QED
  BY <1>3, <1>4

LEMMA DecodeOf ==
    ASSUME NEW v \in Values, NEW r \in Seq(Byte)
    PROVE  Decodes(v, r) /\ EncodeValue(v) \in Seq(Byte) /\ EncodeValue(v) # <<>>
<1> DEFINE b == SubSeq(EncodeValue(v) \o r, 2, 1 + IntBytes)
<1>0. IntBytes \in Nat \ {0} /\ 1 \in Byte /\ 2 \in Byte /\ 3 \in Byte /\ 4 \in Byte /\ 0 \in Byte
  BY IntBytesAssumption DEF Byte
<1>1. CASE IsInt(v)
  <2>1. PICK u, e, in : u = FlipSign(Unsigned(v.i64)) /\ e = BigEndian(u) /\ in = (<<1>> \o e) \o r
    BY Zenon
  <2>2. u \in 0 .. All - 1 /\ Signed(FlipSign(u)) = v.i64 /\ v = I64(v.i64)
    BY <1>1, <2>1, IntCode, Zenon DEF IsInt
  <2>3. e \in Seq(Byte) /\ Len(e) = IntBytes /\ FromBigEndian(e) = u
    BY <2>1, <2>2, BigEndianBytes, FromBigEndianOf, Zenon
  <2>4. EncodeValue(v) = <<1>> \o e
    BY <1>1, <2>1, EncodedForm, Zenon
  <2>5. Len(<<1>> \o e) = 1 + IntBytes /\ in[1] = 1 /\ SubSeq(in, 2, 1 + IntBytes) = e
    <3>1. Parted(Byte, 1, e, r, in)
      BY <1>0, <2>1, <2>3, HeadParts, Zenon
    <3> QED
      BY <2>3, <3>1, Zenon DEF Parted
  <2>6. DecodeValue(in) = <<v, 1 + IntBytes>>
    BY <2>2, <2>3, <2>5, DecodedForm, Zenon
  <2>7. <<1>> \o e \in Seq(Byte) /\ <<1>> \o e # <<>>
    BY <1>0, <2>3
  <2> QED
    BY <2>1, <2>4, <2>5, <2>6, <2>7, Zenon DEF Decodes
<1>2. CASE IsFloat(v)
  <2>1. PICK u, e, in : u = FloatBits(v.bits) /\ e = BigEndian(u) /\ in = (<<4>> \o e) \o r
    BY Zenon
  <2>2. u \in 0 .. All - 1 /\ v.bits = (IF u < Half THEN All - 1 - u ELSE FlipSign(u)) /\ v = Float(v.bits)
    BY <1>2, <2>1, FloatCode, Zenon DEF IsFloat
  <2>3. e \in Seq(Byte) /\ Len(e) = IntBytes /\ FromBigEndian(e) = u
    BY <2>1, <2>2, BigEndianBytes, FromBigEndianOf, Zenon
  <2>4. EncodeValue(v) = <<4>> \o e
    BY <1>2, <2>1, EncodedForm, Zenon
  <2>5. Len(<<4>> \o e) = 1 + IntBytes /\ in[1] = 4 /\ SubSeq(in, 2, 1 + IntBytes) = e
    <3>1. Parted(Byte, 4, e, r, in)
      BY <1>0, <2>1, <2>3, HeadParts, Zenon
    <3> QED
      BY <2>3, <3>1, Zenon DEF Parted
  <2>6. DecodeValue(in) = <<v, 1 + IntBytes>>
    BY <2>2, <2>3, <2>5, DecodedForm, Zenon
  <2>7. <<4>> \o e \in Seq(Byte) /\ <<4>> \o e # <<>>
    BY <1>0, <2>3
  <2> QED
    BY <2>1, <2>4, <2>5, <2>6, <2>7, Zenon DEF Decodes
<1>3. CASE IsBool(v)
  <2>1. PICK e, in : e = <<IF v.bool THEN 1 ELSE 0>> /\ in = (<<3>> \o e) \o r
    BY Zenon
  <2>2. e \in Seq(Byte) /\ Len(e) = 1 /\ e[1] = IF v.bool THEN 1 ELSE 0
    BY <1>0, <2>1
  <2>3. EncodeValue(v) = <<3>> \o e
    BY <1>3, <2>1, EncodedForm, Zenon
  <2>4. Len(<<3>> \o e) = 1 + Len(e) /\ in[1] = 3 /\ \A i \in 1 .. Len(e) : in[i + 1] = e[i]
    <3>1. Parted(Byte, 3, e, r, in)
      BY <1>0, <2>1, <2>2, HeadParts, Zenon
    <3> QED
      BY <3>1, Zenon DEF Parted
  <2>5. Len(<<3>> \o e) = 2 /\ in[2] = IF v.bool THEN 1 ELSE 0
    BY <2>2, <2>4
  <2>6. DecodeValue(in) = <<Bool(in[2] # 0), 2>>
    BY <2>4, DecodedForm, Zenon
  <2>7. (in[2] # 0) = v.bool /\ v = Bool(v.bool)
    <3>1. v.bool \in BOOLEAN /\ v = Bool(v.bool) /\ 1 # 0
      BY <1>3 DEF IsBool
    <3>2. (in[2] # 0) <=> v.bool
      BY <2>5
    <3> QED
      BY <3>1, <3>2, Zenon
  <2>8. DecodeValue(in) = <<v, 2>>
    BY <2>6, <2>7, Zenon
  <2>9. <<3>> \o e \in Seq(Byte) /\ <<3>> \o e # <<>>
    BY <1>0, <2>2
  <2> QED
    BY <2>1, <2>3, <2>5, <2>8, <2>9, Zenon DEF Decodes
<1>4. CASE IsBytes(v)
  <2>1. PICK x, e, in : x = escapeBytes(v.str) /\ e = Append(x, 0) /\ in = (<<2>> \o e) \o r
    BY Zenon
  <2>2. x \in Seq(1 .. 255) /\ unescapeBytes(x) = v.str /\ v = Bytes(v.str)
    BY <1>4, <2>1, EscapedBytes, UnescapeOf, Zenon DEF IsBytes
  <2>3. /\ x \in Seq(Byte) /\ e \in Seq(Byte) /\ Len(e) = Len(x) + 1 /\ e[Len(x) + 1] = 0 /\ Len(x) \in Nat
        /\ \A i \in 1 .. Len(x) : e[i] = x[i] /\ x[i] # 0
    <3>1. x \in Seq(Byte) /\ \A i \in 1 .. Len(x) : x[i] # 0
      BY <2>2, NonZero, Zenon
    <3> QED
      BY <1>0, <2>1, <3>1
  <2>4. EncodeValue(v) = <<2>> \o e
    BY <1>4, <2>1, EncodedForm, Zenon
  <2>5. /\ in \in Seq(Byte) /\ Len(in) = 1 + Len(e) + Len(r) /\ Len(<<2>> \o e) = 1 + Len(e) /\ in[1] = 2
        /\ \A i \in 1 .. Len(e) : in[i + 1] = e[i]
    <3>1. Parted(Byte, 2, e, r, in)
      BY <1>0, <2>1, <2>3, HeadParts, Zenon
    <3> QED
      BY <3>1, Zenon DEF Parted
  <2>6. PICK n : n = Len(x) + 2
    OBVIOUS
  <2>7. n \in DOMAIN in /\ DOMAIN in \subseteq Nat /\ n > 1 /\ in[n] = 0
    BY <2>3, <2>5, <2>6
  <2>8. ASSUME NEW m \in 2 .. n - 1 PROVE in[m] # 0
    <3>1. m - 1 \in 1 .. Len(x) /\ m - 1 \in 1 .. Len(e) /\ (m - 1) + 1 = m
      BY <2>3, <2>6
    <3>2. in[(m - 1) + 1] = e[m - 1] /\ e[m - 1] # 0
      BY <2>3, <2>5, <3>1, Zenon
    <3> QED
      BY <3>1, <3>2, Zenon
  <2>9. DecodeValue(in) = <<Bytes(unescapeBytes(SubSeq(in, 2, n - 1))), n>>
    BY <2>5, <2>7, <2>8, DecodedBytes, Zenon
  <2>10. SubSeq(in, 2, n - 1) = x
    <3>1. PICK y : y = SubSeq(in, 2, n - 1)
      BY Zenon
    <3>2. y \in Seq(Byte) /\ Len(y) = Len(x) /\ \A i \in 1 .. Len(x) : y[i] = in[i + 1]
      BY <2>3, <2>5, <2>6, <3>1
    <3>3. \A i \in 1 .. Len(x) : y[i] = x[i]
      <4>1. \A i \in 1 .. Len(x) : i \in 1 .. Len(e)
        BY <2>3
      <4> QED
        BY <2>3, <2>5, <3>2, <4>1, Zenon
    <3>4. y = x
      BY <2>3, <3>2, <3>3, SameSeq, Zenon
    <3> QED
      BY <3>1, <3>4
  <2>11. n = Len(<<2>> \o e)
    BY <2>3, <2>5, <2>6
  <2>12. <<2>> \o e \in Seq(Byte) /\ <<2>> \o e # <<>>
    BY <1>0, <2>3
  <2> QED
    BY <2>1, <2>2, <2>4, <2>9, <2>10, <2>11, <2>12, Zenon DEF Decodes
<1> QED
  BY <1>1, <1>2, <1>3, <1>4, ValueCases, Zenon

(***************************************************************************)
(* Several values                                                          *)
(***************************************************************************)

Codes(vals) == [i \in DOMAIN vals |-> EncodeValue(vals[i])]

LEMMA CodesType ==
    ASSUME NEW vals \in Seq(Values)
    PROVE  /\ Codes(vals) \in Seq(Seq(Byte)) /\ Len(Codes(vals)) = Len(vals)
           /\ \A i \in 1 .. Len(vals) : Codes(vals)[i] = EncodeValue(vals[i])
           /\ \A i \in 1 .. Len(Codes(vals)) : Codes(vals)[i] # <<>>
           /\ EncodeValues(vals) = Joined(Codes(vals))
<1> DEFINE p == [i \in 1 .. Len(vals) |-> EncodeValue(vals[i])]
<1>1. DOMAIN vals = 1 .. Len(vals) /\ Len(vals) \in Nat /\ <<>> \in Seq(Byte)
  OBVIOUS
<1>2. \A i \in 1 .. Len(vals) : vals[i] \in Values
  BY ElementsOf, Zenon
<1>3. \A i \in 1 .. Len(vals) : EncodeValue(vals[i]) \in Seq(Byte) /\ EncodeValue(vals[i]) # <<>>
  BY <1>1, <1>2, DecodeOf, Zenon
<1>4. Codes(vals) = p
  BY <1>1, Zenon DEF Codes
<1>5. p \in Seq(Seq(Byte)) /\ Len(p) = Len(vals) /\ \A i \in 1 .. Len(vals) : p[i] = EncodeValue(vals[i])
  BY <1>1, <1>3
<1>6. EncodeValues(vals) = Joined(Codes(vals))
  BY Zenon DEF EncodeValues, Codes
<1> HIDE DEF p
<1>7. \A i \in 1 .. Len(p) : p[i] # <<>>
  BY <1>3, <1>5, Zenon
<1> QED
  BY <1>4, <1>5, <1>6, <1>7, Zenon

LEMMA EncodedType ==
    ASSUME NEW vals \in Seq(Values)
    PROVE  EncodeValues(vals) \in Seq(Byte)
  BY CodesType, MadeEnds, Zenon

\* What is left of a sequence behind its front.
Behind(s, n) == SubSeq(s, n + 1, Len(s))

LEMMA BehindFront ==
    ASSUME NEW S, NEW a \in Seq(S), NEW b \in Seq(S)
    PROVE  Behind(a \o b, Len(a)) = b
<1>1. PICK in, x : in = a \o b /\ x = SubSeq(in, Len(a) + 1, Len(in))
  BY Zenon
<1>2. in \in Seq(S) /\ Len(in) = Len(a) + Len(b) /\ \A i \in 1 .. Len(b) : in[Len(a) + i] = b[i]
  BY <1>1
<1>3. Len(a) \in Nat /\ Len(b) \in Nat
  OBVIOUS
<1>4. x \in Seq(S) /\ Len(x) = Len(b) /\ \A i \in 1 .. Len(b) : x[i] = in[Len(a) + i]
  BY <1>1, <1>2, <1>3
<1>5. \A i \in 1 .. Len(b) : x[i] = b[i]
  BY <1>2, <1>4, Zenon
<1>6. x = b
  BY <1>4, <1>5, SameSeq, Zenon
<1> QED
  BY <1>1, <1>6, Zenon DEF Behind

\* The state of DecodeValues after n turns.
Decoding(vals, n) ==
    [rest |-> Behind(EncodeValues(vals), Len(Made(Codes(vals), n))), out |-> SubSeq(vals, 1, n)]

LEMMA DecodeTurn ==
    ASSUME NEW vals \in Seq(Values), NEW n \in 0 .. Len(vals) - 1
    PROVE  decodeTurn(Decoding(vals, n)) = Decoding(vals, n + 1)
<1>1. /\ Codes(vals) \in Seq(Seq(Byte)) /\ n \in 0 .. Len(Codes(vals)) - 1 /\ n + 1 \in 1 .. Len(vals)
      /\ EncodeValues(vals) = Joined(Codes(vals))
  <2>1. Len(Codes(vals)) = Len(vals) /\ Codes(vals) \in Seq(Seq(Byte)) /\ EncodeValues(vals) = Joined(Codes(vals))
    BY CodesType, Zenon
  <2> QED
    BY <2>1
<1>2. vals[n + 1] \in Values /\ SubSeq(vals, 1, n + 1) = Append(SubSeq(vals, 1, n), vals[n + 1])
  BY FrontAppend, Zenon
<1>3. PICK v, m, e, out, in : /\ v = vals[n + 1] /\ m = Made(Codes(vals), n) /\ e = EncodeValue(v)
                              /\ out = SubSeq(vals, 1, n) /\ in = EncodeValues(vals)
  BY Zenon
<1>4. Codes(vals)[n + 1] = e
  BY <1>1, <1>3, CodesType, Zenon
<1>5. PICK r \in Seq(Byte) : in = m \o (e \o r)
  <2>1. Splits(Byte, Joined(Codes(vals)), m, e)
    BY <1>1, <1>3, <1>4, MadeSplit, Zenon
  <2> QED
    BY <1>1, <1>3, <2>1, Zenon DEF Splits
<1>6. m \in Seq(Byte) /\ e \in Seq(Byte) /\ e # <<>> /\ Decodes(v, r)
  BY <1>1, <1>2, <1>3, MadeStep, DecodeOf, Zenon
<1>7. Made(Codes(vals), n + 1) = m \o e
  BY <1>1, <1>3, <1>4, MadeStep, Zenon
<1>8. PICK er : er = e \o r
  BY Zenon
<1>9. er \in Seq(Byte) /\ er # <<>> /\ m \o e \in Seq(Byte)
  BY <1>6, <1>8
<1>10. Behind(in, Len(m)) = er
  BY <1>5, <1>6, <1>8, <1>9, BehindFront, Zenon
<1>11. Behind(in, Len(m \o e)) = r
  <2>1. in = (m \o e) \o r
    <3>1. Assoc(m, e, r)
      BY <1>6, ConcatAssoc, Zenon
    <3> QED
      BY <1>5, <3>1, Zenon DEF Assoc
  <2> QED
    BY <1>9, <2>1, BehindFront, Zenon
<1>12. Decoding(vals, n) = [rest |-> er, out |-> out]
  BY <1>3, <1>10, Zenon DEF Decoding
<1>13. Decoding(vals, n + 1) = [rest |-> r, out |-> Append(out, v)]
  BY <1>2, <1>3, <1>7, <1>11, Zenon DEF Decoding
<1>14. DecodeValue(er) = <<v, Len(e)>>
  BY <1>3, <1>6, <1>8, Zenon DEF Decodes
<1>15. SubSeq(er, Len(e) + 1, Len(er)) = r
  BY <1>6, <1>8, BehindFront, Zenon DEF Behind
<1>16. decodeTurn([rest |-> er, out |-> out]) = [rest |-> r, out |-> Append(out, v)]
  <2>1. PICK st, head : st = [rest |-> er, out |-> out] /\ head = DecodeValue(er)
    BY Zenon
  <2>2. st.rest = er /\ st.out = out /\ head[1] = v /\ head[2] = Len(e)
    BY <1>14, <2>1
  <2>3. decodeTurn(st) = [rest |-> SubSeq(er, head[2] + 1, Len(er)), out |-> Append(out, head[1])]
    BY <1>9, <2>1, <2>2, Zenon DEF decodeTurn
  <2> QED
    BY <1>15, <2>1, <2>2, <2>3, Zenon
<1> QED
  BY <1>12, <1>13, <1>16, Zenon

\* What EncodeValues makes of values of any types, DecodeValues reads back as they
\* were: the encodings of integers, texts with any bytes, flags and floats (but -0)
\* are told apart when they follow one another.
THEOREM DecodeEncode ==
    ASSUME NEW vals \in Seq(Values)
    PROVE  DecodeValues(EncodeValues(vals)) = vals
<1> DEFINE in == EncodeValues(vals)
           l == Len(vals)
           h == [n \in 0 .. Len(in) |-> Decoding(vals, IF n <= l THEN n ELSE l)]
           c == CHOOSE f : f = [n \in 0 .. Len(in) |-> IF n = 0 THEN [rest |-> in, out |-> <<>>]
                                                       ELSE decodeTurn(f[n - 1])]
<1>1. DecodeValues(in) = c[Len(in)].out
  BY Zenon DEF DecodeValues
<1>2. /\ Codes(vals) \in Seq(Seq(Byte)) /\ Len(Codes(vals)) = l /\ l \in Nat /\ l \in 0 .. l
      /\ in \in Seq(Byte) /\ Len(in) \in Nat /\ in = Joined(Codes(vals))
      /\ \A i \in 1 .. Len(Codes(vals)) : Codes(vals)[i] # <<>>
  <2>1. l \in Nat /\ l \in 0 .. l
    OBVIOUS
  <2>2. in \in Seq(Byte)
    BY EncodedType, Zenon
  <2>3. Len(in) \in Nat
    BY <2>2
  <2> QED
    BY <2>1, <2>2, <2>3, CodesType, Zenon
<1>3. Made(Codes(vals), 0) = <<>> /\ Made(Codes(vals), l) = in
  BY <1>2, MadeEnds, Zenon
<1>4. Len(in) >= l
  BY <1>2, <1>3, PiecesGrow, Zenon
<1> HIDE DEF in
<1>5. Decoding(vals, 0) = [rest |-> in, out |-> <<>>]
  <2>1. SubSeq(vals, 1, 0) = <<>> /\ Len(<<>>) = 0
    OBVIOUS
  <2>2. SubSeq(in, 0 + 1, Len(in)) = in
    BY <1>2
  <2> QED
    BY <1>3, <2>1, <2>2, Zenon DEF Decoding, Behind, in
<1>6. decodeTurn(Decoding(vals, l)) = Decoding(vals, l)
  <2>1. SubSeq(in, Len(in) + 1, Len(in)) = <<>>
    BY <1>2
  <2>2. Decoding(vals, l).rest = <<>>
    BY <1>3, <2>1 DEF Decoding, Behind, in
  <2> QED
    BY <2>2, Zenon DEF decodeTurn
<1>7. ASSUME NEW n \in 0 .. Len(in)
      PROVE  h[n] = IF n = 0 THEN [rest |-> in, out |-> <<>>] ELSE decodeTurn(h[n - 1])
  <2>0. h[n] = Decoding(vals, IF n <= l THEN n ELSE l)
    OBVIOUS
  <2>1. CASE n = 0
    BY <1>2, <1>5, <2>0, <2>1
  <2>2. CASE n # 0 /\ n <= l
    <3>1. n - 1 \in 0 .. Len(in) /\ n - 1 <= l /\ n - 1 \in 0 .. Len(vals) - 1 /\ (n - 1) + 1 = n
      BY <1>2, <2>2
    <3>2. h[n - 1] = Decoding(vals, n - 1)
      BY <3>1
    <3>3. decodeTurn(Decoding(vals, n - 1)) = Decoding(vals, n)
      BY <3>1, DecodeTurn, Zenon
    <3> QED
      BY <2>0, <2>2, <3>2, <3>3, Zenon
  <2>3. CASE n # 0 /\ ~(n <= l)
    <3>1. n - 1 \in 0 .. Len(in) /\ (n - 1 <= l => n - 1 = l)
      BY <1>2, <2>3
    <3>2. h[n - 1] = Decoding(vals, l)
      BY <3>1
    <3> QED
      BY <1>6, <2>0, <2>3, <3>2, Zenon
  <2> QED
    BY <2>1, <2>2, <2>3
<1>8. h = [n \in 0 .. Len(in) |-> IF n = 0 THEN [rest |-> in, out |-> <<>>] ELSE decodeTurn(h[n - 1])]
  BY <1>7, Zenon
<1>9. c = [n \in 0 .. Len(in) |-> IF n = 0 THEN [rest |-> in, out |-> <<>>] ELSE decodeTurn(c[n - 1])]
  BY <1>8, Zenon
<1>10. h[Len(in)] = Decoding(vals, l)
  BY <1>2, <1>4
<1> HIDE DEF c, h
<1> DEFINE T == {n \in 0 .. Len(in) : c[n] = h[n]}
<1>11. 0 .. Len(in) \subseteq T
  <2>0. /\ \A n \in 0 .. Len(in) : c[n] = IF n = 0 THEN [rest |-> in, out |-> <<>>] ELSE decodeTurn(c[n - 1])
        /\ \A n \in 0 .. Len(in) : h[n] = IF n = 0 THEN [rest |-> in, out |-> <<>>] ELSE decodeTurn(h[n - 1])
    BY <1>7, <1>9, Zenon
  <2>1. 0 \in T
    <3>1. 0 \in 0 .. Len(in)
      BY <1>2
    <3> QED
      BY <2>0, <3>1, Zenon
  <2>2. ASSUME NEW n \in 0 .. Len(in) - 1, n \in T PROVE n + 1 \in T
    <3>1. n + 1 \in 0 .. Len(in) /\ n + 1 # 0 /\ (n + 1) - 1 = n
      BY <1>2
    <3>2. c[n] = h[n]
      BY <2>2
    <3> QED
      BY <2>0, <3>1, <3>2, Zenon
  <2> HIDE DEF T
  <2> QED
    BY <1>2, <2>1, <2>2, CountUp, Zenon
<1>12. Len(in) \in 0 .. Len(in)
  BY <1>2
<1>13. c[Len(in)] = Decoding(vals, l)
  BY <1>10, <1>11, <1>12, Zenon
<1>14. Decoding(vals, l).out = vals
  <2>1. SubSeq(vals, 1, l) = vals
    OBVIOUS
  <2> QED
    BY <2>1 DEF Decoding
<1> QED
  BY <1>1, <1>13, <1>14, Zenon DEF in

\* Two keys with the same bytes are of the same table and have the same values, so
\* no row is stored under the key of another.
THEOREM KeysDiffer ==
    ASSUME NEW p, NEW q, NEW x \in Seq(Values), NEW y \in Seq(Values), EncodeKey(p, x) = EncodeKey(q, y)
    PROVE  p = q /\ x = y
<1>1. PICK a, b : a = EncodeValues(x) /\ b = EncodeValues(y)
  OBVIOUS
<1>2. a \in Seq(Byte) /\ b \in Seq(Byte)
  BY <1>1, EncodedType, Zenon
<1>3. <<p>> \o a = <<q>> \o b
  BY <1>1, Zenon DEF EncodeKey
<1>4. (<<p>> \o a)[1] = p /\ (<<q>> \o b)[1] = q
  BY <1>2
<1>5. Behind(<<p>> \o a, Len(<<p>>)) = a /\ Behind(<<q>> \o b, Len(<<q>>)) = b
  <2>1. a \in Seq(Byte \cup {p}) /\ b \in Seq(Byte \cup {q}) /\ <<p>> \in Seq(Byte \cup {p}) /\ <<q>> \in Seq(Byte \cup {q})
    BY <1>2
  <2> QED
    BY <2>1, BehindFront, Zenon
<1>6. Len(<<p>>) = 1 /\ Len(<<q>>) = 1
  OBVIOUS
<1>7. a = b
  BY <1>3, <1>5, <1>6, Zenon
<1> QED
  BY <1>1, <1>3, <1>4, <1>7, DecodeEncode, Zenon

(***************************************************************************)
(* Order                                                                   *)
(***************************************************************************)

\* a comes before b, whatever follows them.
Before(a, b) ==
    \E n \in Nat : /\ n < Len(a) /\ n < Len(b)
                   /\ \A i \in 1 .. n : a[i] = b[i]
                   /\ a[n + 1] < b[n + 1]

LEMMA BeforeMore ==
    ASSUME NEW S, NEW a \in Seq(S), NEW b \in Seq(S), NEW r \in Seq(S), NEW t \in Seq(S), Before(a, b)
    PROVE  Before(a \o r, b \o t)
<1>1. PICK n \in Nat : n < Len(a) /\ n < Len(b) /\ (\A i \in 1 .. n : a[i] = b[i]) /\ a[n + 1] < b[n + 1]
  BY Zenon DEF Before
<1>2. PICK x, y : x = a \o r /\ y = b \o t
  BY Zenon
<1>3. /\ Len(x) = Len(a) + Len(r) /\ Len(y) = Len(b) + Len(t) /\ Len(a) \in Nat /\ Len(b) \in Nat
      /\ Len(r) \in Nat /\ Len(t) \in Nat
      /\ \A i \in 1 .. Len(a) : x[i] = a[i]
      /\ \A i \in 1 .. Len(b) : y[i] = b[i]
  BY <1>2
<1>4. n < Len(x) /\ n < Len(y) /\ \A i \in 1 .. n + 1 : x[i] = a[i] /\ y[i] = b[i]
  BY <1>1, <1>3
<1>5. (\A i \in 1 .. n : x[i] = y[i]) /\ x[n + 1] < y[n + 1]
  <2>1. n + 1 \in 1 .. n + 1 /\ \A i \in 1 .. n : i \in 1 .. n + 1
    OBVIOUS
  <2> QED
    BY <1>1, <1>4, <2>1, Zenon
<1> QED
  BY <1>2, <1>4, <1>5, Zenon DEF Before

LEMMA BeforeBehind ==
    ASSUME NEW S, NEW a \in Seq(S), NEW b \in Seq(S), NEW m \in Seq(S), Before(a, b)
    PROVE  Before(m \o a, m \o b)
<1>1. PICK n \in Nat : n < Len(a) /\ n < Len(b) /\ (\A i \in 1 .. n : a[i] = b[i]) /\ a[n + 1] < b[n + 1]
  BY Zenon DEF Before
<1>2. PICK x, y : x = m \o a /\ y = m \o b
  BY Zenon
<1>3. /\ Len(x) = Len(m) + Len(a) /\ Len(y) = Len(m) + Len(b) /\ Len(a) \in Nat /\ Len(b) \in Nat /\ Len(m) \in Nat
      /\ \A i \in 1 .. Len(m) : x[i] = m[i] /\ y[i] = m[i]
      /\ \A i \in 1 .. Len(a) : x[Len(m) + i] = a[i]
      /\ \A i \in 1 .. Len(b) : y[Len(m) + i] = b[i]
  BY <1>2
<1>4. PICK k : k = Len(m) + n
  OBVIOUS
<1>5. k \in Nat /\ k < Len(x) /\ k < Len(y)
  BY <1>1, <1>3, <1>4
<1>6. \A i \in 1 .. n + 1 : x[Len(m) + i] = a[i] /\ y[Len(m) + i] = b[i]
  BY <1>1, <1>3
<1>7. x[k + 1] < y[k + 1]
  <2>1. k + 1 = Len(m) + (n + 1) /\ n + 1 \in 1 .. n + 1
    BY <1>3, <1>4
  <2>2. x[k + 1] = a[n + 1] /\ y[k + 1] = b[n + 1]
    BY <1>6, <2>1
  <2> QED
    BY <1>1, <2>2
<1>8. ASSUME NEW i \in 1 .. k PROVE x[i] = y[i]
  <2>1. CASE i \in 1 .. Len(m)
    BY <1>3, <2>1, Zenon
  <2>2. CASE i \notin 1 .. Len(m)
    <3>1. i - Len(m) \in 1 .. n /\ i - Len(m) \in 1 .. n + 1 /\ Len(m) + (i - Len(m)) = i
      BY <1>3, <1>4, <2>2
    <3> QED
      BY <1>1, <1>6, <3>1, Zenon
  <2> QED
    BY <2>1, <2>2
<1> QED
  BY <1>2, <1>5, <1>7, <1>8, Zenon DEF Before

LEMMA BeforeLess ==
    ASSUME NEW S, NEW a \in Seq(S), NEW b \in Seq(S), Before(a, b)
    PROVE  KeyLess(a, b)
<1>1. PICK n \in Nat : n < Len(a) /\ n < Len(b) /\ (\A i \in 1 .. n : a[i] = b[i]) /\ a[n + 1] < b[n + 1]
  BY Zenon DEF Before
<1>2. n \in 0 .. Len(a)
  BY <1>1
<1> QED
  BY <1>1, <1>2, Zenon DEF KeyLess

LEMMA FrontLess ==
    ASSUME NEW S, NEW a \in Seq(S), NEW b \in Seq(S), b # <<>>
    PROVE  KeyLess(a, a \o b)
<1>1. PICK x : x = a \o b
  BY Zenon
<1>2. Len(a) \in 0 .. Len(a) /\ Len(a) < Len(x) /\ \A i \in 1 .. Len(a) : a[i] = x[i]
  BY <1>1
<1> QED
  BY <1>1, <1>2, Zenon DEF KeyLess

LEMMA ModLess ==
    ASSUME NEW x \in Nat, NEW y \in Nat, x < y, x \div 256 = y \div 256
    PROVE  x % 256 < y % 256
OBVIOUS

\* Bytes are in the order of the integers they make up.
LEMMA BigEndianOrder ==
    ASSUME NEW u \in 0 .. All - 1, NEW w \in 0 .. All - 1, u < w
    PROVE  Before(BigEndian(u), BigEndian(w))
<1>0. IntBytes \in Nat /\ u \in Nat /\ w \in Nat
  BY IntBytesAssumption, SignBit
<1>1. PICK s : Shifted(u, s)
  BY Shifts
<1>2. PICK t : Shifted(w, t)
  BY Shifts
<1>3. /\ s[0] = u /\ s[IntBytes] = 0 /\ t[0] = w /\ t[IntBytes] = 0
      /\ \A k \in 0 .. IntBytes : s[k] \in Nat /\ t[k] \in Nat
      /\ \A k \in 1 .. IntBytes : s[k] = s[k - 1] \div 256 /\ t[k] = t[k - 1] \div 256
  BY <1>1, <1>2, ZenonT(40) DEF Shifted
<1>4. PICK a, b : a = BigEndian(u) /\ b = BigEndian(w)
  OBVIOUS
<1>5. /\ Len(a) = IntBytes /\ Len(b) = IntBytes
      /\ \A i \in 1 .. IntBytes : a[i] = s[IntBytes - i] % 256 /\ b[i] = t[IntBytes - i] % 256
  <2>1. a = [i \in 1 .. IntBytes |-> s[IntBytes - i] % 256] /\ b = [i \in 1 .. IntBytes |-> t[IntBytes - i] % 256]
    BY <1>1, <1>2, <1>4, Zenon DEF Shifted
  <2> QED
    BY <1>4, <2>1, BigEndianBytes, ZenonT(40)
<1> DEFINE T == {k \in 0 .. IntBytes : s[k] <= t[k]}
           D == {n \in 0 .. IntBytes : s[IntBytes - n] # t[IntBytes - n]}
<1>6. 0 .. IntBytes \subseteq T
  <2>1. 0 \in T
    BY <1>0, <1>3
  <2>2. ASSUME NEW k \in 0 .. IntBytes - 1, k \in T PROVE k + 1 \in T
    <3>1. k + 1 \in 0 .. IntBytes /\ k + 1 \in 1 .. IntBytes /\ (k + 1) - 1 = k /\ k \in 0 .. IntBytes
      BY <1>0
    <3>2. s[k + 1] = s[k] \div 256 /\ t[k + 1] = t[k] \div 256 /\ s[k] \in Nat /\ t[k] \in Nat
      BY <1>3, <3>1
    <3>3. s[k] <= t[k]
      BY <2>2
    <3> QED
      BY <3>1, <3>2, <3>3
  <2> HIDE DEF T
  <2> QED
    BY <1>0, <2>1, <2>2, CountUp
<1>7. PICK n \in D : \A k \in D : n <= k
  <2>1. D \in SUBSET Nat
    BY <1>0
  <2>2. IntBytes \in D
    BY <1>0, <1>3
  <2> HIDE DEF D
  <2> QED
    BY <2>1, <2>2, LeastNumber, Zenon
<1>8. n \in 1 .. IntBytes /\ s[IntBytes - n] # t[IntBytes - n]
  BY <1>0, <1>3, <1>7
<1>9. PICK k : k = IntBytes - n
  OBVIOUS
<1>10. k \in 0 .. IntBytes /\ k + 1 \in 1 .. IntBytes /\ (k + 1) - 1 = k /\ n - 1 \in Nat
  BY <1>0, <1>8, <1>9
<1>11. s[k] < t[k] /\ s[k] \in Nat /\ t[k] \in Nat
  BY <1>3, <1>6, <1>8, <1>9, <1>10
<1>12. ASSUME NEW i \in 0 .. n - 1 PROVE s[IntBytes - i] = t[IntBytes - i]
  <2>1. i \in 0 .. IntBytes /\ ~(n <= i)
    BY <1>0, <1>8
  <2> QED
    BY <1>7, <2>1
<1>13. s[k + 1] = t[k + 1]
  <2>1. n - 1 \in 0 .. n - 1 /\ IntBytes - (n - 1) = k + 1
    BY <1>0, <1>8, <1>9
  <2> QED
    BY <1>12, <2>1
<1>14. s[k] % 256 < t[k] % 256
  <2>1. s[k + 1] = s[k] \div 256 /\ t[k + 1] = t[k] \div 256
    BY <1>3, <1>10
  <2>2. PICK x, y : x = s[k] /\ y = t[k]
    OBVIOUS
  <2>3. x \in Nat /\ y \in Nat /\ x < y /\ x \div 256 = y \div 256
    BY <1>11, <1>13, <2>1, <2>2, Zenon
  <2> QED
    BY <2>2, <2>3, ModLess, Zenon
<1>15. a[(n - 1) + 1] < b[(n - 1) + 1]
  <2>1. (n - 1) + 1 = n
    BY <1>8
  <2>2. a[n] = s[k] % 256 /\ b[n] = t[k] % 256
    BY <1>5, <1>8, <1>9
  <2> QED
    BY <1>14, <2>1, <2>2
<1>16. ASSUME NEW i \in 1 .. n - 1 PROVE a[i] = b[i]
  <2>1. i \in 1 .. IntBytes /\ i \in 0 .. n - 1
    BY <1>0, <1>8
  <2>2. s[IntBytes - i] = t[IntBytes - i]
    BY <1>12, <2>1, Zenon
  <2>3. a[i] = s[IntBytes - i] % 256 /\ b[i] = t[IntBytes - i] % 256
    BY <1>5, <2>1
  <2> QED
    BY <2>2, <2>3
<1>17. n - 1 < Len(a) /\ n - 1 < Len(b)
  BY <1>0, <1>5, <1>8
<1> QED
  BY <1>4, <1>10, <1>15, <1>16, <1>17, Zenon DEF Before

\* Parts that are the same make the same.
LEMMA SameFront ==
    ASSUME NEW X, NEW p \in Seq(X), NEW q \in Seq(X), NEW n \in Nat, n <= Len(p), n <= Len(q),
           \A i \in 1 .. n : p[i] = q[i]
    PROVE  SubSeq(p, 1, n) = SubSeq(q, 1, n)
<1>1. PICK x, y : x = SubSeq(p, 1, n) /\ y = SubSeq(q, 1, n)
  BY Zenon
<1>2. x \in Seq(X) /\ y \in Seq(X) /\ Len(x) = n /\ Len(y) = n /\ \A i \in 1 .. n : x[i] = p[i] /\ y[i] = q[i]
  BY <1>1
<1>3. x = y
  BY <1>2, SameSeq, Zenon
<1> QED
  BY <1>1, <1>3

\* The first part that differs decides.
LEMMA JoinedOrder ==
    ASSUME NEW S, NEW p \in Seq(Seq(S)), NEW q \in Seq(Seq(S)), NEW n \in Nat, n < Len(p), n < Len(q),
           \A i \in 1 .. n : p[i] = q[i], Before(p[n + 1], q[n + 1])
    PROVE  Before(Joined(p), Joined(q))
<1>1. n \in 0 .. Len(p) - 1 /\ n \in 0 .. Len(q) - 1 /\ n <= Len(p) /\ n <= Len(q)
  OBVIOUS
<1>2. PICK m, a, b : m = Made(p, n) /\ a = p[n + 1] /\ b = q[n + 1]
  OBVIOUS
<1>3. Made(q, n) = m
  BY <1>1, <1>2, SameFront, Zenon DEF Made
<1>4. Splits(S, Joined(p), m, a) /\ Splits(S, Joined(q), m, b) /\ m \in Seq(S) /\ a \in Seq(S) /\ b \in Seq(S)
  BY <1>1, <1>2, <1>3, MadeSplit, Zenon
<1>5. PICK r \in Seq(S) : Joined(p) = m \o (a \o r)
  BY <1>4, Zenon DEF Splits
<1>6. PICK t \in Seq(S) : Joined(q) = m \o (b \o t)
  BY <1>4, Zenon DEF Splits
<1>7. PICK x, y : x = a \o r /\ y = b \o t
  BY Zenon
<1>8. x \in Seq(S) /\ y \in Seq(S)
  BY <1>4, <1>7
<1>9. Before(x, y)
  BY <1>2, <1>4, <1>7, BeforeMore, Zenon
<1> QED
  BY <1>4, <1>5, <1>6, <1>7, <1>8, <1>9, BeforeBehind, Zenon

\* What the first parts of p make is the front of what q makes, if q has them too.
LEMMA JoinedFront ==
    ASSUME NEW S, NEW p \in Seq(Seq(S)), NEW q \in Seq(Seq(S)), NEW n \in Nat, n <= Len(p), n < Len(q),
           \A i \in 1 .. n : p[i] = q[i]
    PROVE  Splits(S, Joined(q), Made(p, n), q[n + 1]) /\ q[n + 1] \in Seq(S)
<1>1. n \in 0 .. Len(q) - 1 /\ n <= Len(q)
  OBVIOUS
<1>2. Made(q, n) = Made(p, n)
  BY <1>1, SameFront, Zenon DEF Made
<1> QED
  BY <1>1, <1>2, MadeSplit, Zenon

LEMMA EscapedOrder ==
    ASSUME NEW x \in Byte, NEW y \in Byte, x < y
    PROVE  Before(Escaped(x), Escaped(y))
<1>0. x \in Nat /\ y \in Nat /\ 0 \in Nat /\ 1 \in Nat
  BY DEF Byte
<1>1. PICK a, b : a = Escaped(x) /\ b = Escaped(y)
  OBVIOUS
<1>2. CASE x = 0 /\ y = 1
  <2>1. a = <<1, 1>> /\ b = <<1, 2>>
    BY <1>1, <1>2 DEF Escaped
  <2>2. 1 < Len(a) /\ 1 < Len(b) /\ (\A i \in 1 .. 1 : a[i] = b[i]) /\ a[1 + 1] < b[1 + 1]
    BY <2>1
  <2> QED
    BY <1>0, <1>1, <2>2, Zenon DEF Before
<1>3. CASE y > 1
  <2>1. b = <<y>>
    BY <1>0, <1>1, <1>3 DEF Escaped
  <2>2. Len(a) > 0 /\ a[1] < y
    <3>1. x = 0 => a = <<1, 1>>
      BY <1>1 DEF Escaped
    <3>2. x = 1 => a = <<1, 2>>
      BY <1>1 DEF Escaped
    <3>3. x # 0 /\ x # 1 => a = <<x>>
      BY <1>1 DEF Escaped
    <3> QED
      BY <1>0, <1>3, <3>1, <3>2, <3>3
  <2>3. 0 < Len(a) /\ 0 < Len(b) /\ (\A i \in 1 .. 0 : a[i] = b[i]) /\ a[0 + 1] < b[0 + 1]
    BY <2>1, <2>2
  <2> QED
    BY <1>0, <1>1, <2>3, Zenon DEF Before
<1> QED
  BY <1>0, <1>2, <1>3

\* Texts and the zeros behind them are in the order of the texts.
LEMMA EscapeOrder ==
    ASSUME NEW s \in Seq(Byte), NEW t \in Seq(Byte), KeyLess(s, t)
    PROVE  Before(Append(escapeBytes(s), 0), Append(escapeBytes(t), 0))
<1>0. 0 \in Byte /\ <<0>> \in Seq(Byte)
  BY DEF Byte
<1>1. PICK p, q, x, y : p = Pieces(s) /\ q = Pieces(t) /\ x = Joined(p) /\ y = Joined(q)
  OBVIOUS
<1>2. /\ p \in Seq(Seq(1 .. 255)) /\ q \in Seq(Seq(1 .. 255)) /\ Len(p) = Len(s) /\ Len(q) = Len(t)
      /\ \A i \in 1 .. Len(s) : p[i] = Escaped(s[i])
      /\ \A i \in 1 .. Len(t) : q[i] = Escaped(t[i])
  <2>1. p \in Seq(Seq(1 .. 255)) /\ Len(p) = Len(s) /\ \A i \in 1 .. Len(s) : p[i] = Escaped(s[i])
    BY <1>1, PiecesType, Zenon
  <2>2. q \in Seq(Seq(1 .. 255)) /\ Len(q) = Len(t) /\ \A i \in 1 .. Len(t) : q[i] = Escaped(t[i])
    BY <1>1, PiecesType, Zenon
  <2> QED
    BY <2>1, <2>2, Zenon
<1>3. x = escapeBytes(s) /\ y = escapeBytes(t) /\ x \in Seq(1 .. 255) /\ y \in Seq(1 .. 255)
  BY <1>1, EscapeIsJoined, EscapedBytes, Zenon
<1>4. x \in Seq(Byte) /\ y \in Seq(Byte)
  BY <1>3, NonZero, Zenon
<1>5. Append(x, 0) = x \o <<0>> /\ Append(y, 0) = y \o <<0>>
  BY <1>4
<1>6. PICK n \in 0 .. Len(s) : n < Len(t) /\ (\A i \in 1 .. n : s[i] = t[i]) /\ (n = Len(s) \/ s[n + 1] < t[n + 1])
  BY Zenon DEF KeyLess
<1>7. Len(s) \in Nat /\ Len(t) \in Nat /\ n \in Nat
  OBVIOUS
<1>8. \A i \in 1 .. n : p[i] = q[i]
  <2>1. \A i \in 1 .. n : i \in 1 .. Len(s) /\ i \in 1 .. Len(t)
    BY <1>6, <1>7
  <2> QED
    BY <1>2, <1>6, <2>1, Zenon
<1>9. CASE n # Len(s)
  <2>1. n + 1 \in 1 .. Len(s) /\ n + 1 \in 1 .. Len(t) /\ n < Len(p) /\ n < Len(q)
    BY <1>2, <1>6, <1>7, <1>9
  <2>2. s[n + 1] \in Byte /\ t[n + 1] \in Byte /\ s[n + 1] < t[n + 1]
    BY <1>6, <1>9, <2>1, ElementsOf, Zenon
  <2>3. Before(p[n + 1], q[n + 1])
    BY <1>2, <2>1, <2>2, EscapedOrder, Zenon
  <2>4. Before(x, y)
    BY <1>1, <1>2, <1>7, <1>8, <2>1, <2>3, JoinedOrder, Zenon
  <2>5. Before(x \o <<0>>, y \o <<0>>)
    BY <1>0, <1>4, <2>4, BeforeMore, Zenon
  <2> QED
    BY <1>3, <1>5, <2>5, Zenon
<1>10. CASE n = Len(s)
  <2>1. PICK e : e = q[n + 1]
    OBVIOUS
  <2>2. Splits(1 .. 255, y, x, e) /\ e \in Seq(1 .. 255)
    <3>1. n <= Len(p) /\ n < Len(q)
      BY <1>2, <1>6, <1>7, <1>10
    <3>2. Made(p, n) = x
      BY <1>1, <1>2, <1>10, MadeEnds, Zenon
    <3>3. p \in Seq(Seq(1 .. 255)) /\ q \in Seq(Seq(1 .. 255))
      BY <1>2, Zenon
    <3>4. Splits(1 .. 255, Joined(q), Made(p, n), q[n + 1]) /\ q[n + 1] \in Seq(1 .. 255)
      BY <1>7, <1>8, <3>1, <3>3, JoinedFront, Zenon
    <3> QED
      BY <1>1, <2>1, <3>2, <3>4, Zenon
  <2>3. PICK r \in Seq(1 .. 255) : y = x \o (e \o r)
    BY <2>2, Zenon DEF Splits
  <2>4. e # <<>>
    <3>1. n + 1 \in 1 .. Len(t)
      BY <1>6, <1>7
    <3>2. t[n + 1] \in Byte /\ e = Escaped(t[n + 1])
      BY <1>2, <2>1, <3>1, ElementsOf, Zenon
    <3> QED
      BY <3>2, EscapedType, Zenon
  <2>5. PICK er, z : er = e \o r /\ z = er \o <<0>>
    BY Zenon
  <2>6. e \in Seq(Byte) /\ r \in Seq(Byte) /\ \A i \in 1 .. Len(e) : e[i] # 0
    BY <2>2, <2>3, NonZero, Zenon
  <2>7. er \in Seq(Byte) /\ z \in Seq(Byte) /\ Len(z) > 0 /\ z[1] = e[1] /\ Len(e) >= 1
    BY <1>0, <2>4, <2>5, <2>6
  <2>8. z[1] \in Nat /\ z[1] # 0
    <3>1. 1 \in 1 .. Len(e) /\ Byte \subseteq Nat
      BY <2>7 DEF Byte
    <3>2. e[1] \in Byte /\ e[1] # 0
      BY <2>6, <3>1, ElementsOf, Zenon
    <3> QED
      BY <2>7, <3>1, <3>2, Zenon
  <2>9. Before(<<0>>, z)
    <3>1. PICK o : o = <<0>>
      BY Zenon
    <3>2. 0 \in Nat /\ 0 < Len(o) /\ 0 < Len(z) /\ (\A i \in 1 .. 0 : o[i] = z[i]) /\ o[0 + 1] < z[0 + 1]
      BY <2>7, <2>8, <3>1
    <3> QED
      BY <3>1, <3>2, Zenon DEF Before
  <2>10. y \o <<0>> = x \o z
    <3>1. Assoc(x, er, <<0>>)
      BY <1>0, <1>4, <2>7, ConcatAssoc, Zenon
    <3> QED
      BY <2>3, <2>5, <3>1, Zenon DEF Assoc
  <2>11. Before(x \o <<0>>, x \o z)
    BY <1>0, <1>4, <2>7, <2>9, BeforeBehind, Zenon
  <2> QED
    BY <1>3, <1>5, <2>10, <2>11, Zenon
<1> QED
  BY <1>9, <1>10

\* Encodings of different values differ in their bytes the way the values do.
LEMMA ValueOrder ==
    ASSUME NEW v \in Values, NEW w \in Values, ValueLess(v, w)
    PROVE  Before(EncodeValue(v), EncodeValue(w))
<1>0. v.type \in {1, 2, 3, 4} /\ w.type \in {1, 2, 3, 4} /\ {1, 2, 3, 4} \subseteq Byte /\ {0, 1} \subseteq Byte
  <2>1. \A x \in Values : x.type \in {1, 2, 3, 4}
    BY TypeCases, Zenon
  <2>2. {1, 2, 3, 4} \subseteq Byte /\ {0, 1} \subseteq Byte
    BY DEF Byte
  <2> QED
    BY <2>1, <2>2, Zenon
<1>1. ASSUME NEW x \in Values PROVE \E b \in Seq(Byte) : EncodeValue(x) = <<x.type>> \o b
  <2>2. CASE IsInt(x)
    <3>1. FlipSign(Unsigned(x.i64)) \in 0 .. All - 1 /\ x.type = 1
      BY <2>2, IntCode, Zenon DEF IsInt, TypeInt64
    <3> QED
      BY <2>2, <3>1, EncodedForm, BigEndianBytes, Zenon
  <2>3. CASE IsBytes(x)
    <3>1. escapeBytes(x.str) \in Seq(Byte) /\ x.type = 2
      BY <2>3, EscapedBytes, NonZero, Zenon DEF IsBytes, TypeBytes
    <3>2. Append(escapeBytes(x.str), 0) \in Seq(Byte)
      BY <1>0, <3>1
    <3> QED
      BY <2>3, <3>1, <3>2, EncodedForm, Zenon
  <2>4. CASE IsBool(x)
    <3>1. <<IF x.bool THEN 1 ELSE 0>> \in Seq(Byte)
      BY <1>0
    <3> QED
      BY <2>4, <3>1, EncodedForm, Zenon DEF IsBool, TypeBool
  <2>5. CASE IsFloat(x)
    <3>1. FloatBits(x.bits) \in 0 .. All - 1 /\ x.type = 4
      BY <2>5, FloatCode, Zenon DEF IsFloat, TypeFloat64
    <3> QED
      BY <2>5, <3>1, EncodedForm, BigEndianBytes, Zenon
  <2> QED
    BY <2>2, <2>3, <2>4, <2>5, ValueCases, Zenon
<1>2. CASE v.type < w.type
  <2>1. PICK b \in Seq(Byte) : EncodeValue(v) = <<v.type>> \o b
    BY <1>1, Zenon
  <2>2. PICK d \in Seq(Byte) : EncodeValue(w) = <<w.type>> \o d
    BY <1>1, Zenon
  <2>3. PICK x, y : x = <<v.type>> \o b /\ y = <<w.type>> \o d
    BY Zenon
  <2>4. 0 \in Nat /\ 0 < Len(x) /\ 0 < Len(y) /\ (\A i \in 1 .. 0 : x[i] = y[i]) /\ x[0 + 1] < y[0 + 1]
    BY <1>0, <1>2, <2>3
  <2>5. Before(x, y)
    BY <2>4, Zenon DEF Before
  <2> QED
    BY <2>1, <2>2, <2>3, <2>5, Zenon
<1>3. ASSUME NEW t \in Byte, NEW x \in Seq(Byte), NEW y \in Seq(Byte), Before(x, y)
      PROVE  Before(<<t>> \o x, <<t>> \o y)
  <2>1. <<t>> \in Seq(Byte)
    OBVIOUS
  <2> QED
    BY <1>3, <2>1, BeforeBehind, Zenon
<1>4. CASE v.type = 1 /\ w.type = 1 /\ v.i64 < w.i64
  <2>1. IsInt(v) /\ IsInt(w)
    BY <1>4, TypeCases, Zenon
  <2>2. PICK a, b : a = FlipSign(Unsigned(v.i64)) /\ b = FlipSign(Unsigned(w.i64))
    OBVIOUS
  <2>3. a \in 0 .. All - 1 /\ b \in 0 .. All - 1 /\ a = v.i64 + Half /\ b = w.i64 + Half
    BY <2>1, <2>2, IntCode, Zenon DEF IsInt
  <2>4. a < b
    BY <1>4, <2>1, <2>3, SignBit DEF IsInt
  <2>5. Before(BigEndian(a), BigEndian(b)) /\ BigEndian(a) \in Seq(Byte) /\ BigEndian(b) \in Seq(Byte)
    BY <2>3, <2>4, BigEndianOrder, BigEndianBytes, Zenon
  <2>6. EncodeValue(v) = <<1>> \o BigEndian(a) /\ EncodeValue(w) = <<1>> \o BigEndian(b)
    BY <2>1, <2>2, EncodedForm, Zenon
  <2> QED
    BY <1>0, <1>3, <1>4, <2>5, <2>6, Zenon
<1>5. CASE v.type = 2 /\ w.type = 2 /\ KeyLess(v.str, w.str)
  <2>1. IsBytes(v) /\ IsBytes(w)
    BY <1>5, TypeCases, Zenon
  <2>2. PICK a, b : a = Append(escapeBytes(v.str), 0) /\ b = Append(escapeBytes(w.str), 0)
    BY Zenon
  <2>3. Before(a, b) /\ escapeBytes(v.str) \in Seq(Byte) /\ escapeBytes(w.str) \in Seq(Byte)
    BY <1>5, <2>1, <2>2, EscapeOrder, EscapedBytes, NonZero, Zenon DEF IsBytes
  <2>4. a \in Seq(Byte) /\ b \in Seq(Byte)
    BY <1>0, <2>2, <2>3
  <2>5. EncodeValue(v) = <<2>> \o a /\ EncodeValue(w) = <<2>> \o b
    BY <2>1, <2>2, EncodedForm, Zenon
  <2> QED
    BY <1>0, <1>3, <1>5, <2>3, <2>4, <2>5, Zenon
<1>6. CASE v.type = 3 /\ w.type = 3 /\ ~v.bool /\ w.bool
  <2>1. IsBool(v) /\ IsBool(w)
    BY <1>6, TypeCases, Zenon
  <2>2. EncodeValue(v) = <<3>> \o <<0>> /\ EncodeValue(w) = <<3>> \o <<1>>
    BY <1>6, <2>1, EncodedForm, Zenon
  <2>3. PICK a, b : a = <<0>> /\ b = <<1>>
    BY Zenon
  <2>4. a \in Seq(Byte) /\ b \in Seq(Byte)
    BY <1>0, <2>3
  <2>5. 0 \in Nat /\ 0 < Len(a) /\ 0 < Len(b) /\ (\A i \in 1 .. 0 : a[i] = b[i]) /\ a[0 + 1] < b[0 + 1]
    BY <2>3
  <2>6. Before(a, b)
    BY <2>5, Zenon DEF Before
  <2> QED
    BY <1>0, <1>3, <1>6, <2>2, <2>3, <2>4, <2>6, Zenon
<1>7. CASE v.type = 4 /\ w.type = 4 /\ Number(v.bits) < Number(w.bits)
  <2>1. IsFloat(v) /\ IsFloat(w)
    BY <1>7, TypeCases, Zenon
  <2>2. PICK a, b : a = FloatBits(v.bits) /\ b = FloatBits(w.bits)
    OBVIOUS
  <2>3. /\ a \in 0 .. All - 1 /\ b \in 0 .. All - 1
        /\ a = (IF v.bits < Half THEN Number(v.bits) + Half ELSE Number(v.bits) + Half - 1)
        /\ b = (IF w.bits < Half THEN Number(w.bits) + Half ELSE Number(w.bits) + Half - 1)
    BY <2>1, <2>2, FloatCode, Zenon DEF IsFloat
  <2>4. a < b
    BY <1>7, <2>1, <2>3, SignBit DEF IsFloat, Number
  <2>5. Before(BigEndian(a), BigEndian(b)) /\ BigEndian(a) \in Seq(Byte) /\ BigEndian(b) \in Seq(Byte)
    BY <2>3, <2>4, BigEndianOrder, BigEndianBytes, Zenon
  <2>6. EncodeValue(v) = <<4>> \o BigEndian(a) /\ EncodeValue(w) = <<4>> \o BigEndian(b)
    BY <2>1, <2>2, EncodedForm, Zenon
  <2> QED
    BY <1>0, <1>3, <1>7, <2>5, <2>6, Zenon
<1> QED
  BY <1>2, <1>4, <1>5, <1>6, <1>7, Zenon DEF ValueLess, TypeInt64, TypeBytes, TypeBool, TypeFloat64

\* Two sequences that are not the same: where they part.
PartAt(x, y, n) ==
    /\ n \in Nat /\ n <= Len(x) /\ n <= Len(y)
    /\ \A i \in 1 .. n : x[i] = y[i]
    /\ \/ n = Len(x) /\ n < Len(y)
       \/ n = Len(y) /\ n < Len(x)
       \/ n < Len(x) /\ n < Len(y) /\ x[n + 1] # y[n + 1]

LEMMA TheyPart ==
    ASSUME NEW X, NEW x \in Seq(X), NEW y \in Seq(X), x # y
    PROVE  \E n : PartAt(x, y, n)
<1> DEFINE D == {n \in Nat : /\ n <= Len(x) /\ n <= Len(y)
                             /\ n = Len(x) \/ n = Len(y) \/ x[n + 1] # y[n + 1]}
<1>0. Len(x) \in Nat /\ Len(y) \in Nat
  OBVIOUS
<1>1. D # {}
  <2>1. CASE Len(x) <= Len(y)
    BY <1>0, <2>1
  <2>2. CASE Len(y) <= Len(x)
    BY <1>0, <2>2
  <2> QED
    BY <1>0, <2>1, <2>2
<1>2. PICK n \in D : \A k \in D : n <= k
  <2>1. D \in SUBSET Nat
    OBVIOUS
  <2> HIDE DEF D
  <2> QED
    BY <1>1, <2>1, LeastNumber, Zenon
<1>3. n \in Nat /\ n <= Len(x) /\ n <= Len(y) /\ (n = Len(x) \/ n = Len(y) \/ x[n + 1] # y[n + 1])
  BY <1>2
<1>4. ASSUME NEW i \in 1 .. n PROVE x[i] = y[i]
  <2>1. i - 1 \in Nat /\ i - 1 <= Len(x) /\ i - 1 <= Len(y) /\ i - 1 # Len(x) /\ i - 1 # Len(y) /\ ~(n <= i - 1) /\ (i - 1) + 1 = i
    BY <1>0, <1>3
  <2>2. i - 1 \notin D
    BY <1>2, <2>1, SMTT(20)
  <2> QED
    BY <2>1, <2>2
<1>5. ~(n = Len(x) /\ n = Len(y))
  BY <1>4, SameSeq
<1>6. \/ n = Len(x) /\ n < Len(y)
      \/ n = Len(y) /\ n < Len(x)
      \/ n < Len(x) /\ n < Len(y) /\ x[n + 1] # y[n + 1]
  BY <1>0, <1>3, <1>5
<1>7. PartAt(x, y, n)
  BY <1>3, <1>4, <1>6, Zenon DEF PartAt
<1> QED
  BY <1>7

LEMMA TextsCompare ==
    ASSUME NEW s \in Seq(Nat), NEW t \in Seq(Nat), s # t
    PROVE  KeyLess(s, t) \/ KeyLess(t, s)
<1>1. PICK n : PartAt(s, t, n)
  BY TheyPart, Zenon
<1>2. n \in 0 .. Len(s) /\ n \in 0 .. Len(t) /\ (\A i \in 1 .. n : s[i] = t[i]) /\ (\A i \in 1 .. n : t[i] = s[i])
  BY <1>1 DEF PartAt
<1>3. CASE n = Len(s) /\ n < Len(t)
  BY <1>2, <1>3, Zenon DEF KeyLess
<1>4. CASE n = Len(t) /\ n < Len(s)
  BY <1>2, <1>4, Zenon DEF KeyLess
<1>5. CASE n < Len(s) /\ n < Len(t) /\ s[n + 1] # t[n + 1]
  <2>1. s[n + 1] < t[n + 1] \/ t[n + 1] < s[n + 1]
    <3>1. n + 1 \in 1 .. Len(s) /\ n + 1 \in 1 .. Len(t)
      BY <1>2, <1>5
    <3>2. s[n + 1] \in Nat /\ t[n + 1] \in Nat
      BY <3>1
    <3> QED
      BY <1>5, <3>2
  <2> QED
    BY <1>2, <1>5, <2>1, Zenon DEF KeyLess
<1> QED
  BY <1>1, <1>3, <1>4, <1>5, Zenon DEF PartAt

LEMMA ValuesCompare ==
    ASSUME NEW v \in Values, NEW w \in Values, v # w
    PROVE  ValueLess(v, w) \/ ValueLess(w, v)
<1>1. v.type \in {1, 2, 3, 4} /\ w.type \in {1, 2, 3, 4}
  BY TypeCases, Zenon
<1>2. CASE v.type # w.type
  <2>1. v.type < w.type \/ w.type < v.type
    BY <1>1, <1>2
  <2> QED
    BY <2>1, Zenon DEF ValueLess
<1>3. CASE v.type = 1 /\ w.type = 1
  <2>1. v.i64 \in -Half .. Half - 1 /\ w.i64 \in -Half .. Half - 1 /\ v.i64 # w.i64
    BY <1>3, TypeCases, Zenon DEF IsInt
  <2>2. v.i64 < w.i64 \/ w.i64 < v.i64
    BY <2>1, SignBit
  <2> QED
    BY <1>3, <2>2, Zenon DEF ValueLess, TypeInt64
<1>4. CASE v.type = 2 /\ w.type = 2
  <2>1. v.str \in Seq(Byte) /\ w.str \in Seq(Byte) /\ v.str # w.str
    BY <1>4, TypeCases, Zenon DEF IsBytes
  <2>2. Byte \subseteq Nat
    BY DEF Byte
  <2>3. v.str \in Seq(Nat) /\ w.str \in Seq(Nat)
    BY <2>1, <2>2, SeqIn, Zenon
  <2>4. KeyLess(v.str, w.str) \/ KeyLess(w.str, v.str)
    BY <2>1, <2>3, TextsCompare, Zenon
  <2> QED
    BY <1>4, <2>4, Zenon DEF ValueLess, TypeBytes
<1>5. CASE v.type = 3 /\ w.type = 3
  <2>1. v.bool \in BOOLEAN /\ w.bool \in BOOLEAN /\ v.bool # w.bool
    BY <1>5, TypeCases, Zenon DEF IsBool
  <2>2. (~v.bool /\ w.bool) \/ (~w.bool /\ v.bool)
    <3>1. PICK p \in BOOLEAN, q \in BOOLEAN : p = v.bool /\ q = w.bool
      BY <2>1, Zenon
    <3>2. p # q
      BY <2>1, <3>1, Zenon
    <3>3. (~p /\ q) \/ (~q /\ p)
      BY <3>2
    <3> QED
      BY <3>1, <3>3, Zenon
  <2> QED
    BY <1>5, <2>2, Zenon DEF ValueLess, TypeBool
<1>6. CASE v.type = 4 /\ w.type = 4
  <2>1. v.bits \in (0 .. All - 1) \ {Half} /\ w.bits \in (0 .. All - 1) \ {Half} /\ v.bits # w.bits
    BY <1>6, TypeCases, Zenon DEF IsFloat
  <2>2. Number(v.bits) < Number(w.bits) \/ Number(w.bits) < Number(v.bits)
    BY <2>1, SignBit DEF Number
  <2> QED
    BY <1>6, <2>2, Zenon DEF ValueLess, TypeFloat64
<1> QED
  BY <1>1, <1>2, <1>3, <1>4, <1>5, <1>6

LEMMA TuplesCompare ==
    ASSUME NEW x \in Seq(Values), NEW y \in Seq(Values), x # y
    PROVE  TupleLess(x, y) \/ TupleLess(y, x)
<1>1. PICK n : PartAt(x, y, n)
  BY TheyPart, Zenon
<1>2. n \in 0 .. Len(x) /\ n \in 0 .. Len(y) /\ (\A i \in 1 .. n : x[i] = y[i]) /\ (\A i \in 1 .. n : y[i] = x[i])
  BY <1>1 DEF PartAt
<1>3. CASE n = Len(x) /\ n < Len(y)
  BY <1>2, <1>3, Zenon DEF TupleLess
<1>4. CASE n = Len(y) /\ n < Len(x)
  BY <1>2, <1>4, Zenon DEF TupleLess
<1>5. CASE n < Len(x) /\ n < Len(y) /\ x[n + 1] # y[n + 1]
  <2>1. n + 1 \in 1 .. Len(x) /\ n + 1 \in 1 .. Len(y)
    BY <1>2, <1>5
  <2>2. x[n + 1] \in Values /\ y[n + 1] \in Values
    BY <2>1, ElementsOf, Zenon
  <2>3. ValueLess(x[n + 1], y[n + 1]) \/ ValueLess(y[n + 1], x[n + 1])
    BY <1>5, <2>2, ValuesCompare, Zenon
  <2> QED
    BY <1>2, <1>5, <2>3, Zenon DEF TupleLess
<1> QED
  BY <1>1, <1>3, <1>4, <1>5, Zenon DEF PartAt

\* No two keys come before each other.
LEMMA KeyLessOneWay ==
    ASSUME NEW a \in Seq(Nat), NEW b \in Seq(Nat), KeyLess(a, b)
    PROVE  ~KeyLess(b, a) /\ a # b
<1>1. PICK n \in 0 .. Len(a) : n < Len(b) /\ (\A i \in 1 .. n : a[i] = b[i]) /\ (n = Len(a) \/ a[n + 1] < b[n + 1])
  BY Zenon DEF KeyLess
<1>2. Len(a) \in Nat /\ Len(b) \in Nat /\ n \in Nat
  OBVIOUS
<1>3. \A i \in 1 .. Len(a) : a[i] \in Nat
  OBVIOUS
<1>4. \A i \in 1 .. Len(b) : b[i] \in Nat
  OBVIOUS
<1>5. ASSUME KeyLess(b, a) PROVE FALSE
  <2>1. PICK m \in 0 .. Len(b) : m < Len(a) /\ (\A i \in 1 .. m : b[i] = a[i]) /\ (m = Len(b) \/ b[m + 1] < a[m + 1])
    BY <1>5, Zenon DEF KeyLess
  <2>2. CASE m < n
    <3>1. m + 1 \in 1 .. n /\ m # Len(b) /\ m + 1 \in 1 .. Len(b)
      BY <1>1, <1>2, <2>2
    <3> QED
      BY <1>1, <1>4, <2>1, <3>1
  <2>3. CASE n < m
    <3>1. n + 1 \in 1 .. m /\ n # Len(a) /\ n + 1 \in 1 .. Len(a)
      BY <1>2, <2>1, <2>3
    <3> QED
      BY <1>1, <1>3, <2>1, <3>1
  <2>4. CASE m = n
    <3>1. n + 1 \in 1 .. Len(a) /\ n + 1 \in 1 .. Len(b) /\ n # Len(a) /\ n # Len(b)
      BY <1>1, <1>2, <2>1, <2>4
    <3> QED
      BY <1>1, <1>3, <1>4, <2>1, <2>4, <3>1
  <2> QED
    BY <1>2, <2>2, <2>3, <2>4
<1>6. ASSUME a = b PROVE FALSE
  <2>1. n + 1 \in 1 .. Len(b) /\ n # Len(a)
    BY <1>1, <1>2, <1>6
  <2> QED
    BY <1>1, <1>4, <1>6, <2>1
<1> QED
  BY <1>5, <1>6

LEMMA TupleOrder ==
    ASSUME NEW p \in Nat, NEW x \in Seq(Values), NEW y \in Seq(Values), TupleLess(x, y)
    PROVE  KeyLess(EncodeKey(p, x), EncodeKey(p, y))
<1>0. Byte \subseteq Nat /\ <<p>> \in Seq(Nat)
  BY DEF Byte
<1>1. PICK n \in 0 .. Len(x) : n < Len(y) /\ (\A i \in 1 .. n : x[i] = y[i]) /\ (n = Len(x) \/ ValueLess(x[n + 1], y[n + 1]))
  BY Zenon DEF TupleLess
<1>2. Len(x) \in Nat /\ Len(y) \in Nat /\ n \in Nat
  OBVIOUS
<1>3. PICK c, d, a, b : c = Codes(x) /\ d = Codes(y) /\ a = EncodeValues(x) /\ b = EncodeValues(y)
  OBVIOUS
<1>4. /\ c \in Seq(Seq(Byte)) /\ d \in Seq(Seq(Byte)) /\ Len(c) = Len(x) /\ Len(d) = Len(y)
      /\ a = Joined(c) /\ b = Joined(d)
      /\ \A i \in 1 .. Len(x) : c[i] = EncodeValue(x[i])
      /\ \A i \in 1 .. Len(y) : d[i] = EncodeValue(y[i])
      /\ \A i \in 1 .. Len(d) : d[i] # <<>>
  BY <1>3, CodesType, Zenon
<1>5. a \in Seq(Nat) /\ b \in Seq(Nat)
  BY <1>0, <1>3, EncodedType, SeqIn, Zenon
<1>6. EncodeKey(p, x) = <<p>> \o a /\ EncodeKey(p, y) = <<p>> \o b
  BY <1>3, Zenon DEF EncodeKey
<1>7. \A i \in 1 .. n : c[i] = d[i]
  <2>1. \A i \in 1 .. n : i \in 1 .. Len(x) /\ i \in 1 .. Len(y)
    BY <1>1, <1>2
  <2> QED
    BY <1>1, <1>4, <2>1, Zenon
<1>8. CASE n # Len(x)
  <2>1. n + 1 \in 1 .. Len(x) /\ n + 1 \in 1 .. Len(y) /\ n < Len(c) /\ n < Len(d)
    BY <1>1, <1>2, <1>4, <1>8
  <2>2. x[n + 1] \in Values /\ y[n + 1] \in Values
    BY <2>1, ElementsOf, Zenon
  <2>3. Before(c[n + 1], d[n + 1])
    BY <1>1, <1>4, <1>8, <2>1, <2>2, ValueOrder, Zenon
  <2>4. Before(a, b)
    BY <1>2, <1>4, <1>7, <2>1, <2>3, JoinedOrder, Zenon
  <2>5. Before(<<p>> \o a, <<p>> \o b)
    BY <1>0, <1>5, <2>4, BeforeBehind, Zenon
  <2>6. <<p>> \o a \in Seq(Nat) /\ <<p>> \o b \in Seq(Nat)
    BY <1>0, <1>5
  <2> QED
    BY <1>6, <2>5, <2>6, BeforeLess, Zenon
<1>9. CASE n = Len(x)
  <2>1. n <= Len(c) /\ n < Len(d) /\ n + 1 \in 1 .. Len(d)
    BY <1>1, <1>2, <1>4, <1>9
  <2>2. Made(c, n) = a
    BY <1>4, <1>9, MadeEnds, Zenon
  <2>3. Splits(Byte, Joined(d), Made(c, n), d[n + 1]) /\ d[n + 1] \in Seq(Byte)
    BY <1>2, <1>4, <1>7, <2>1, JoinedFront, Zenon
  <2>4. PICK e : e = d[n + 1]
    OBVIOUS
  <2>5. PICK r \in Seq(Byte) : b = a \o (e \o r)
    BY <1>4, <2>2, <2>3, <2>4, Zenon DEF Splits
  <2>6. PICK er : er = e \o r
    BY Zenon
  <2>7. e \in Seq(Byte) /\ e # <<>>
    BY <1>4, <2>1, <2>3, <2>4, Zenon
  <2>8. er \in Seq(Byte) /\ er # <<>>
    BY <2>6, <2>7
  <2>9. er \in Seq(Nat)
    BY <1>0, <2>8, SeqIn, Zenon
  <2>10. <<p>> \o b = (<<p>> \o a) \o er
    <3>1. Assoc(<<p>>, a, er)
      BY <1>0, <1>5, <2>9, ConcatAssoc, Zenon
    <3> QED
      BY <2>5, <2>6, <3>1, Zenon DEF Assoc
  <2>11. <<p>> \o a \in Seq(Nat)
    BY <1>0, <1>5
  <2>12. KeyLess(<<p>> \o a, (<<p>> \o a) \o er)
    BY <2>8, <2>9, <2>11, FrontLess, Zenon
  <2> QED
    BY <1>6, <2>10, <2>12, Zenon
<1> QED
  BY <1>8, <1>9

\* The keys of a table are in the order of the values they are made of, column by
\* column: what every Scan relies on.  Negative integers come before positive ones,
\* a text before those it is the beginning of, negative floats before positive ones.
THEOREM KeyOrder ==
    ASSUME NEW p \in Nat, NEW x \in Seq(Values), NEW y \in Seq(Values)
    PROVE  KeyLess(EncodeKey(p, x), EncodeKey(p, y)) <=> TupleLess(x, y)
<1>0. Byte \subseteq Nat /\ <<p>> \in Seq(Nat)
  BY DEF Byte
<1>1. ASSUME NEW z \in Seq(Values) PROVE EncodeKey(p, z) \in Seq(Nat)
  <2>1. EncodeValues(z) \in Seq(Nat)
    BY <1>0, EncodedType, SeqIn, Zenon
  <2>2. <<p>> \o EncodeValues(z) \in Seq(Nat)
    BY <1>0, <2>1
  <2> QED
    BY <2>2, Zenon DEF EncodeKey
<1>2. ASSUME KeyLess(EncodeKey(p, x), EncodeKey(p, y)) PROVE TupleLess(x, y)
  <2>1. ~KeyLess(EncodeKey(p, y), EncodeKey(p, x)) /\ EncodeKey(p, x) # EncodeKey(p, y)
    BY <1>1, <1>2, KeyLessOneWay, Zenon
  <2>2. x # y
    BY <2>1, Zenon
  <2>3. ~TupleLess(y, x)
    BY <2>1, TupleOrder, Zenon
  <2> QED
    BY <2>2, <2>3, TuplesCompare, Zenon
<1> QED
  BY <1>2, TupleOrder, Zenon
=============================================================================
