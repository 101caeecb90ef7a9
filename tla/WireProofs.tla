----------------------------- MODULE WireProofs -----------------------------
(***************************************************************************)
(* What the operators of Wire compute, for every width of the words: the   *)
(* bytes of a number, and that the Read call that is fed with them ends    *)
(* with the last one and returns the number.                               *)
(***************************************************************************)
EXTENDS Wire, Induction, SequenceTheorems

-----------------------------------------------------------------------------
(* Division. *)

LEMMA DivMod ==
    ASSUME NEW u \in Nat, NEW b \in Nat, b > 1
    PROVE  /\ u \div b \in Nat
           /\ u % b \in 0 .. (b - 1)
           /\ u = b * (u \div b) + (u % b)
           /\ u > 0 => u \div b < u
           /\ u < b => u % b = u /\ u \div b = 0
  <1> DEFINE q == u \div b
  <1>1. /\ q \in Nat
        /\ u % b \in 0 .. (b - 1)
        /\ u = b * q + (u % b)
        /\ u < b => u % b = u /\ q = 0
    OBVIOUS
  <1>2. q > 0 => b * q >= 2 * q
    BY <1>1
  <1> HIDE DEF q
  <1>3. u > 0 => q < u
    BY <1>1, <1>2
  <1>. QED
    BY <1>1, <1>3 DEF q

\* A digit of q moves from the part that is left to the part that is read.
LEMMA MoveDigit ==
    ASSUME NEW b \in Nat, NEW d \in Nat, NEW m \in Nat, NEW q \in Nat,
           q = b * d + m, NEW place \in Nat, NEW acc \in Nat
    PROVE  (acc + m * place) + d * (place * b) = acc + q * place
  <1>1. q * place = d * (place * b) + m * place
    OBVIOUS
  <1>2. m * place \in Nat /\ d * (place * b) \in Nat
    OBVIOUS
  <1>. QED
    BY <1>1, <1>2

\* The same for the base of the varints.
LEMMA DivBase ==
    ASSUME NEW u \in Nat
    PROVE  /\ u \div Base \in Nat
           /\ u % Base \in 0 .. (Base - 1)
           /\ ~ (u < Base) => u \div Base < u
  <1>1. Base \in Nat /\ Base > 1
    BY WireAssumption
  <1>. QED
    BY <1>1, DivMod

-----------------------------------------------------------------------------
(* Varints. *)

\* The first byte of the varint x, and the definition of VarintBytes.
First(x) == IF x < Base THEN x ELSE Base + (x % Base)

IsVarints(g, n) ==
    g = [x \in 0 .. n |-> IF x < Base THEN <<x>>
                          ELSE <<Base + (x % Base)>> \o g[x \div Base]]

LEMMA VarintsAt ==
    ASSUME NEW g, NEW n \in Nat, IsVarints(g, n), NEW x \in 0 .. n
    PROVE  g[x] = IF x < Base THEN <<x>>
                  ELSE <<Base + (x % Base)>> \o g[x \div Base]
  BY Zenon DEF IsVarints

LEMMA VarintsExist == \A n \in Nat : \E g : IsVarints(g, n)
  <1> DEFINE T == {n \in Nat : \E g : IsVarints(g, n)}
  <1>1. 0 \in T
    <2> DEFINE g == [x \in 0 .. 0 |-> <<x>>]
    <2>1. IsVarints(g, 0)
      BY WireAssumption DEF IsVarints
    <2>. QED
      BY <2>1
  <1>2. ASSUME NEW n \in Nat, n \in T
        PROVE  n + 1 \in T
    <2>1. PICK g : IsVarints(g, n)
      BY <1>2
    <2> DEFINE body(x) == IF x < Base THEN <<x>>
                          ELSE <<Base + (x % Base)>> \o g[x \div Base]
               h == [x \in 0 .. (n + 1) |-> body(x)]
    <2>2. \A x \in 0 .. n : h[x] = g[x]
      <3>1. ASSUME NEW x \in 0 .. n
            PROVE  h[x] = g[x]
        <4>1. g[x] = body(x)
          BY <2>1, VarintsAt
        <4>2. x \in 0 .. (n + 1)
          OBVIOUS
        <4>3. h[x] = body(x)
          BY <4>2, Zenon
        <4>. QED
          BY <4>1, <4>3
      <3>. QED
        BY <3>1
    <2>3. \A x \in 0 .. (n + 1) : x >= Base => x \div Base \in 0 .. n
      BY DivBase, WireAssumption
    <2>4. \A x \in 0 .. (n + 1) : x >= Base => h[x \div Base] = g[x \div Base]
      BY <2>2, <2>3
    <2>5. h = [x \in 0 .. (n + 1) |->
                  IF x < Base THEN <<x>>
                  ELSE <<Base + (x % Base)>> \o h[x \div Base]]
      <3> HIDE DEF h
      <3>1. ASSUME NEW x \in 0 .. (n + 1)
            PROVE  body(x) = IF x < Base THEN <<x>>
                             ELSE <<Base + (x % Base)>> \o h[x \div Base]
        BY <2>4, <3>1, WireAssumption
      <3> HIDE DEF body
      <3>. QED
        BY <3>1 DEF h
    <2> HIDE DEF h
    <2>6. IsVarints(h, n + 1)
      BY <2>5 DEF IsVarints
    <2>. QED
      BY <2>6
  <1> HIDE DEF T
  <1>3. \A n \in Nat : n \in T
    BY <1>1, <1>2, SimpleInduction
  <1>. QED
    BY <1>3 DEF T

LEMMA VarintsAgree ==
    ASSUME NEW m \in Nat, NEW n \in Nat, NEW g, NEW h,
           IsVarints(g, m), IsVarints(h, n)
    PROVE  \A x \in Nat : x <= m /\ x <= n => g[x] = h[x]
  <1> DEFINE T == {x \in Nat : x <= m /\ x <= n => g[x] = h[x]}
  <1>1. ASSUME NEW x \in Nat, \A y \in Nat : y < x => y \in T
        PROVE  x \in T
    <2>1. SUFFICES ASSUME x <= m, x <= n
                   PROVE  g[x] = h[x]
      OBVIOUS
    <2>2. /\ g[x] = IF x < Base THEN <<x>>
                    ELSE <<Base + (x % Base)>> \o g[x \div Base]
          /\ h[x] = IF x < Base THEN <<x>>
                    ELSE <<Base + (x % Base)>> \o h[x \div Base]
      BY <2>1, VarintsAt, x \in 0 .. m, x \in 0 .. n
    <2>3. CASE x < Base
      BY <2>2, <2>3
    <2>4. CASE ~ (x < Base)
      <3>1. x \div Base \in Nat /\ x \div Base < x
        BY <2>4, DivBase, WireAssumption
      <3>2. g[x \div Base] = h[x \div Base]
        BY <1>1, <2>1, <3>1
      <3>. QED
        BY <2>2, <2>4, <3>2
    <2>. QED
      BY <2>3, <2>4
  <1> HIDE DEF T
  <1>2. \A x \in Nat : x \in T
    BY <1>1, StrongInduction
  <1>. QED
    BY <1>2 DEF T

LEMMA VarintBytesIs ==
    ASSUME NEW u \in Nat
    PROVE  \E g : IsVarints(g, u) /\ VarintBytes(u) = g[u]
  <1>1. \E g : IsVarints(g, u)
    BY VarintsExist
  <1>. QED
    BY <1>1, Zenon DEF IsVarints, VarintBytes

\* The recursive definition, as an equation.
LEMMA VarintBytesDef ==
    ASSUME NEW u \in Nat
    PROVE  VarintBytes(u) = IF u < Base THEN <<u>>
                            ELSE <<Base + (u % Base)>> \o VarintBytes(u \div Base)
  <1>1. PICK g : IsVarints(g, u) /\ VarintBytes(u) = g[u]
    BY VarintBytesIs
  <1>2. g[u] = IF u < Base THEN <<u>>
               ELSE <<Base + (u % Base)>> \o g[u \div Base]
    BY <1>1, VarintsAt, u \in 0 .. u
  <1>3. ASSUME ~ (u < Base)
        PROVE  g[u \div Base] = VarintBytes(u \div Base)
    <2>1. u \div Base \in Nat /\ u \div Base < u
      BY <1>3, DivBase, WireAssumption
    <2>2. PICK h : /\ IsVarints(h, u \div Base)
                   /\ VarintBytes(u \div Base) = h[u \div Base]
      BY <2>1, VarintBytesIs
    <2>. QED
      BY <1>1, <2>1, <2>2, VarintsAgree
  <1>. QED
    BY <1>1, <1>2, <1>3

\* A byte in front of others.
LEMMA ConsByte ==
    ASSUME NEW b \in Byte, NEW s \in Seq(Byte)
    PROVE  /\ <<b>> \o s \in Seq(Byte)
           /\ <<b>> \o s # <<>>
           /\ Head(<<b>> \o s) = b
           /\ Tail(<<b>> \o s) = s
  <1> DEFINE t == <<b>> \o s
  <1>1. <<b>> \in Seq(Byte) /\ Len(<<b>>) = 1 /\ <<b>>[1] = b
    OBVIOUS
  <1>2. /\ t \in Seq(Byte)
        /\ Len(t) = Len(s) + 1
        /\ t[1] = b
        /\ \A i \in 1 .. Len(s) : t[i + 1] = s[i]
        /\ Len(s) \in Nat
    BY <1>1, ConcatProperties, LenProperties
  <1> HIDE DEF t
  <1>3. t # <<>>
    BY <1>2
  <1>4. Head(t) = b
    BY <1>2, <1>3
  <1>5. /\ Tail(t) \in Seq(Byte)
        /\ Len(Tail(t)) = Len(s)
        /\ \A i \in 1 .. Len(s) : Tail(t)[i] = s[i]
    BY <1>2, <1>3, HeadTailProperties
  <1>6. Tail(t) = s
    BY <1>5, SeqEqual
  <1>. QED
    BY <1>2, <1>3, <1>4, <1>6 DEF t

\* The bytes of a varint: the first one says whether there are others, which
\* are those of the rest of the number.
LEMMA VarintBytesAre ==
    ASSUME NEW u \in Nat
    PROVE  /\ VarintBytes(u) \in Seq(Byte)
           /\ VarintBytes(u) # <<>>
           /\ Head(VarintBytes(u)) = First(u)
           /\ Tail(VarintBytes(u)) = IF u < Base THEN <<>>
                                     ELSE VarintBytes(u \div Base)
  <1> DEFINE T == {x \in Nat : VarintBytes(x) \in Seq(Byte)}
  <1>1. ASSUME NEW x \in Nat
        PROVE  First(x) \in Byte
    <2>1. /\ x % Base \in 0 .. (Base - 1)
          /\ Base \in Nat
      BY DivBase, WireAssumption
    <2>. QED
      BY <2>1 DEF First, Byte
  <1>2. ASSUME NEW x \in Nat, \A y \in Nat : y < x => y \in T
        PROVE  x \in T
    <2>1. CASE x < Base
      <3>1. VarintBytes(x) = <<First(x)>>
        BY <2>1, VarintBytesDef DEF First
      <3>2. First(x) \in Byte
        BY <1>1
      <3>3. <<First(x)>> \in Seq(Byte)
        BY <3>2
      <3>. QED
        BY <3>1, <3>3
    <2>2. CASE ~ (x < Base)
      <3>1. x \div Base \in Nat /\ x \div Base < x
        BY <2>2, DivBase, WireAssumption
      <3>2. VarintBytes(x) = <<First(x)>> \o VarintBytes(x \div Base)
        BY <2>2, VarintBytesDef DEF First
      <3>3. VarintBytes(x \div Base) \in Seq(Byte)
        BY <1>2, <3>1
      <3>4. VarintBytes(x) \in Seq(Byte)
        BY <1>1, <3>2, <3>3, ConsByte
      <3>. QED
        BY <3>4
    <2>. QED
      BY <2>1, <2>2
  <1>3. \A x \in Nat : x \in T
    <2> HIDE DEF T
    <2>. QED
      BY <1>2, StrongInduction
  <1>4. CASE u < Base
    <2>1. VarintBytes(u) = <<First(u)>>
      BY <1>4, VarintBytesDef DEF First
    <2>. QED
      BY <1>1, <1>4, <2>1
  <1>5. CASE ~ (u < Base)
    <2>1. u \div Base \in Nat
      BY DivBase, WireAssumption
    <2>2. VarintBytes(u) = <<First(u)>> \o VarintBytes(u \div Base)
      BY <1>5, VarintBytesDef DEF First
    <2>3. VarintBytes(u \div Base) \in Seq(Byte)
      BY <1>3, <2>1
    <2>. QED
      BY <1>1, <1>5, <2>2, <2>3, ConsByte
  <1>. QED
    BY <1>4, <1>5

-----------------------------------------------------------------------------
(* Numbers of a fixed size. *)

IsWords(g, n) ==
    g = [i \in 0 .. n |-> IF i = 0 THEN 1 ELSE 2 * Base * g[i - 1]]

LEMMA WordsAt ==
    ASSUME NEW g, NEW n \in Nat, IsWords(g, n), NEW i \in 0 .. n
    PROVE  g[i] = IF i = 0 THEN 1 ELSE 2 * Base * g[i - 1]
  BY Zenon DEF IsWords

LEMMA WordsExist ==
    ASSUME NEW n \in Nat
    PROVE  \E g \in [0 .. n -> Nat \ {0}] : IsWords(g, n)
  <1> DEFINE S == Nat \ {0}
             Step == [i \in 1 .. n |-> [x \in S |-> 2 * Base * x]]
  <1>1. Base \in S
    BY WireAssumption
  <1>2. ASSUME NEW x \in S
        PROVE  2 * Base * x \in S
    BY <1>1
  <1>3. Step \in [1 .. n -> [S -> S]]
    BY <1>2
  <1>4. 1 \in S
    OBVIOUS
  <1>5. PICK f \in [0 .. n -> S] : /\ f[0] = 1
                                   /\ \A i \in 1 .. n : f[i] = Step[i][f[i - 1]]
    <2> HIDE DEF S, Step
    <2>. QED
      BY <1>3, <1>4, PrimitiveRecursion
  <1>6. ASSUME NEW i \in 1 .. n
        PROVE  f[i] = 2 * Base * f[i - 1]
    <2>1. f[i - 1] \in S
      <3>1. i - 1 \in 0 .. n
        OBVIOUS
      <3>. QED
        BY <1>5, <3>1
    <2>2. Step[i] = [x \in S |-> 2 * Base * x]
      BY Zenon
    <2>3. Step[i][f[i - 1]] = 2 * Base * f[i - 1]
      BY <2>1, <2>2, Zenon
    <2>. QED
      BY <1>5, <2>3
  <1>7. ASSUME NEW i \in 0 .. n
        PROVE  f[i] = IF i = 0 THEN 1 ELSE 2 * Base * f[i - 1]
    <2> HIDE DEF S, Step
    <2>1. CASE i = 0
      BY <1>5, <2>1
    <2>2. CASE i # 0
      BY <1>6, <2>2, i \in 1 .. n
    <2>. QED
      BY <2>1, <2>2
  <1>8. f = [i \in 0 .. n |-> IF i = 0 THEN 1 ELSE 2 * Base * f[i - 1]]
    <2>1. f = [i \in 0 .. n |-> f[i]]
      BY <1>5
    <2> HIDE DEF S, Step
    <2>. QED
      BY <1>7, <2>1, Zenon
  <1>. QED
    BY <1>8 DEF IsWords

LEMMA WordsAgree ==
    ASSUME NEW m \in Nat, NEW n \in Nat, NEW g, NEW h,
           IsWords(g, m), IsWords(h, n)
    PROVE  \A i \in Nat : i <= m /\ i <= n => g[i] = h[i]
  <1> DEFINE T == {i \in Nat : i <= m /\ i <= n => g[i] = h[i]}
  <1>1. 0 \in T
    BY WordsAt, 0 \in 0 .. m, 0 \in 0 .. n
  <1>2. ASSUME NEW i \in Nat, i \in T
        PROVE  i + 1 \in T
    <2>1. SUFFICES ASSUME i + 1 <= m, i + 1 <= n
                   PROVE  g[i + 1] = h[i + 1]
      OBVIOUS
    <2>2. /\ i + 1 \in 0 .. m
          /\ i + 1 \in 0 .. n
          /\ i + 1 # 0
          /\ (i + 1) - 1 = i
          /\ i <= m /\ i <= n
      BY <2>1
    <2>3. /\ g[i + 1] = 2 * Base * g[(i + 1) - 1]
          /\ h[i + 1] = 2 * Base * h[(i + 1) - 1]
      <3> DEFINE k == i + 1
      <3>1. k \in 0 .. m /\ k \in 0 .. n /\ k # 0
        BY <2>2
      <3> HIDE DEF k
      <3>2. g[k] = 2 * Base * g[k - 1] /\ h[k] = 2 * Base * h[k - 1]
        BY <3>1, WordsAt, Zenon
      <3>. QED
        BY <3>2 DEF k
    <2>. QED
      BY <1>2, <2>2, <2>3
  <1> HIDE DEF T
  <1>3. \A i \in Nat : i \in T
    BY <1>1, <1>2, SimpleInduction
  <1>. QED
    BY <1>3 DEF T

LEMMA WordsIs ==
    ASSUME NEW n \in Nat
    PROVE  \E g \in [0 .. n -> Nat \ {0}] : IsWords(g, n) /\ Words(n) = g[n]
  <1>1. PICK h \in [0 .. n -> Nat \ {0}] : IsWords(h, n)
    BY WordsExist
  <1>2. PICK g : IsWords(g, n) /\ Words(n) = g[n]
    BY <1>1, Zenon DEF IsWords, Words
  <1>3. Words(n) = h[n]
    BY <1>1, <1>2, WordsAgree
  <1>. QED
    BY <1>1, <1>3

\* n bytes have 2 * Base times as many values as n - 1.
LEMMA WordsDef ==
    ASSUME NEW n \in Nat
    PROVE  /\ Words(n) \in Nat \ {0}
           /\ Words(n) = IF n = 0 THEN 1 ELSE 2 * Base * Words(n - 1)
  <1>1. PICK g \in [0 .. n -> Nat \ {0}] : IsWords(g, n) /\ Words(n) = g[n]
    BY WordsIs
  <1>2. n \in 0 .. n
    OBVIOUS
  <1>3. g[n] = IF n = 0 THEN 1 ELSE 2 * Base * g[n - 1]
    BY <1>1, <1>2, WordsAt, Zenon
  <1>4. ASSUME n # 0
        PROVE  g[n - 1] = Words(n - 1)
    <2>1. n - 1 \in Nat /\ n - 1 <= n
      BY <1>4
    <2>2. PICK h \in [0 .. (n - 1) -> Nat \ {0}] :
              IsWords(h, n - 1) /\ Words(n - 1) = h[n - 1]
      BY <2>1, WordsIs
    <2>. QED
      BY <1>1, <2>1, <2>2, WordsAgree
  <1>5. g[n] \in Nat \ {0}
    BY <1>1, <1>2
  <1>. QED
    BY <1>1, <1>3, <1>4, <1>5

\* The values of the loop variable of WriteFixedInt32 and WriteFixedInt64.
IsShifts(g, u, n) ==
    g = [i \in 1 .. n |-> IF i = 1 THEN u ELSE g[i - 1] \div (2 * Base)]

LEMMA ShiftsAt ==
    ASSUME NEW g, NEW u, NEW n \in Nat, IsShifts(g, u, n), NEW i \in 1 .. n
    PROVE  g[i] = IF i = 1 THEN u ELSE g[i - 1] \div (2 * Base)
  BY Zenon DEF IsShifts

LEMMA ShiftsFirst ==
    ASSUME NEW g, NEW u, NEW n \in Nat, IsShifts(g, u, n), 1 \in 1 .. n
    PROVE  g[1] = u
  BY ShiftsAt

LEMMA ShiftsNext ==
    ASSUME NEW g, NEW u, NEW n \in Nat, IsShifts(g, u, n),
           NEW i \in 1 .. n, i # 1
    PROVE  g[i] = g[i - 1] \div (2 * Base)
  <1>1. g[i] = IF i = 1 THEN u ELSE g[i - 1] \div (2 * Base)
    BY ShiftsAt
  <1>. QED
    BY <1>1

LEMMA DivByte ==
    ASSUME NEW u \in Nat
    PROVE  /\ u \div (2 * Base) \in Nat
           /\ u % (2 * Base) \in Byte
           /\ u = (2 * Base) * (u \div (2 * Base)) + (u % (2 * Base))
  <1> DEFINE b == 2 * Base
  <1>1. b \in Nat /\ b > 1
    BY WireAssumption
  <1>2. Byte = 0 .. (b - 1)
    BY DEF Byte
  <1> HIDE DEF b
  <1>3. /\ u \div b \in Nat
        /\ u % b \in Byte
        /\ u = b * (u \div b) + (u % b)
    BY <1>1, <1>2, DivMod
  <1>. QED
    BY <1>3 DEF b

\* The numbers of u are u itself and those of the rest of it.
Prefixed(u, n, h) == [i \in 1 .. (n + 1) |-> IF i = 1 THEN u ELSE h[i - 1]]

LEMMA ShiftsCons ==
    ASSUME NEW u \in Nat, NEW n \in Nat, NEW h \in [1 .. n -> Nat],
           IsShifts(h, u \div (2 * Base), n)
    PROVE  /\ Prefixed(u, n, h) \in [1 .. (n + 1) -> Nat]
           /\ IsShifts(Prefixed(u, n, h), u, n + 1)
           /\ Prefixed(u, n, h)[1] = u
           /\ \A i \in 1 .. n : Prefixed(u, n, h)[i + 1] = h[i]
  <1> DEFINE v == u \div (2 * Base)
             m == n + 1
             g == Prefixed(u, n, h)
  <1>0. g = [i \in 1 .. m |-> IF i = 1 THEN u ELSE h[i - 1]]
    BY DEF Prefixed
  <1>1. /\ m \in Nat /\ 1 \in 1 .. m
        /\ \A i \in 1 .. m : i # 1 => i - 1 \in 1 .. n
        /\ \A i \in 1 .. n : /\ i + 1 \in 1 .. m
                             /\ i + 1 # 1
                             /\ (i + 1) - 1 = i
    OBVIOUS
  <1>2. IsShifts(h, v, n)
    OBVIOUS
  <1> HIDE DEF m, v, g
  <1>3. g \in [1 .. m -> Nat]
    BY <1>0, <1>1
  <1>4. g[1] = u /\ \A i \in 1 .. n : g[i + 1] = h[i]
    BY <1>0, <1>1
  <1>5. \A i \in 1 .. m : i # 1 => g[i] = h[i - 1]
    BY <1>0, <1>1
  <1>6. ASSUME NEW i \in 1 .. m, i # 1
        PROVE  g[i] = g[i - 1] \div (2 * Base)
    <2>1. i - 1 \in 1 .. n /\ i - 1 \in 1 .. m
      BY <1>1, <1>6
    <2>2. g[i] = h[i - 1]
      BY <1>5, <1>6
    <2>3. CASE i - 1 = 1
      <3>1. 1 \in 1 .. n
        BY <2>1, <2>3
      <3>2. h[1] = v /\ g[1] = u
        BY <1>2, <1>4, <3>1, ShiftsFirst
      <3>. QED
        BY <2>2, <2>3, <3>2 DEF v
    <2>4. CASE i - 1 # 1
      <3>1. h[i - 1] = h[(i - 1) - 1] \div (2 * Base)
        BY <1>2, <2>1, <2>4, ShiftsNext
      <3>2. g[i - 1] = h[(i - 1) - 1]
        BY <1>5, <2>1, <2>4, Zenon
      <3>. QED
        BY <2>2, <3>1, <3>2
    <2>. QED
      BY <2>3, <2>4
  <1>7. g = [i \in 1 .. m |-> g[i]]
    BY <1>3
  <1>8. ASSUME NEW i \in 1 .. m
        PROVE  g[i] = IF i = 1 THEN u ELSE g[i - 1] \div (2 * Base)
    BY <1>4, <1>6
  <1>9. IsShifts(g, u, m)
    <2>1. g = [i \in 1 .. m |-> IF i = 1 THEN u ELSE g[i - 1] \div (2 * Base)]
      BY <1>7, <1>8, Zenon
    <2>. QED
      BY <2>1, Zenon DEF IsShifts
  <1>. QED
    BY <1>3, <1>4, <1>9 DEF g, m

LEMMA ShiftsExist ==
    ASSUME NEW u \in Nat, NEW n \in Nat
    PROVE  \E g \in [1 .. n -> Nat] : IsShifts(g, u, n)
  <1> DEFINE T == {m \in Nat : \A x \in Nat :
                       \E g \in [1 .. m -> Nat] : IsShifts(g, x, m)}
  <1>1. 0 \in T
    <2>1. ASSUME NEW x \in Nat
          PROVE  \E g \in [1 .. 0 -> Nat] : IsShifts(g, x, 0)
      <3> DEFINE g == [i \in 1 .. 0 |-> 0]
      <3>1. g \in [1 .. 0 -> Nat]
        OBVIOUS
      <3>2. g = [i \in 1 .. 0 |-> IF i = 1 THEN x ELSE g[i - 1] \div (2 * Base)]
        OBVIOUS
      <3>3. IsShifts(g, x, 0)
        BY <3>2, Zenon DEF IsShifts
      <3>. QED
        BY <3>1, <3>3
    <2>. QED
      BY <2>1
  <1>2. ASSUME NEW m \in Nat, m \in T
        PROVE  m + 1 \in T
    <2>1. ASSUME NEW x \in Nat
          PROVE  \E g \in [1 .. (m + 1) -> Nat] : IsShifts(g, x, m + 1)
      <3>1. x \div (2 * Base) \in Nat
        BY DivByte
      <3>2. PICK h \in [1 .. m -> Nat] : IsShifts(h, x \div (2 * Base), m)
        BY <1>2, <3>1
      <3>. QED
        BY <3>2, ShiftsCons, Zenon
    <2>2. m + 1 \in Nat
      OBVIOUS
    <2>. QED
      BY <2>1, <2>2, Zenon
  <1>3. n \in T
    <2> HIDE DEF T
    <2>. QED
      BY <1>1, <1>2, SimpleInduction
  <1>. QED
    BY <1>3

LEMMA ShiftsAgree ==
    ASSUME NEW u, NEW n \in Nat, NEW g, NEW h,
           IsShifts(g, u, n), IsShifts(h, u, n)
    PROVE  \A i \in 1 .. n : g[i] = h[i]
  <1> DEFINE T == {i \in Nat : i + 1 \in 1 .. n => g[i + 1] = h[i + 1]}
  <1>1. 0 \in T
    <2>1. SUFFICES ASSUME 1 \in 1 .. n
                   PROVE  g[1] = h[1]
      OBVIOUS
    <2>. QED
      BY <2>1, ShiftsFirst
  <1>2. ASSUME NEW i \in Nat, i \in T
        PROVE  i + 1 \in T
    <2> DEFINE j == (i + 1) + 1
    <2>1. SUFFICES ASSUME j \in 1 .. n
                   PROVE  g[j] = h[j]
      OBVIOUS
    <2>2. j # 1 /\ j - 1 = i + 1 /\ i + 1 \in 1 .. n
      BY <2>1
    <2>3. g[j - 1] = h[j - 1]
      BY <1>2, <2>2
    <2> HIDE DEF j, T
    <2>4. g[j] = g[j - 1] \div (2 * Base)
      BY <2>1, <2>2, ShiftsNext
    <2>5. h[j] = h[j - 1] \div (2 * Base)
      BY <2>1, <2>2, ShiftsNext
    <2>. QED
      BY <2>3, <2>4, <2>5
  <1>3. \A i \in Nat : i \in T
    <2> HIDE DEF T
    <2>. QED
      BY <1>1, <1>2, SimpleInduction
  <1>4. ASSUME NEW i \in 1 .. n
        PROVE  g[i] = h[i]
    <2>1. i - 1 \in T
      BY <1>3
    <2>2. (i - 1) + 1 = i
      OBVIOUS
    <2>. QED
      BY <1>4, <2>1, <2>2
  <1>. QED
    BY <1>4

LEMMA FixedBytesIs ==
    ASSUME NEW u \in Nat, NEW n \in Nat,
           NEW h \in [1 .. n -> Nat], IsShifts(h, u, n)
    PROVE  FixedBytes(u, n) = [i \in 1 .. n |-> h[i] % (2 * Base)]
  <1> DEFINE W == CHOOSE g : IsShifts(g, u, n)
  <1>1. IsShifts(W, u, n)
    BY Zenon
  <1>2. FixedBytes(u, n) = [i \in 1 .. n |-> W[i] % (2 * Base)]
    BY Zenon DEF FixedBytes, IsShifts
  <1> HIDE DEF W
  <1>3. ASSUME NEW i \in 1 .. n
        PROVE  W[i] = h[i]
    BY <1>1, ShiftsAgree
  <1>. QED
    BY <1>2, <1>3

\* The bytes of a number of n bytes: the first one, and those of the rest.
LEMMA FixedBytesAre ==
    ASSUME NEW u \in Nat, NEW n \in Nat \ {0}
    PROVE  /\ FixedBytes(u, n) \in Seq(Byte)
           /\ FixedBytes(u, n) # <<>>
           /\ Head(FixedBytes(u, n)) = u % (2 * Base)
           /\ Tail(FixedBytes(u, n)) = FixedBytes(u \div (2 * Base), n - 1)
  <1> DEFINE m == n - 1
             v == u \div (2 * Base)
             s == FixedBytes(u, n)
             t == FixedBytes(v, m)
  <1>1. m \in Nat /\ m + 1 = n
    OBVIOUS
  <1>2. v \in Nat
    BY DivByte
  <1>3. PICK h \in [1 .. m -> Nat] : IsShifts(h, v, m)
    <2> HIDE DEF m, v
    <2>. QED
      BY <1>1, <1>2, ShiftsExist
  <1> DEFINE g == Prefixed(u, m, h)
  <1>4. /\ g \in [1 .. n -> Nat]
        /\ IsShifts(g, u, n)
        /\ g[1] = u
        /\ \A i \in 1 .. m : g[i + 1] = h[i]
    <2>1. IsShifts(h, u \div (2 * Base), m) /\ h \in [1 .. m -> Nat]
      BY <1>3 DEF v
    <2>0. m \in Nat
      BY <1>1
    <2> HIDE DEF m, v, s, t, g
    <2>2. /\ g \in [1 .. (m + 1) -> Nat]
          /\ IsShifts(g, u, m + 1)
          /\ g[1] = u
          /\ \A i \in 1 .. m : g[i + 1] = h[i]
      BY <2>0, <2>1, ShiftsCons, Zenon DEF g
    <2>. QED
      BY <1>1, <2>2
  <1> HIDE DEF g
  <1>5. s = [i \in 1 .. n |-> g[i] % (2 * Base)]
    BY <1>4, FixedBytesIs
  <1>6. t = [i \in 1 .. m |-> h[i] % (2 * Base)]
    <2> HIDE DEF m, v
    <2>. QED
      BY <1>1, <1>2, <1>3, FixedBytesIs
  <1> HIDE DEF s, t, m, v
  <1>7. s \in [1 .. n -> Byte] /\ t \in [1 .. m -> Byte]
    <2>1. \A x \in Nat : x % (2 * Base) \in Byte
      BY DivByte
    <2>. QED
      BY <1>3, <1>4, <1>5, <1>6, <2>1
  <1>8. s \in Seq(Byte) /\ Len(s) = n /\ t \in Seq(Byte) /\ Len(t) = m
    BY <1>1, <1>7
  <1>9. s # <<>> /\ Head(s) = s[1] /\ 1 \in 1 .. n
    BY <1>8
  <1>10. Head(s) = u % (2 * Base)
    BY <1>4, <1>5, <1>9
  <1>11. /\ Tail(s) \in Seq(Byte)
         /\ Len(Tail(s)) = m
         /\ \A i \in 1 .. m : Tail(s)[i] = s[i + 1]
    BY <1>8, <1>9, HeadTailProperties DEF m
  <1>12. ASSUME NEW i \in 1 .. m
         PROVE  Tail(s)[i] = t[i]
    <2>1. i + 1 \in 1 .. n
      BY <1>1
    <2>. QED
      BY <1>4, <1>5, <1>6, <1>11, <2>1
  <1>13. Tail(s) = t
    BY <1>8, <1>11, <1>12, SeqEqual
  <1>. QED
    BY <1>8, <1>9, <1>10, <1>13 DEF s, t, m, v

\* A number of no bytes.
LEMMA FixedBytesOfNone ==
    ASSUME NEW u \in Nat
    PROVE  FixedBytes(u, 0) = <<>>
  <1> DEFINE s == FixedBytes(u, 0)
  <1>1. 0 \in Nat
    OBVIOUS
  <1>2. PICK h \in [1 .. 0 -> Nat] : IsShifts(h, u, 0)
    BY <1>1, ShiftsExist
  <1>3. s = [i \in 1 .. 0 |-> h[i] % (2 * Base)]
    BY <1>1, <1>2, FixedBytesIs, Zenon
  <1> HIDE DEF s
  <1>4. s \in [1 .. 0 -> Nat]
    BY <1>3
  <1>5. s \in Seq(Nat) /\ Len(s) = 0
    BY <1>4
  <1>. QED
    BY <1>5, EmptySeq DEF s

-----------------------------------------------------------------------------
(* Reading. *)

ReadCalls == [acc : 0 .. (U64 - 1), place : Nat \ {0}, left : Nat]

\* The Read call r is still to be fed with the bytes rest, and will return w:
\* rest are the bytes of a number q, the part of w that has not been read.
InVarint(r, rest, w) ==
    /\ r.left = 0
    /\ \E q \in Nat : /\ rest = VarintBytes(q)
                      /\ r.acc + q * r.place = w

InFixed(r, rest, w) ==
    /\ r.left # 0
    /\ \E q \in Nat : /\ rest = FixedBytes(q, r.left)
                      /\ q < Words(r.left)
                      /\ r.acc + q * r.place = w

Reading(r, rest, w) == InVarint(r, rest, w) \/ InFixed(r, rest, w)

\* A product with a positive factor is at least the other factor.
LEMMA AtLeastFactor ==
    ASSUME NEW x \in Nat, NEW p \in Nat, NEW x1 \in Nat, x >= x1
    PROVE  x * p >= x1 * p
  <1> DEFINE d == x - x1
  <1>1. d \in Nat /\ x = x1 + d
    OBVIOUS
  <1> HIDE DEF d
  <1>2. (x1 + d) * p = x1 * p + d * p
    BY <1>1
  <1>3. x1 * p \in Nat /\ d * p \in Nat
    BY <1>1
  <1>. QED
    BY <1>1, <1>2, <1>3

\* A varint call that is fed with the first byte of what it expects.
LEMMA VarintNext ==
    ASSUME NEW r \in ReadCalls, NEW rest, NEW w \in 0 .. (U64 - 1),
           InVarint(r, rest, w)
    PROVE  /\ rest \in Seq(Byte) /\ rest # <<>>
           /\ Feed(r, Head(rest)) \in ReadCalls
           /\ ~ Overflows(r, Head(rest))
           /\ Ends(r, Head(rest)) <=> Tail(rest) = <<>>
           /\ Ends(r, Head(rest)) => Feed(r, Head(rest)).acc = w
           /\ ~ Ends(r, Head(rest))
                => InVarint(Feed(r, Head(rest)), Tail(rest), w)
  <1>1. r.left = 0
    BY DEF InVarint
  <1>2. PICK q \in Nat : /\ rest = VarintBytes(q)
                         /\ r.acc + q * r.place = w
    BY DEF InVarint
  <1> DEFINE b == Head(rest)
             a == r.acc
             p == r.place
             d == q \div Base
             m == q % Base
             f == Feed(r, b)
  <1>3. /\ a \in Nat /\ p \in Nat /\ p > 0
        /\ Base \in Nat /\ Base > 1 /\ U64 \in Nat
        /\ w \in Nat /\ w < U64
    BY WireAssumption DEF ReadCalls
  <1>4. d \in Nat /\ m \in 0 .. (Base - 1)
    BY DivBase
  <1>10. (a + m * p) + d * (p * Base) = a + q * p
    <2>1. q = Base * d + m /\ m \in Nat
      BY <1>3, <1>4, DivMod
    <2> HIDE DEF a, p, d, m
    <2>. QED
      BY <1>3, <1>4, <2>1, MoveDigit
  <1>5. /\ rest \in Seq(Byte) /\ rest # <<>>
        /\ b = First(q)
        /\ Tail(rest) = IF q < Base THEN <<>> ELSE VarintBytes(d)
    BY <1>2, VarintBytesAre
  <1>6. /\ f = [acc |-> (a + Payload(b) * p) % U64, place |-> p * Base,
                left |-> 0]
        /\ Ends(r, b) <=> ~ Continues(b)
        /\ Overflows(r, b) <=> Continues(b) /\ p * Base >= U64
    BY <1>1 DEF Feed, FeedVarint, Ends, Overflows
  <1>7. p * Base \in Nat \ {0}
    BY <1>3
  <1> HIDE DEF d, m, f, a, p
  <1>8. CASE q < Base
    <2>1. b = q /\ q % Base = q
      BY <1>3, <1>5, <1>8 DEF First
    <2> HIDE DEF b
    <2>2. Payload(b) = q /\ ~ Continues(b)
      BY <1>3, <1>8, <2>1 DEF Payload, Continues
    <2>3. a + Payload(b) * p = w
      BY <1>2, <2>2 DEF a, p
    <2>4. (a + Payload(b) * p) % U64 = w
      BY <1>3, <2>3
    <2>5. f \in ReadCalls /\ f.acc = w
      BY <1>3, <1>6, <1>7, <2>4 DEF ReadCalls
    <2>6. Tail(rest) = <<>>
      BY <1>5, <1>8
    <2>. QED
      BY <1>5, <1>6, <2>2, <2>5, <2>6 DEF f, b
  <1>9. CASE ~ (q < Base)
    <2>1. b = Base + m
      BY <1>5, <1>9 DEF First, m
    <2> HIDE DEF b
    <2>2. Payload(b) = m /\ Continues(b)
      BY <1>3, <1>4, <2>1 DEF Payload, Continues
    <2>3. (a + m * p) + d * (p * Base) = w
      BY <1>2, <1>10 DEF a, p
    <2>4. d >= 1
      BY <1>3, <1>9 DEF d
    <2>5. m * p \in Nat /\ a + m * p \in Nat /\ d * (p * Base) \in Nat
      BY <1>3, <1>4, <1>7
    <2>6. a + m * p <= w
      BY <1>3, <2>3, <2>5
    <2>7. (a + Payload(b) * p) % U64 = a + m * p
      BY <1>3, <2>2, <2>5, <2>6
    <2>8. p * Base < U64
      <3>1. d * (p * Base) >= 1 * (p * Base)
        BY <1>4, <1>7, <2>4, AtLeastFactor
      <3>2. 1 * (p * Base) = p * Base
        BY <1>7
      <3>. QED
        BY <1>3, <1>7, <2>3, <2>5, <3>1, <3>2
    <2>9. f \in ReadCalls
      BY <1>3, <1>6, <1>7, <2>5, <2>6, <2>7 DEF ReadCalls
    <2>10. Tail(rest) = VarintBytes(d) /\ Tail(rest) # <<>>
      BY <1>4, <1>5, <1>9, VarintBytesAre
    <2>11. InVarint(f, Tail(rest), w)
      <3>1. f.left = 0 /\ f.acc = a + m * p /\ f.place = p * Base
        BY <1>6, <2>7
      <3>2. f.acc + d * f.place = w
        BY <2>3, <3>1
      <3>. QED
        BY <1>4, <2>10, <3>1, <3>2 DEF InVarint
    <2>12. ~ Overflows(r, b) /\ ~ Ends(r, b)
      BY <1>3, <1>6, <1>7, <2>2, <2>8
    <2>. QED
      BY <1>5, <2>9, <2>10, <2>11, <2>12 DEF f, b
  <1>. QED
    BY <1>8, <1>9

\* A call for a fixed-size value that is fed with the first byte of it.
LEMMA FixedNext ==
    ASSUME NEW r \in ReadCalls, NEW rest, NEW w \in 0 .. (U64 - 1),
           InFixed(r, rest, w)
    PROVE  /\ rest \in Seq(Byte) /\ rest # <<>>
           /\ Feed(r, Head(rest)) \in ReadCalls
           /\ ~ Overflows(r, Head(rest))
           /\ Ends(r, Head(rest)) <=> Tail(rest) = <<>>
           /\ Ends(r, Head(rest)) => Feed(r, Head(rest)).acc = w
           /\ ~ Ends(r, Head(rest))
                => InFixed(Feed(r, Head(rest)), Tail(rest), w)
  <1>1. r.left # 0 /\ r.left \in Nat \ {0}
    BY DEF InFixed, ReadCalls
  <1>2. PICK q \in Nat : /\ rest = FixedBytes(q, r.left)
                         /\ q < Words(r.left)
                         /\ r.acc + q * r.place = w
    BY DEF InFixed
  <1> DEFINE B2 == 2 * Base
             b == Head(rest)
             a == r.acc
             p == r.place
             k == r.left - 1
             d == q \div B2
             m == q % B2
             f == Feed(r, b)
  <1>3. /\ a \in Nat /\ p \in Nat /\ p > 0
        /\ B2 \in Nat /\ B2 > 1 /\ U64 \in Nat
        /\ w \in Nat /\ w < U64 /\ k \in Nat
    BY <1>1, WireAssumption DEF ReadCalls
  <1>4. d \in Nat /\ m \in Nat /\ m < B2 /\ q = B2 * d + m
    <2> HIDE DEF B2
    <2>1. d \in Nat /\ m \in 0 .. (B2 - 1) /\ q = B2 * d + m
      BY <1>3, DivMod
    <2> HIDE DEF d, m
    <2>. QED
      BY <1>3, <2>1
  <1>5. /\ rest \in Seq(Byte) /\ rest # <<>>
        /\ b = m
        /\ Tail(rest) = FixedBytes(d, k)
    BY <1>1, <1>2, FixedBytesAre
  <1>6. /\ f = [acc |-> a + b * p, place |-> p * 2 * Base, left |-> k]
        /\ Ends(r, b) <=> k = 0
        /\ ~ Overflows(r, b)
    BY <1>1 DEF Feed, FeedFixed, Ends, Overflows
  <1>7. p * 2 * Base = p * B2 /\ p * B2 \in Nat \ {0}
    BY <1>3, WireAssumption
  <1>8. Words(r.left) = B2 * Words(k) /\ Words(k) \in Nat \ {0}
    BY <1>1, <1>3, WordsDef
  <1> HIDE DEF B2
  <1>9. (a + m * p) + d * (p * B2) = w
    <2>1. (a + m * p) + d * (p * B2) = a + q * p
      <3> HIDE DEF a, p, d, m
      <3>. QED
        BY <1>3, <1>4, MoveDigit
    <2>. QED
      BY <1>2, <2>1
  <1> HIDE DEF d, m, f, a, p, k
  <1>10. m * p \in Nat /\ a + m * p \in Nat /\ d * (p * B2) \in Nat
    BY <1>3, <1>4, <1>7
  <1>11. a + m * p <= w
    BY <1>3, <1>9, <1>10
  <1>12. f \in ReadCalls
    BY <1>3, <1>5, <1>6, <1>7, <1>10, <1>11 DEF ReadCalls
  <1>13. d < Words(k)
    <2>1. SUFFICES ASSUME d >= Words(k)
                   PROVE  FALSE
      BY <1>4, <1>8
    <2>2. d * B2 >= Words(k) * B2
      BY <1>3, <1>4, <1>8, <2>1, AtLeastFactor
    <2>3. d * B2 = B2 * d /\ Words(k) * B2 = B2 * Words(k)
      BY <1>3, <1>4, <1>8
    <2>4. B2 * d \in Nat /\ B2 * Words(k) \in Nat
      BY <1>3, <1>4, <1>8
    <2>. QED
      BY <1>2, <1>4, <1>8, <2>2, <2>3, <2>4
  <1>14. CASE k = 0
    <2>1. Tail(rest) = <<>>
      BY <1>4, <1>5, <1>14, FixedBytesOfNone
    <2>2. d = 0
      <3>1. Words(k) = 1
        BY <1>14, WordsDef
      <3>. QED
        BY <1>4, <1>13, <3>1
    <2>3. f.acc = w
      BY <1>3, <1>5, <1>6, <1>7, <1>9, <1>10, <2>2
    <2>. QED
      BY <1>5, <1>6, <1>12, <1>14, <2>1, <2>3 DEF f
  <1>15. CASE k # 0
    <2>0. k \in Nat \ {0}
      BY <1>3, <1>15
    <2>1. Tail(rest) # <<>>
      <3>1. FixedBytes(d, k) # <<>>
        BY <1>4, <2>0, FixedBytesAre
      <3>. QED
        BY <1>5, <3>1
    <2>2. InFixed(f, Tail(rest), w)
      <3>1. f.left = k /\ f.acc = a + m * p /\ f.place = p * B2
        BY <1>5, <1>6, <1>7
      <3>2. f.acc + d * f.place = w
        BY <1>9, <3>1
      <3>. QED
        BY <1>4, <1>5, <1>13, <1>15, <3>1, <3>2 DEF InFixed
    <2>. QED
      BY <1>5, <1>6, <1>12, <1>15, <2>1, <2>2 DEF f
  <1>. QED
    BY <1>14, <1>15

\* A Read call that is fed with the first byte of what it expects: the byte is
\* never rejected, it completes the call if and only if it is the last one, and
\* then the call returns the number.
LEMMA ReadingNext ==
    ASSUME NEW r \in ReadCalls, NEW rest, NEW w \in 0 .. (U64 - 1),
           Reading(r, rest, w)
    PROVE  /\ rest \in Seq(Byte) /\ rest # <<>>
           /\ Feed(r, Head(rest)) \in ReadCalls
           /\ ~ Overflows(r, Head(rest))
           /\ Ends(r, Head(rest)) <=> Tail(rest) = <<>>
           /\ Ends(r, Head(rest)) => Feed(r, Head(rest)).acc = w
           /\ ~ Ends(r, Head(rest))
                => Reading(Feed(r, Head(rest)), Tail(rest), w)
  <1>1. CASE InVarint(r, rest, w)
    BY <1>1, VarintNext DEF Reading
  <1>2. CASE InFixed(r, rest, w)
    BY <1>2, FixedNext DEF Reading
  <1>. QED
    BY <1>1, <1>2 DEF Reading

\* A new Read call expects all the bytes of the number.
LEMMA ReadingStarts ==
    ASSUME NEW w \in 0 .. (U64 - 1)
    PROVE  /\ NewVarint \in ReadCalls
           /\ Reading(NewVarint, VarintBytes(w), w)
           /\ \A n \in Nat \ {0} :
                  /\ NewFixed(n) \in ReadCalls
                  /\ w < Words(n) => Reading(NewFixed(n), FixedBytes(w, n), w)
  <1>1. w \in Nat /\ 0 \in 0 .. (U64 - 1) /\ 1 \in Nat \ {0}
    BY WireAssumption
  <1>2. 0 + w * 1 = w
    BY <1>1
  <1>3. NewVarint \in ReadCalls
    BY <1>1 DEF NewVarint, ReadCalls
  <1>4. InVarint(NewVarint, VarintBytes(w), w)
    BY <1>1, <1>2 DEF NewVarint, InVarint
  <1>5. ASSUME NEW n \in Nat \ {0}
        PROVE  /\ NewFixed(n) \in ReadCalls
               /\ w < Words(n) => InFixed(NewFixed(n), FixedBytes(w, n), w)
    BY <1>1, <1>2 DEF NewFixed, ReadCalls, InFixed
  <1>. QED
    BY <1>3, <1>4, <1>5 DEF Reading

-----------------------------------------------------------------------------
(* Two's complement and ZigZag. *)

\* The words have an even number of values.
LEMMA WordsAreEven ==
    /\ \E h \in Nat : U32 = 2 * h
    /\ \E h \in Nat : U64 = 2 * h
  <1>1. ASSUME NEW n \in Nat \ {0}
        PROVE  \E h \in Nat : Words(n) = 2 * h
    <2> DEFINE w == Words(n - 1)
    <2>1. w \in Nat /\ Words(n) = 2 * Base * w
      BY WordsDef
    <2> HIDE DEF w
    <2>2. Base \in Nat
      BY WireAssumption
    <2>3. Base * w \in Nat /\ 2 * Base * w = 2 * (Base * w)
      BY <2>1, <2>2
    <2>. QED
      BY <2>1, <2>3
  <1>. QED
    BY <1>1, WireAssumption, WordAssumption

\* A signed number of a word of m values is restored from its ZigZag form,
\* which fits in the word.
LEMMA ZigZagRestores ==
    ASSUME NEW h \in Nat, NEW m \in Nat, m = 2 * h, m <= U64,
           NEW u \in 0 .. (m - 1)
    PROVE  /\ EncodeZigZag(ToSigned(u, m)) \in 0 .. (m - 1)
           /\ DecodeZigZag(EncodeZigZag(ToSigned(u, m))) = ToSigned(u, m)
  <1> DEFINE v == ToSigned(u, m)
             z == EncodeZigZag(v)
  <1>1. U64 \in Nat
    BY WireAssumption
  <1>2. m \div 2 = h
    OBVIOUS
  <1>3. CASE u < h
    <2>1. v = u /\ v \in Nat
      BY <1>2, <1>3 DEF ToSigned
    <2> HIDE DEF v
    <2>2. z = (2 * v) % U64
      BY <2>1 DEF EncodeZigZag
    <2>3. z = 2 * v
      BY <1>1, <1>3, <2>1, <2>2
    <2>4. z \in 0 .. (m - 1)
      BY <1>3, <2>1, <2>3
    <2> HIDE DEF z
    <2>5. z % 2 = 0 /\ z \div 2 = v
      BY <2>1, <2>3
    <2>6. DecodeZigZag(z) = v
      BY <2>5 DEF DecodeZigZag
    <2>. QED
      BY <2>4, <2>6 DEF z, v
  <1>4. CASE ~ (u < h)
    <2> DEFINE k == m - u - 1
    <2>1. v = -k - 1 /\ k \in Nat /\ k < h
      BY <1>2, <1>4 DEF ToSigned
    <2> HIDE DEF v, k
    <2>2. z = (-2 * v - 1) % U64
      BY <2>1 DEF EncodeZigZag
    <2>3. -2 * v - 1 = 2 * k + 1
      BY <2>1
    <2>4. z = 2 * k + 1
      BY <1>1, <2>1, <2>2, <2>3
    <2>5. z \in 0 .. (m - 1)
      BY <2>1, <2>4
    <2> HIDE DEF z
    <2>6. z % 2 = 1 /\ z \div 2 = k
      BY <2>1, <2>4
    <2>7. DecodeZigZag(z) = -k - 1
      BY <2>6 DEF DecodeZigZag
    <2>. QED
      BY <2>1, <2>5, <2>7 DEF z, v
  <1>. QED
    BY <1>3, <1>4

=============================================================================
