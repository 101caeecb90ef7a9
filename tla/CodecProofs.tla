---------------------------- MODULE CodecProofs ----------------------------
(***************************************************************************)
(* What Encode writes, for every message whose sizes ComputeEncodedSize    *)
(* computes rightly: the bytes of a message are those of its fields, and   *)
(* as many as its size says.  The second part relates the bytes to come,   *)
(* and the reader's message objects, to the writer's message: what an      *)
(* element's bytes are to the Read calls, and what it does to the objects  *)
(* when a number, a string or the size of a sub-message has been read.     *)
(* RoundTripProofs concludes.                                              *)
(***************************************************************************)
EXTENDS Codec, WireProofs, FiniteSetTheorems

-----------------------------------------------------------------------------
(* Sums and sequences of sequences. *)

LEMMA FunctionIsSeq ==
    ASSUME NEW S, NEW n \in Nat, NEW s \in [1 .. n -> S]
    PROVE  s \in Seq(S) /\ Len(s) = n /\ DOMAIN s = 1 .. n
  <1>1. s \in Seq(S)
    BY SeqDef
  <1>. QED
    BY <1>1, LenProperties

\* Induction over the sequences that grow at their end.
LEMMA AppendInduction ==
    ASSUME NEW S, NEW T, <<>> \in T,
           \A s \in Seq(S) : \A e \in S : s \in T => Append(s, e) \in T
    PROVE  Seq(S) \subseteq T
  <1> DEFINE R == {n \in Nat : \A s \in Seq(S) : Len(s) = n => s \in T}
  <1>1. 0 \in R
    BY EmptySeq
  <1>2. ASSUME NEW n \in Nat, n \in R
        PROVE  n + 1 \in R
    <2>1. ASSUME NEW s \in Seq(S), Len(s) = n + 1
          PROVE  s \in T
      <3>1. s # <<>>
        BY <2>1, EmptySeq
      <3>2. PICK t \in Seq(S), e \in S : s = Append(t, e)
        BY <3>1, SequenceEmptyOrAppend
      <3>3. Len(s) = Len(t) + 1 /\ Len(t) \in Nat
        BY <3>2, AppendProperties, LenProperties
      <3>4. Len(t) = n
        BY <2>1, <3>3
      <3>. QED
        BY <1>2, <3>2, <3>4
    <2>. QED
      BY <2>1
  <1> HIDE DEF R
  <1>3. \A n \in Nat : n \in R
    BY <1>1, <1>2, SimpleInduction
  <1>4. ASSUME NEW s \in Seq(S)
        PROVE  s \in T
    <2>1. Len(s) \in Nat
      BY LenProperties
    <2>. QED
      BY <1>3, <2>1 DEF R
  <1>. QED
    BY <1>4

Flat(s) == Enc!FlattenSeq(s)

IsFlat(s, g) ==
    g = [i \in 1 .. Len(s) |-> IF i = 1 THEN s[i] ELSE g[i - 1] \o s[i]]

\* The first n prefixes of s, flattened.
Prefixes(f, s, n) ==
    \A i \in 1 .. n : f[i] = IF i = 1 THEN s[i] ELSE f[i - 1] \o s[i]

LEMMA FlatSteps ==
    ASSUME NEW X, X # {}, NEW n \in Nat, NEW s,
           \A i \in 1 .. n : s[i] \in X /\ \A x \in X : x \o s[i] \in X
    PROVE  \E f : Prefixes(f, s, n)
  <1> DEFINE Step == [i \in 1 .. n |-> [x \in X |->
                        IF i = 1 THEN s[i] ELSE x \o s[i]]]
  <1>1. Step \in [1 .. n -> [X -> X]]
    OBVIOUS
  <1>2. \A i \in 1 .. n : \A x \in X :
            Step[i][x] = IF i = 1 THEN s[i] ELSE x \o s[i]
    OBVIOUS
  <1> HIDE DEF Step
  <1>5. PICK c : c \in X
    OBVIOUS
  <1>3. PICK f \in [0 .. n -> X] : /\ f[0] = c
                                  /\ \A i \in 1 .. n : f[i] = Step[i][f[i - 1]]
    BY <1>1, <1>5, PrimitiveRecursion
  <1>4. \A i \in 1 .. n : f[i - 1] \in X
    <2>1. \A i \in 1 .. n : i - 1 \in 0 .. n
      OBVIOUS
    <2>. QED
      BY <2>1
  <1>6. \A i \in 1 .. n : f[i] = IF i = 1 THEN s[i] ELSE f[i - 1] \o s[i]
    BY <1>2, <1>3, <1>4
  <1>. QED
    BY <1>6 DEF Prefixes

LEMMA FlatsExist ==
    ASSUME NEW S, NEW s \in Seq(Seq(S))
    PROVE  \E g : IsFlat(s, g)
  <1> DEFINE n == Len(s)
             X == Seq(S)
  <1>1. n \in Nat /\ \A i \in 1 .. n : s[i] \in X
    BY LenProperties, ElementOfSeq
  <1>2. \A i \in 1 .. n : \A x \in X : x \o s[i] \in X
    BY <1>1, ConcatProperties
  <1>3. X # {}
    BY EmptySeq
  <1>4. PICK f : Prefixes(f, s, n)
    <2>1. n \in Nat
      BY <1>1
    <2>2. \A i \in 1 .. n : s[i] \in X /\ \A x \in X : x \o s[i] \in X
      BY <1>1, <1>2
    <2> HIDE DEF X, n
    <2>. QED
      BY <1>3, <2>1, <2>2, FlatSteps
  <1> DEFINE g == [i \in 1 .. n |-> f[i]]
  <1>5. \A i \in 1 .. n : i # 1 => i - 1 \in 1 .. n
    BY <1>1
  <1> HIDE DEF n
  <1>6. g = [i \in 1 .. n |-> IF i = 1 THEN s[i] ELSE g[i - 1] \o s[i]]
    BY <1>4, <1>5 DEF Prefixes
  <1>. QED
    BY <1>6 DEF IsFlat, n

LEMMA FlatIs ==
    ASSUME NEW S, NEW s \in Seq(Seq(S)), s # <<>>
    PROVE  \E g : IsFlat(s, g) /\ Flat(s) = g[Len(s)]
  <1>1. Len(s) # 0
    BY EmptySeq
  <1>2. Flat(s) = (CHOOSE g : IsFlat(s, g))[Len(s)]
    BY <1>1, Zenon DEF Flat, Enc!FlattenSeq, IsFlat
  <1>. QED
    BY <1>2, FlatsExist, Zenon

LEMMA FlatAt ==
    ASSUME NEW s, NEW g, IsFlat(s, g), NEW i \in 1 .. Len(s)
    PROVE  g[i] = IF i = 1 THEN s[i] ELSE g[i - 1] \o s[i]
  BY Zenon DEF IsFlat

\* What FlattenSeq computes, element by element.
LEMMA FlatAppend ==
    ASSUME NEW S, NEW s \in Seq(Seq(S)), NEW e \in Seq(S),
           Flat(s) \in Seq(S)
    PROVE  Flat(Append(s, e)) = Flat(s) \o e
  <1> DEFINE t == Append(s, e)
             n == Len(s)
  <1>1. /\ t \in Seq(Seq(S)) /\ t # <<>> /\ Len(t) = n + 1 /\ n \in Nat
        /\ \A i \in 1 .. n : t[i] = s[i]
        /\ t[n + 1] = e
    BY AppendProperties, LenProperties
  <1> HIDE DEF t
  <1>2. PICK g : IsFlat(t, g) /\ Flat(t) = g[n + 1]
    BY <1>1, FlatIs
  <1>3. g[n + 1] = IF n + 1 = 1 THEN e ELSE g[n + 1 - 1] \o e
    BY <1>1, <1>2, FlatAt, n + 1 \in 1 .. n + 1
  <1>4. CASE s = <<>>
    <2>1. n = 0
      BY <1>4
    <2>2. Flat(s) = <<>>
      BY <1>4, <2>1 DEF Flat, Enc!FlattenSeq
    <2>3. Flat(t) = e
      BY <1>2, <1>3, <2>1
    <2>4. <<>> \o e = e
      BY ConcatEmptySeq
    <2>. QED
      BY <2>2, <2>3, <2>4 DEF t
  <1>5. CASE s # <<>>
    <2>1. n # 0
      BY <1>5, EmptySeq
    <2>2. PICK h : IsFlat(s, h) /\ Flat(s) = h[n]
      BY <1>5, FlatIs
    <2> DEFINE T == {i \in Nat : i \in 1 .. n => g[i] = h[i]}
    <2>3. 0 \in T
      OBVIOUS
    <2>4. ASSUME NEW i \in Nat, i \in T
          PROVE  i + 1 \in T
      <3>1. SUFFICES ASSUME i + 1 \in 1 .. n
                     PROVE  g[i + 1] = h[i + 1]
        OBVIOUS
      <3>2. /\ i + 1 \in 1 .. Len(t) /\ i + 1 \in 1 .. Len(s)
            /\ t[i + 1] = s[i + 1]
            /\ i + 1 - 1 = i
        BY <1>1, <3>1
      <3>3. g[i + 1] = IF i + 1 = 1 THEN s[i + 1] ELSE g[i] \o s[i + 1]
        BY <1>2, <3>2, FlatAt
      <3>4. h[i + 1] = IF i + 1 = 1 THEN s[i + 1] ELSE h[i] \o s[i + 1]
        BY <2>2, <3>2, FlatAt
      <3>5. i + 1 # 1 => g[i] = h[i]
        BY <2>4, <3>1
      <3>. QED
        BY <3>3, <3>4, <3>5
    <2> HIDE DEF T
    <2>5. \A i \in Nat : i \in T
      BY <2>3, <2>4, SimpleInduction
    <2>6. g[n] = h[n]
      BY <1>1, <2>1, <2>5 DEF T
    <2>7. n + 1 # 1 /\ n + 1 - 1 = n
      BY <1>1, <2>1
    <2>. QED
      BY <1>2, <1>3, <2>2, <2>6, <2>7 DEF t
  <1>. QED
    BY <1>4, <1>5

LEMMA FlatTyped ==
    ASSUME NEW S
    PROVE  /\ Flat(<<>>) = <<>>
           /\ \A s \in Seq(Seq(S)) :
                /\ Flat(s) \in Seq(S)
                /\ \A e \in Seq(S) : Flat(Append(s, e)) = Flat(s) \o e
  <1>1. Flat(<<>>) = <<>>
    BY DEF Flat, Enc!FlattenSeq
  <1> DEFINE T == {s \in Seq(Seq(S)) : Flat(s) \in Seq(S)}
  <1>2. <<>> \in T
    BY <1>1, EmptySeq
  <1>3. ASSUME NEW s \in Seq(Seq(S)), NEW e \in Seq(S), s \in T
        PROVE  Append(s, e) \in T
    <2>1. Flat(Append(s, e)) = Flat(s) \o e
      BY <1>3, FlatAppend
    <2>2. Flat(s) \o e \in Seq(S)
      BY <1>3, ConcatProperties
    <2>3. Append(s, e) \in Seq(Seq(S))
      BY AppendProperties
    <2>. QED
      BY <2>1, <2>2, <2>3
  <1>4. Seq(Seq(S)) \subseteq T
    <2> HIDE DEF T
    <2>. QED
      BY <1>2, <1>3, AppendInduction
  <1>. QED
    BY <1>1, <1>4, FlatAppend

LEMMA Associates ==
    ASSUME NEW S
    PROVE  \A x, y, z \in Seq(S) : (x \o y) \o z = x \o (y \o z)
  BY ConcatAssociative

LEMMA FlatConcat ==
    ASSUME NEW S, NEW s \in Seq(Seq(S))
    PROVE  \A t \in Seq(Seq(S)) : Flat(s \o t) = Flat(s) \o Flat(t)
  <1> DEFINE T == {t \in Seq(Seq(S)) : Flat(s \o t) = Flat(s) \o Flat(t)}
  <1>0. \A x, y, z \in Seq(S) : (x \o y) \o z = x \o (y \o z)
    BY Associates
  <1>00. \A x, y, z \in Seq(Seq(S)) : (x \o y) \o z = x \o (y \o z)
    BY Associates
  <1>1. <<>> \in T
    <2>1. s \o <<>> = s /\ Flat(s) \o <<>> = Flat(s)
      BY ConcatEmptySeq, FlatTyped
    <2>. QED
      BY <2>1, FlatTyped, EmptySeq
  <1>2. ASSUME NEW t \in Seq(Seq(S)), NEW e \in Seq(S), t \in T
        PROVE  Append(t, e) \in T
    <2>1. /\ s \o t \in Seq(Seq(S))
          /\ Flat(s) \in Seq(S) /\ Flat(t) \in Seq(S)
          /\ Append(t, e) \in Seq(Seq(S))
      BY ConcatProperties, FlatTyped, AppendProperties
    <2>2. <<e>> \in Seq(Seq(S))
      OBVIOUS
    <2>3. s \o Append(t, e) = Append(s \o t, e)
      <3>1. Append(t, e) = t \o <<e>>
        BY AppendIsConcat
      <3>2. Append(s \o t, e) = (s \o t) \o <<e>>
        BY <2>1, AppendIsConcat
      <3>3. (s \o t) \o <<e>> = s \o (t \o <<e>>)
        BY <1>00, <2>2, Zenon
      <3>. QED
        BY <3>1, <3>2, <3>3
    <2>4. Flat(s \o Append(t, e)) = Flat(s \o t) \o e
      BY <2>1, <2>3, FlatTyped
    <2>5. Flat(s \o t) = Flat(s) \o Flat(t)
      BY <1>2
    <2>6. (Flat(s) \o Flat(t)) \o e = Flat(s) \o (Flat(t) \o e)
      BY <1>0, <2>1, Zenon
    <2>7. Flat(Append(t, e)) = Flat(t) \o e
      BY FlatTyped
    <2>. QED
      BY <2>1, <2>4, <2>5, <2>6, <2>7
  <1>3. Seq(Seq(S)) \subseteq T
    <2> HIDE DEF T
    <2>. QED
      BY <1>1, <1>2, AppendInduction
  <1>. QED
    BY <1>3


-----------------------------------------------------------------------------
(* SumFunction adds in an order that is not specified. *)

Total(f) == Enc!SumFunction(f)

\* g is the sum of f over each subset of D, whichever element is added last.
Additive(g, f, D) ==
    /\ g[{}] = 0
    /\ \A s \in SUBSET D : g[s] \in Nat
    /\ \A s \in SUBSET D : \A x \in s : g[s] = f[x] + g[s \ {x}]

IsTotal(g, f, D) ==
    g = [s \in SUBSET D |-> IF s = {} THEN 0
                            ELSE LET x == CHOOSE x \in s : TRUE
                                 IN  f[x] + g[s \ {x}]]

LEMMA AdditiveExists ==
    ASSUME NEW n \in Nat, NEW f, \A i \in 1 .. n : f[i] \in Nat
    PROVE  \E g : Additive(g, f, 1 .. n)
  <1> DEFINE T == {i \in 0 .. n : \E g : Additive(g, f, 1 .. i)}
  <1>1. 0 \in T
    <2> DEFINE g == [s \in {{}} |-> 0]
    <2>1. 1 .. 0 = {} /\ SUBSET {} = {{}}
      OBVIOUS
    <2>2. g[{}] = 0
      OBVIOUS
    <2>3. Additive(g, f, {})
      BY <2>1, <2>2 DEF Additive
    <2>. QED
      BY <2>1, <2>3
  <1>2. ASSUME NEW i \in 1 .. n, i - 1 \in T
        PROVE  i \in T
    <2> DEFINE D == 1 .. (i - 1)
    <2>1. PICK g : Additive(g, f, D)
      BY <1>2
    <2>2. /\ 1 .. i = D \cup {i} /\ i \notin D
          /\ \A x \in D : f[x] \in Nat
          /\ f[i] \in Nat
      OBVIOUS
    <2> HIDE DEF D
    <2> DEFINE h == [s \in SUBSET (D \cup {i}) |->
                        IF i \in s THEN f[i] + g[s \ {i}] ELSE g[s]]
    <2>3. \A s \in SUBSET (D \cup {i}) :
            /\ i \in s => s \ {i} \in SUBSET D /\ h[s] = f[i] + g[s \ {i}]
            /\ i \notin s => s \in SUBSET D /\ h[s] = g[s]
      BY Zenon
    <2> HIDE DEF h
    <2>4. h[{}] = 0
      <3>1. {} \in SUBSET (D \cup {i}) /\ i \notin {}
        OBVIOUS
      <3>. QED
        BY <2>1, <2>3, <3>1 DEF Additive
    <2>5. ASSUME NEW s \in SUBSET (D \cup {i})
          PROVE  h[s] \in Nat
      <3>1. \A r \in SUBSET D : g[r] \in Nat
        BY <2>1 DEF Additive
      <3>2. CASE i \in s
        <4>1. g[s \ {i}] \in Nat /\ h[s] = f[i] + g[s \ {i}]
          BY <2>3, <3>1, <3>2
        <4>. QED
          BY <2>2, <4>1
      <3>3. CASE i \notin s
        BY <2>3, <3>1, <3>3
      <3>. QED
        BY <3>2, <3>3
    <2>6. ASSUME NEW s \in SUBSET (D \cup {i}), NEW x \in s
          PROVE  h[s] = f[x] + h[s \ {x}]
      <3>0. s \ {x} \in SUBSET (D \cup {i})
        OBVIOUS
      <3>1. CASE x = i
        BY <2>3, <3>0, <3>1
      <3>2. CASE x # i /\ i \notin s
        <4>1. s \in SUBSET D /\ i \notin s \ {x}
          BY <3>2
        <4>2. h[s] = g[s] /\ h[s \ {x}] = g[s \ {x}]
          BY <2>3, <3>0, <3>2, <4>1
        <4>. QED
          BY <2>1, <4>1, <4>2 DEF Additive
      <3>3. CASE x # i /\ i \in s
        <4> DEFINE r == s \ {i}
        <4>1. /\ r \in SUBSET D /\ x \in r /\ r \ {x} \in SUBSET D
              /\ (s \ {x}) \ {i} = r \ {x}
              /\ i \in s \ {x} /\ x \in D
          BY <3>3
        <4>2. h[s] = f[i] + g[r] /\ h[s \ {x}] = f[i] + g[r \ {x}]
          BY <2>3, <3>0, <3>3, <4>1
        <4>3. g[r] = f[x] + g[r \ {x}] /\ g[r \ {x}] \in Nat
          BY <2>1, <4>1 DEF Additive
        <4>. QED
          BY <2>2, <4>1, <4>2, <4>3
      <3>. QED
        BY <3>1, <3>2, <3>3
    <2>7. Additive(h, f, 1 .. i)
      BY <2>2, <2>4, <2>5, <2>6 DEF Additive
    <2>. QED
      BY <2>7
  <1>3. \A i \in 0 .. n : i \in T
    <2> HIDE DEF T
    <2>. QED
      BY <1>1, <1>2, BoundedInduction
  <1>. QED
    BY <1>3

LEMMA TotalIs ==
    ASSUME NEW n \in Nat, NEW f, DOMAIN f = 1 .. n, NEW g, Additive(g, f, 1 .. n)
    PROVE  Total(f) = g[1 .. n]
  <1> DEFINE D == 1 .. n
  <1>0. IsFiniteSet(D)
    BY FS_Interval
  <1> HIDE DEF D
  <1>1. \E t : IsTotal(t, f, D)
    <2> DEFINE t == [s \in SUBSET D |-> g[s]]
    <2>1. ASSUME NEW s \in SUBSET D
          PROVE  g[s] = IF s = {} THEN 0
                        ELSE LET x == CHOOSE x \in s : TRUE
                             IN  f[x] + t[s \ {x}]
      <3>1. CASE s = {}
        BY <3>1 DEF Additive
      <3>2. CASE s # {}
        <4> DEFINE x == CHOOSE x \in s : TRUE
        <4>1. x \in s
          BY <3>2
        <4>2. s \ {x} \in SUBSET D
          OBVIOUS
        <4>3. t[s \ {x}] = g[s \ {x}]
          BY <4>2
        <4>4. g[s] = f[x] + g[s \ {x}]
          BY <4>1 DEF Additive, D
        <4>. QED
          BY <3>2, <4>3, <4>4
      <3>. QED
        BY <3>1, <3>2
    <2>2. IsTotal(t, f, D)
      BY <2>1 DEF IsTotal
    <2>. QED
      BY <2>2
  <1>2. PICK t : IsTotal(t, f, D) /\ Total(f) = t[D]
    <2>1. Total(f) = (CHOOSE t : IsTotal(t, f, D))[D]
      BY Zenon DEF Total, Enc!SumFunction, Enc!SumFunctionOnSet,
                   Enc!FoldFunctionOnSet, Enc!MapThenFoldSet, IsTotal, D
    <2>. QED
      BY <1>1, <2>1, Zenon
  <1> DEFINE T == {k \in Nat : \A s \in SUBSET D :
                                  Cardinality(s) = k => t[s] = g[s]}
  <1>3. 0 \in T
    <2>1. ASSUME NEW s \in SUBSET D, Cardinality(s) = 0
          PROVE  t[s] = g[s]
      <3>1. s = {}
        BY <1>0, <2>1, FS_Subset, FS_EmptySet
      <3>2. t[{}] = 0
        BY <1>2, Zenon DEF IsTotal
      <3>. QED
        BY <3>1, <3>2 DEF Additive
    <2>. QED
      BY <2>1
  <1>4. ASSUME NEW k \in Nat, k \in T
        PROVE  k + 1 \in T
    <2>1. ASSUME NEW s \in SUBSET D, Cardinality(s) = k + 1
          PROVE  t[s] = g[s]
      <3>1. s # {} /\ IsFiniteSet(s)
        BY <1>0, <2>1, FS_Subset, FS_EmptySet
      <3> DEFINE x == CHOOSE x \in s : TRUE
      <3>2. x \in s
        BY <3>1
      <3>3. t[s] = f[x] + t[s \ {x}]
        BY <1>2, <3>1, Zenon DEF IsTotal
      <3> HIDE DEF x
      <3>4. Cardinality(s \ {x}) = k
        BY <2>1, <3>1, <3>2, FS_RemoveElement
      <3>5. s \ {x} \in SUBSET D
        OBVIOUS
      <3>6. t[s \ {x}] = g[s \ {x}]
        BY <1>4, <3>4, <3>5
      <3>7. g[s] = f[x] + g[s \ {x}]
        BY <3>2 DEF Additive, D
      <3>. QED
        BY <3>3, <3>6, <3>7
    <2>. QED
      BY <2>1
  <1>5. \A k \in Nat : k \in T
    <2> HIDE DEF T
    <2>. QED
      BY <1>3, <1>4, SimpleInduction
  <1>6. Cardinality(D) \in Nat
    BY <1>0, FS_CardinalityType
  <1>. QED
    BY <1>2, <1>5, <1>6 DEF D

\* The sum of the numbers of bytes is the number of the bytes in all.
LEMMA TotalOfFlat ==
    ASSUME NEW S, NEW t \in Seq(Seq(Seq(S))), NEW f, DOMAIN f = 1 .. Len(t),
           \A i \in 1 .. Len(t) : f[i] = Len(Flat(t[i]))
    PROVE  Total(f) = Len(Flat(Flat(t)))
  <1> DEFINE n == Len(t)
             X == Seq(Seq(S))
  <1>1. n \in Nat /\ \A i \in 1 .. n : t[i] \in X
    BY LenProperties, ElementOfSeq
  <1>2. \A i \in 1 .. n : /\ Flat(t[i]) \in Seq(S)
                          /\ f[i] \in Nat /\ f[i] = Len(Flat(t[i]))
    <2>1. \A i \in 1 .. n : Flat(t[i]) \in Seq(S)
      BY <1>1, FlatTyped
    <2>. QED
      BY <2>1, LenProperties
  <1>3. PICK g : Additive(g, f, 1 .. n)
    <2> HIDE DEF n
    <2>. QED
      BY <1>1, <1>2, AdditiveExists
  <1>4. Total(f) = g[1 .. n]
    BY <1>1, <1>3, TotalIs
  <1>5. CASE t = <<>>
    <2>1. n = 0 /\ 1 .. n = {}
      BY <1>5
    <2>2. Flat(t) = <<>> /\ Flat(Flat(t)) = <<>>
      BY <1>5, FlatTyped
    <2>3. Len(Flat(Flat(t))) = 0
      BY <2>2
    <2>. QED
      BY <1>3, <1>4, <2>1, <2>3 DEF Additive
  <1>6. CASE t # <<>>
    <2>0. n # 0
      BY <1>6, EmptySeq
    <2>1. PICK h : IsFlat(t, h) /\ Flat(t) = h[n]
      BY <1>6, FlatIs
    <2> DEFINE T == {i \in 0 .. n : i # 0 =>
                        h[i] \in X /\ Len(Flat(h[i])) = g[1 .. i]}
    <2>2. 0 \in T
      BY <1>1
    <2>3. ASSUME NEW i \in 1 .. n, i - 1 \in T
          PROVE  i \in T
      <3>1. h[i] = IF i = 1 THEN t[i] ELSE h[i - 1] \o t[i]
        BY <2>1, FlatAt
      <3>2. g[1 .. i] = f[i] + g[1 .. (i - 1)]
        <4>1. 1 .. i \in SUBSET (1 .. n) /\ i \in 1 .. i
          BY <1>1
        <4>2. (1 .. i) \ {i} = 1 .. (i - 1)
          BY <1>1
        <4>3. g[1 .. i] = f[i] + g[(1 .. i) \ {i}]
          BY <1>3, <4>1, Zenon DEF Additive
        <4>. QED
          BY <4>2, <4>3
      <3>3. t[i] \in X /\ f[i] = Len(Flat(t[i])) /\ f[i] \in Nat
        BY <1>1, <1>2
      <3>4. CASE i = 1
        <4>1. g[1 .. (i - 1)] = 0
          BY <1>3, <3>4 DEF Additive
        <4>. QED
          BY <1>1, <3>1, <3>2, <3>3, <3>4, <4>1
      <3>5. CASE i # 1
        <4>1. i - 1 # 0 /\ h[i - 1] \in X /\ Len(Flat(h[i - 1])) = g[1 .. (i - 1)]
          BY <2>3, <3>5
        <4>2. h[i] = h[i - 1] \o t[i]
          BY <3>1, <3>5
        <4>3. Flat(h[i]) = Flat(h[i - 1]) \o Flat(t[i])
          BY <3>3, <4>1, <4>2, FlatConcat
        <4>4. h[i] \in X
          BY <3>3, <4>1, <4>2, ConcatProperties
        <4>5. Flat(h[i - 1]) \in Seq(S) /\ Flat(t[i]) \in Seq(S)
          BY <3>3, <4>1, FlatTyped
        <4>6. /\ Len(Flat(h[i])) = Len(Flat(h[i - 1])) + Len(Flat(t[i]))
              /\ Len(Flat(h[i - 1])) \in Nat
          BY <4>3, <4>5, ConcatProperties, LenProperties
        <4>7. Len(Flat(h[i])) = g[1 .. i]
          BY <3>2, <3>3, <4>1, <4>6
        <4>. QED
          BY <4>4, <4>7
      <3>. QED
        BY <3>4, <3>5
    <2>4. \A i \in 0 .. n : i \in T
      <3> HIDE DEF T, n
      <3>. QED
        BY <1>1, <2>2, <2>3, BoundedInduction
    <2>5. Len(Flat(h[n])) = g[1 .. n]
      BY <1>1, <2>0, <2>4
    <2>. QED
      BY <1>4, <2>1, <2>5
  <1>. QED
    BY <1>5, <1>6

\* A sum of natural numbers is one.
LEMMA TotalInNat ==
    ASSUME NEW n \in Nat, NEW f \in [1 .. n -> Nat]
    PROVE  Total(f) \in Nat
  <1>1. PICK g : Additive(g, f, 1 .. n)
    <2>1. \A i \in 1 .. n : f[i] \in Nat
      OBVIOUS
    <2>. QED
      BY <2>1, AdditiveExists
  <1>2. Total(f) = g[1 .. n]
    BY <1>1, TotalIs
  <1>. QED
    BY <1>1, <1>2 DEF Additive


-----------------------------------------------------------------------------
(* The sizes of numbers. *)

IsSizes(g, n) ==
    g = [x \in 0 .. n |-> IF x < Base THEN 1 ELSE 1 + g[x \div Base]]

LEMMA VarintLength ==
    ASSUME NEW x \in Nat
    PROVE  /\ Len(VarintBytes(x)) \in Nat
           /\ Len(VarintBytes(x)) =
                IF x < Base THEN 1 ELSE 1 + Len(VarintBytes(x \div Base))
  <1>1. /\ VarintBytes(x) \in Seq(Byte) /\ VarintBytes(x) # <<>>
        /\ Tail(VarintBytes(x)) = IF x < Base THEN <<>>
                                  ELSE VarintBytes(x \div Base)
    BY VarintBytesAre
  <1>2. /\ Len(VarintBytes(x)) \in Nat
        /\ Len(Tail(VarintBytes(x))) = Len(VarintBytes(x)) - 1
    <2>1. VarintBytes(x) \in Seq(Byte) /\ VarintBytes(x) # <<>>
      BY <1>1
    <2>. QED
      BY <2>1, HeadTailProperties, LenProperties
  <1>3. x < Base => Len(Tail(VarintBytes(x))) = 0
    <2>1. x < Base => Tail(VarintBytes(x)) = <<>>
      BY <1>1
    <2>2. Len(<<>>) = 0
      OBVIOUS
    <2>. QED
      BY <2>1, <2>2
  <1>4. ~ (x < Base) =>
            Len(Tail(VarintBytes(x))) = Len(VarintBytes(x \div Base))
    BY <1>1
  <1>. QED
    BY <1>2, <1>3, <1>4

\* ComputeEncodedVarintSize is the number of bytes that WriteVarint writes.
LEMMA VarintSize ==
    ASSUME NEW u \in Nat
    PROVE  ComputeEncodedVarintSize(u) = Len(VarintBytes(u))
  <1> DEFINE g == [x \in 0 .. u |-> Len(VarintBytes(x))]
  <1>0. \A x \in 0 .. u : ~ (x < Base) => x \div Base \in 0 .. u /\ x \div Base < x
    BY DivBase, WireAssumption
  <1>1. IsSizes(g, u)
    <2>1. ASSUME NEW x \in 0 .. u
          PROVE  Len(VarintBytes(x)) = IF x < Base THEN 1 ELSE 1 + g[x \div Base]
      <3>1. ~ (x < Base) => g[x \div Base] = Len(VarintBytes(x \div Base))
        BY <1>0
      <3>2. Len(VarintBytes(x)) =
                IF x < Base THEN 1 ELSE 1 + Len(VarintBytes(x \div Base))
        BY VarintLength
      <3>. QED
        BY <3>1, <3>2
    <2>. QED
      BY <2>1 DEF IsSizes
  <1>2. PICK h : IsSizes(h, u) /\ ComputeEncodedVarintSize(u) = h[u]
    <2>1. \E h : IsSizes(h, u)
      BY <1>1
    <2>. QED
      BY <2>1, Zenon DEF IsSizes, ComputeEncodedVarintSize
  <1>3. \A x \in 0 .. u : h[x] = IF x < Base THEN 1 ELSE 1 + h[x \div Base]
    BY <1>2, Zenon DEF IsSizes
  <1> DEFINE T == {x \in Nat : x <= u => h[x] = Len(VarintBytes(x))}
  <1>4. ASSUME NEW x \in Nat, \A y \in Nat : y < x => y \in T
        PROVE  x \in T
    <2>1. SUFFICES ASSUME x <= u
                   PROVE  h[x] = Len(VarintBytes(x))
      OBVIOUS
    <2>2. x \in 0 .. u
      BY <2>1
    <2>3. CASE x < Base
      BY <1>3, <2>2, <2>3, VarintLength
    <2>4. CASE ~ (x < Base)
      <3>1. x \div Base \in 0 .. u /\ x \div Base < x
        BY <1>0, <2>2, <2>4
      <3>2. h[x \div Base] = Len(VarintBytes(x \div Base))
        BY <1>4, <3>1
      <3>. QED
        BY <1>3, <2>2, <2>4, <3>2, VarintLength
    <2>. QED
      BY <2>3, <2>4
  <1>5. \A x \in Nat : x \in T
    <2> HIDE DEF T
    <2>. QED
      BY <1>4, StrongInduction
  <1>. QED
    BY <1>2, <1>5

LEMMA FixedLength ==
    ASSUME NEW u \in Nat, NEW n \in Nat \ {0}
    PROVE  FixedBytes(u, n) \in Seq(Byte) /\ Len(FixedBytes(u, n)) = n
  <1>1. FixedBytes(u, n) \in Seq(Byte)
    BY FixedBytesAre
  <1>2. DOMAIN FixedBytes(u, n) = 1 .. n
    BY DEF FixedBytes
  <1>. QED
    BY <1>1, <1>2, LenProperties

\* The operators of the Encoder's wire format are those of the module Wire.
LEMMA SameWire ==
    /\ Enc!Byte = Byte
    /\ \A u : Enc!VarintBytes(u) = VarintBytes(u)
    /\ \A u, n : Enc!FixedBytes(u, n) = FixedBytes(u, n)
    /\ \A u : Enc!ComputeEncodedVarintSize(u) = ComputeEncodedVarintSize(u)
    /\ \A v : Enc!EncodeZigZag(v) = EncodeZigZag(v)
  <1>1. \A u : Enc!VarintBytes(u) = VarintBytes(u)
    BY Zenon DEF Enc!VarintBytes, VarintBytes
  <1>2. \A u, n : Enc!FixedBytes(u, n) = FixedBytes(u, n)
    BY Zenon DEF Enc!FixedBytes, FixedBytes
  <1>3. \A u : Enc!ComputeEncodedVarintSize(u) = ComputeEncodedVarintSize(u)
    BY Zenon DEF Enc!ComputeEncodedVarintSize, ComputeEncodedVarintSize
  <1>4. \A v : Enc!EncodeZigZag(v) = EncodeZigZag(v)
    BY Zenon DEF Enc!EncodeZigZag, EncodeZigZag
  <1>. QED
    BY <1>1, <1>2, <1>3, <1>4 DEF Enc!Byte, Byte


-----------------------------------------------------------------------------
(* A value for each number up to n, computed from those after it. *)

Backward(F, n, X) ==
    /\ X # {}
    /\ F \in [1 .. n -> [[1 .. n -> X] -> X]]
    /\ \A m \in 1 .. n : \A s, t \in [1 .. n -> X] :
            (\A j \in (m + 1) .. n : s[j] = t[j]) => F[m][s] = F[m][t]

LEMMA BackwardRecursion ==
    ASSUME NEW n \in Nat, NEW X, NEW F, Backward(F, n, X)
    PROVE  \E s \in [1 .. n -> X] : \A m \in 1 .. n : s[m] = F[m][s]
  <1> DEFINE Solves(s, i) == \A m \in 1 .. n : m + i > n => s[m] = F[m][s]
             R == {i \in 0 .. n : \E s \in [1 .. n -> X] : Solves(s, i)}
  <1>0. /\ X # {}
        /\ F \in [1 .. n -> [[1 .. n -> X] -> X]]
        /\ \A m \in 1 .. n : \A s, t \in [1 .. n -> X] :
                (\A j \in (m + 1) .. n : s[j] = t[j]) => F[m][s] = F[m][t]
    BY DEF Backward
  <1>1. 0 \in R
    <2>1. PICK c : c \in X
      BY <1>0
    <2>2. [j \in 1 .. n |-> c] \in [1 .. n -> X]
      BY <2>1
    <2>3. Solves([j \in 1 .. n |-> c], 0)
      OBVIOUS
    <2> HIDE DEF Solves
    <2>4. \E s \in [1 .. n -> X] : Solves(s, 0)
      BY <2>2, <2>3
    <2>. QED
      BY <2>4
  <1>2. ASSUME NEW i \in 1 .. n, i - 1 \in R
        PROVE  i \in R
    <2>1. PICK s \in [1 .. n -> X] : Solves(s, i - 1)
      BY <1>2
    <2> DEFINE m0 == n - i + 1
               t == [s EXCEPT ![m0] = F[m0][s]]
    <2>2. m0 \in 1 .. n /\ F[m0][s] \in X
      BY <1>0
    <2>3. /\ t \in [1 .. n -> X]
          /\ t[m0] = F[m0][s]
          /\ \A j \in 1 .. n : j # m0 => t[j] = s[j]
      BY <2>2
    <2> HIDE DEF t
    <2>4. ASSUME NEW m \in 1 .. n, m + i > n
          PROVE  t[m] = F[m][t]
      <3>1. \A j \in (m + 1) .. n : s[j] = t[j]
        BY <2>3, <2>4
      <3>2. F[m][s] = F[m][t]
        BY <1>0, <2>3, <3>1
      <3>3. CASE m = m0
        BY <2>3, <3>2, <3>3
      <3>4. CASE m # m0
        <4>1. m + (i - 1) > n
          BY <2>4, <3>4
        <4>2. s[m] = F[m][s]
          BY <2>1, <4>1
        <4>. QED
          BY <2>3, <3>2, <3>4, <4>2
      <3>. QED
        BY <3>3, <3>4
    <2>. QED
      BY <2>3, <2>4
  <1>3. \A i \in 0 .. n : i \in R
    <2> HIDE DEF R
    <2>. QED
      BY <1>1, <1>2, BoundedInduction
  <1>4. PICK s \in [1 .. n -> X] : Solves(s, n)
    <2> HIDE DEF Solves
    <2>. QED
      BY <1>3, n \in 0 .. n
  <1>. QED
    BY <1>4

-----------------------------------------------------------------------------
(* The elements of the fields. *)

Chunks == Seq(Byte) \ {<<>>}

TagBytes(f) == VarintBytes(Enc!Tag(f.num, Enc!GetWireType(f.type)))

LEMMA FormOfI32 ==
    ASSUME NEW f, NEW v, f.type \in Enc!I32Types
    PROVE  \A s, b :
            /\ Enc!ItemSize(f, v, s) = 1 + N32
            /\ Enc!ItemCalls(f, v, s, b) =
                <<TagBytes(f)>> \o <<FixedBytes(v % U32, N32)>>
  BY SameWire DEF TagBytes, Enc!ItemSize, Enc!ItemCalls, Enc!Word, Enc!I32Types,
                  Enc!I64Types

LEMMA FormOfI64 ==
    ASSUME NEW f, NEW v, f.type \in Enc!I64Types
    PROVE  \A s, b :
            /\ Enc!ItemSize(f, v, s) = 1 + N64
            /\ Enc!ItemCalls(f, v, s, b) =
                <<TagBytes(f)>> \o <<FixedBytes(v % U64, N64)>>
  BY SameWire DEF TagBytes, Enc!ItemSize, Enc!ItemCalls, Enc!Word, Enc!I32Types,
                  Enc!I64Types

LEMMA FormOfZigZag ==
    ASSUME NEW f, NEW v, f.type = "sint64"
    PROVE  \A s, b :
            /\ Enc!ItemSize(f, v, s) =
                1 + ComputeEncodedVarintSize(EncodeZigZag(v))
            /\ Enc!ItemCalls(f, v, s, b) =
                <<TagBytes(f)>> \o <<VarintBytes(EncodeZigZag(v))>>
  BY SameWire DEF TagBytes, Enc!ItemSize, Enc!ItemCalls, Enc!Word, Enc!I32Types,
                  Enc!I64Types

LEMMA FormOfVarint ==
    ASSUME NEW f, NEW v, f.type \in Enc!VarintTypes \ {"sint32", "sint64"}
    PROVE  \A s, b :
            /\ Enc!ItemSize(f, v, s) = 1 + ComputeEncodedVarintSize(v % U64)
            /\ Enc!ItemCalls(f, v, s, b) =
                <<TagBytes(f)>> \o <<VarintBytes(Enc!Word(f.type, v))>>
  BY SameWire DEF TagBytes, Enc!ItemSize, Enc!ItemCalls, Enc!I32Types,
                  Enc!I64Types, Enc!VarintTypes

LEMMA FormOfString ==
    ASSUME NEW f, NEW v, f.type = "string"
    PROVE  \A s, b :
            /\ Enc!ItemSize(f, v, s) =
                1 + ComputeEncodedVarintSize(Len(v)) + Len(v)
            /\ Enc!ItemCalls(f, v, s, b) =
                <<TagBytes(f)>> \o
                (<<VarintBytes(Len(v) % U32)>> \o
                 (IF v = <<>> THEN <<>> ELSE <<v>>))
  BY SameWire DEF TagBytes, Enc!ItemSize, Enc!ItemCalls, Enc!I32Types,
                  Enc!I64Types

LEMMA FormOfMessage ==
    ASSUME NEW f, NEW v, f.type = "message"
    PROVE  \A s, b :
            /\ Enc!ItemSize(f, v, s) =
                1 + ComputeEncodedVarintSize(s[v]) + s[v]
            /\ Enc!ItemCalls(f, v, s, b) =
                <<TagBytes(f)>> \o (<<VarintBytes(s[v] % U32)>> \o b[v])
  BY SameWire DEF TagBytes, Enc!ItemSize, Enc!ItemCalls, Enc!I32Types,
                  Enc!I64Types

\* One call, and two.
LEMMA FlatOne ==
    ASSUME NEW S, NEW c \in Seq(S)
    PROVE  Flat(<<c>>) = c
  <1>1. Append(<<>>, c) = <<c>> /\ <<>> \in Seq(Seq(S))
    OBVIOUS
  <1>2. <<>> \o c = c
    BY ConcatEmptySeq
  <1>. QED
    BY <1>1, <1>2, FlatTyped

LEMMA FlatCons ==
    ASSUME NEW S, NEW c \in Seq(S), NEW s \in Seq(Seq(S))
    PROVE  Flat(<<c>> \o s) = c \o Flat(s)
  <1>1. <<c>> \in Seq(Seq(S))
    OBVIOUS
  <1>2. Flat(<<c>> \o s) = Flat(<<c>>) \o Flat(s)
    BY <1>1, FlatConcat
  <1>. QED
    BY <1>2, FlatOne

LEMMA TagLength ==
    ASSUME NEW h, NEW m, NEW f, NEW v, Enc!Sizable(h, m, f, v)
    PROVE  TagBytes(f) \in Chunks /\ Len(TagBytes(f)) = 1
  <1> DEFINE t == Enc!Tag(f.num, Enc!GetWireType(f.type))
  <1>1. t < Base /\ f.num \in Nat
    BY DEF Enc!Sizable
  <1>2. Enc!GetWireType(f.type) \in Nat
    BY DEF Enc!GetWireType, Enc!kI32, Enc!kI64, Enc!kLen, Enc!kVarint
  <1>3. t \in Nat
    <2>1. U32 \in Nat \ {0}
      BY WireAssumption
    <2>. QED
      BY <1>1, <1>2, <2>1 DEF Enc!Tag
  <1>4. TagBytes(f) = VarintBytes(t)
    BY DEF TagBytes
  <1> HIDE DEF t
  <1>5. TagBytes(f) \in Seq(Byte) /\ TagBytes(f) # <<>>
    BY <1>3, <1>4, VarintBytesAre
  <1>6. Len(TagBytes(f)) = 1
    BY <1>1, <1>3, <1>4, VarintLength
  <1>. QED
    BY <1>5, <1>6 DEF Chunks


LEMMA ChunksAreBytes ==
    /\ Seq(Chunks) \subseteq Seq(Seq(Byte))
    /\ Seq(Seq(Chunks)) \subseteq Seq(Seq(Seq(Byte)))
  <1>1. Chunks \subseteq Seq(Byte)
    BY DEF Chunks
  <1>2. Seq(Chunks) \subseteq Seq(Seq(Byte))
    BY <1>1, SeqMonotonic
  <1>. QED
    BY <1>2, SeqMonotonic

LEMMA OneChunk ==
    ASSUME NEW w \in Chunks
    PROVE  <<w>> \in Seq(Chunks) /\ Flat(<<w>>) = w
  <1>1. w \in Seq(Byte)
    BY DEF Chunks
  <1>2. Flat(<<w>>) = w
    BY <1>1, FlatOne
  <1>. QED
    BY <1>2

LEMMA VarintChunk ==
    ASSUME NEW u \in Nat
    PROVE  /\ VarintBytes(u) \in Chunks
           /\ ComputeEncodedVarintSize(u) = Len(VarintBytes(u))
           /\ Len(VarintBytes(u)) \in Nat
  BY VarintBytesAre, VarintSize, VarintLength DEF Chunks

LEMMA FixedChunk ==
    ASSUME NEW u \in Nat, NEW n \in Nat \ {0}
    PROVE  FixedBytes(u, n) \in Chunks /\ Len(FixedBytes(u, n)) = n
  BY FixedBytesAre, FixedLength DEF Chunks

\* The calls for the tag of an element and for what follows it.
Plain(f, v, c) ==
    \A s, b : /\ Enc!ItemSize(f, v, s) = 1 + Len(Flat(c))
              /\ Enc!ItemCalls(f, v, s, b) = <<TagBytes(f)>> \o c

Number(f, v, w) ==
    \A s, b : /\ Enc!ItemSize(f, v, s) = 1 + Len(w)
              /\ Enc!ItemCalls(f, v, s, b) = <<TagBytes(f)>> \o <<w>>

Nested(h, m, f, v) ==
    /\ v \in (m + 1) .. Len(h)
    /\ Enc!ComputeEncodedSize(h)[v] < U32
    /\ \A s, b :
        /\ Enc!ItemSize(f, v, s) = 1 + ComputeEncodedVarintSize(s[v]) + s[v]
        /\ Enc!ItemCalls(f, v, s, b) =
            <<TagBytes(f)>> \o (<<VarintBytes(s[v] % U32)>> \o b[v])

LEMMA ItemKinds ==
    ASSUME NEW h, NEW m, NEW f, NEW v, Enc!Sizable(h, m, f, v)
    PROVE  (\E c \in Seq(Chunks) : Plain(f, v, c)) \/ Nested(h, m, f, v)
  <1>0. /\ U32 \in Nat \ {0} /\ U64 \in Nat \ {0}
        /\ N32 \in Nat \ {0} /\ N64 \in Nat \ {0}
    BY WireAssumption
  <1>1. ASSUME NEW w \in Chunks, Number(f, v, w)
        PROVE  \E c \in Seq(Chunks) : Plain(f, v, c)
    <2>1. <<w>> \in Seq(Chunks) /\ Flat(<<w>>) = w
      BY OneChunk
    <2>2. Plain(f, v, <<w>>)
      BY <1>1, <2>1 DEF Plain, Number
    <2>. QED
      BY <2>1, <2>2
  <1>2. CASE f.type \in Enc!I32Types /\ v \in Int
    <2>1. v % U32 \in Nat
      BY <1>0, <1>2
    <2> DEFINE w == FixedBytes(v % U32, N32)
    <2>2. w \in Chunks /\ Len(w) = N32
      BY <1>0, <2>1, FixedChunk
    <2>3. \A s, b : /\ Enc!ItemSize(f, v, s) = 1 + N32
                    /\ Enc!ItemCalls(f, v, s, b) = <<TagBytes(f)>> \o <<w>>
      BY <1>2, FormOfI32
    <2> HIDE DEF w
    <2>4. Number(f, v, w)
      BY <2>2, <2>3 DEF Number
    <2>. QED
      BY <1>1, <2>2, <2>4
  <1>3. CASE f.type \in Enc!I64Types /\ v \in Int
    <2>1. v % U64 \in Nat
      BY <1>0, <1>3
    <2> DEFINE w == FixedBytes(v % U64, N64)
    <2>2. w \in Chunks /\ Len(w) = N64
      BY <1>0, <2>1, FixedChunk
    <2>3. \A s, b : /\ Enc!ItemSize(f, v, s) = 1 + N64
                    /\ Enc!ItemCalls(f, v, s, b) = <<TagBytes(f)>> \o <<w>>
      BY <1>3, FormOfI64
    <2> HIDE DEF w
    <2>4. Number(f, v, w)
      BY <2>2, <2>3 DEF Number
    <2>. QED
      BY <1>1, <2>2, <2>4
  <1>4. CASE f.type = "sint64" /\ v \in Int
    <2> DEFINE z == EncodeZigZag(v)
    <2>1. z \in Nat
      BY <1>0, <1>4 DEF EncodeZigZag
    <2> HIDE DEF z
    <2>2. /\ VarintBytes(z) \in Chunks
          /\ ComputeEncodedVarintSize(z) = Len(VarintBytes(z))
      BY <2>1, VarintChunk
    <2>3. \A s, b :
            /\ Enc!ItemSize(f, v, s) = 1 + ComputeEncodedVarintSize(z)
            /\ Enc!ItemCalls(f, v, s, b) = <<TagBytes(f)>> \o <<VarintBytes(z)>>
      BY <1>4, FormOfZigZag DEF z
    <2>4. Number(f, v, VarintBytes(z))
      BY <2>2, <2>3 DEF Number
    <2>. QED
      BY <1>1, <2>2, <2>4
  <1>5. CASE /\ f.type \in Enc!VarintTypes \ {"sint32", "sint64"}
             /\ v \in Int
             /\ Enc!Word(f.type, v) = v % U64
    <2> DEFINE z == v % U64
    <2>1. z \in Nat
      BY <1>0, <1>5
    <2>3. \A s, b :
            /\ Enc!ItemSize(f, v, s) = 1 + ComputeEncodedVarintSize(z)
            /\ Enc!ItemCalls(f, v, s, b) = <<TagBytes(f)>> \o <<VarintBytes(z)>>
      BY <1>5, FormOfVarint
    <2> HIDE DEF z
    <2>2. /\ VarintBytes(z) \in Chunks
          /\ ComputeEncodedVarintSize(z) = Len(VarintBytes(z))
      BY <2>1, VarintChunk
    <2>4. Number(f, v, VarintBytes(z))
      BY <2>2, <2>3 DEF Number
    <2>. QED
      BY <1>1, <2>2, <2>4
  <1>6. CASE f.type = "string" /\ v \in Seq(Byte) /\ Len(v) < U32
    <2> DEFINE w == VarintBytes(Len(v))
               c == <<w>> \o (IF v = <<>> THEN <<>> ELSE <<v>>)
    <2>1. Len(v) \in Nat /\ Len(v) % U32 = Len(v)
      <3>1. Len(v) \in Nat
        BY <1>6, LenProperties
      <3>. QED
        BY <1>0, <1>6, <3>1
    <2>2. w \in Chunks /\ ComputeEncodedVarintSize(Len(v)) = Len(w)
      BY <2>1, VarintChunk
    <2>3. \A s, b :
            /\ Enc!ItemSize(f, v, s) = 1 + Len(w) + Len(v)
            /\ Enc!ItemCalls(f, v, s, b) = <<TagBytes(f)>> \o c
      BY <1>6, <2>1, <2>2, FormOfString
    <2> HIDE DEF w
    <2>4. c \in Seq(Chunks) /\ Len(Flat(c)) = Len(w) + Len(v)
      <3>1. <<w>> \in Seq(Chunks) /\ w \in Seq(Byte) /\ Len(w) \in Nat
        BY <2>2, LenProperties DEF Chunks
      <3>2. CASE v = <<>>
        <4>1. c = <<w>>
          BY <3>1, <3>2, ConcatEmptySeq
        <4>2. Flat(c) = w /\ Len(v) = 0
          BY <2>2, <3>2, <4>1, OneChunk
        <4>. QED
          BY <3>1, <4>1, <4>2
      <3>3. CASE v # <<>>
        <4>1. v \in Chunks /\ <<v>> \in Seq(Chunks) /\ Flat(<<v>>) = v
          <5>1. v \in Chunks
            BY <1>6, <3>3 DEF Chunks
          <5>. QED
            BY <5>1, OneChunk
        <4>2. c = <<w>> \o <<v>>
          BY <3>3
        <4>3. <<v>> \in Seq(Seq(Byte))
          BY <1>6
        <4>4. Flat(c) = w \o v
          BY <3>1, <4>1, <4>2, <4>3, FlatCons
        <4>5. c \in Seq(Chunks)
          BY <3>1, <4>1, <4>2, ConcatProperties
        <4>. QED
          BY <1>6, <3>1, <4>4, <4>5, ConcatProperties
      <3>. QED
        BY <3>2, <3>3
    <2> HIDE DEF c
    <2>5. Len(w) \in Nat
      BY <2>2, LenProperties DEF Chunks
    <2>6. 1 + Len(w) + Len(v) = 1 + Len(Flat(c))
      BY <2>1, <2>4, <2>5
    <2>7. Plain(f, v, c)
      BY <2>3, <2>6 DEF Plain
    <2>. QED
      BY <2>4, <2>7
  <1>7. CASE /\ f.type = "message"
             /\ v \in (m + 1) .. Len(h)
             /\ Enc!ComputeEncodedSize(h)[v] < U32
    BY <1>7, FormOfMessage DEF Nested
  <1>8. \/ f.type = "string" /\ v \in Seq(Byte) /\ Len(v) < U32
        \/ /\ f.type = "message"
           /\ v \in (m + 1) .. Len(h)
           /\ Enc!ComputeEncodedSize(h)[v] < U32
        \/ f.type \in Enc!I32Types /\ v \in Int
        \/ f.type \in Enc!I64Types /\ v \in Int
        \/ f.type = "sint64" /\ v \in Int
        \/ /\ f.type \in Enc!VarintTypes \ {"sint32", "sint64"}
           /\ v \in Int
           /\ Enc!Word(f.type, v) = v % U64
    BY SameWire DEF Enc!Sizable
  <1>. QED
    BY <1>2, <1>3, <1>4, <1>5, <1>6, <1>7, <1>8


\* The size of an element, given those of the younger messages.
LEMMA ItemSized ==
    ASSUME NEW h, NEW m, NEW f, NEW v, Enc!Sizable(h, m, f, v),
           NEW s, \A j \in (m + 1) .. Len(h) : s[j] \in Nat
    PROVE  /\ Enc!ItemSize(f, v, s) \in Nat
           /\ \A t : (\A j \in (m + 1) .. Len(h) : s[j] = t[j]) =>
                Enc!ItemSize(f, v, s) = Enc!ItemSize(f, v, t)
  <1>1. CASE \E c \in Seq(Chunks) : Plain(f, v, c)
    <2>1. PICK c \in Seq(Chunks) : Plain(f, v, c)
      BY <1>1
    <2>2. \A t : Enc!ItemSize(f, v, t) = 1 + Len(Flat(c))
      BY <2>1 DEF Plain
    <2>3. Flat(c) \in Seq(Byte)
      BY ChunksAreBytes, FlatTyped
    <2>4. Len(Flat(c)) \in Nat
      BY <2>3, LenProperties
    <2>. QED
      BY <2>2, <2>4
  <1>2. CASE Nested(h, m, f, v)
    <2>1. /\ v \in (m + 1) .. Len(h)
          /\ \A t : Enc!ItemSize(f, v, t) =
                        1 + ComputeEncodedVarintSize(t[v]) + t[v]
      BY <1>2 DEF Nested
    <2>2. s[v] \in Nat
      BY <2>1
    <2>3. ComputeEncodedVarintSize(s[v]) \in Nat
      BY <2>2, VarintChunk
    <2>. QED
      BY <2>1, <2>2, <2>3
  <1>. QED
    BY <1>1, <1>2, ItemKinds

\* Its calls, given those of the younger messages.
LEMMA ItemCalled ==
    ASSUME NEW h, NEW m, NEW f, NEW v, Enc!Sizable(h, m, f, v),
           NEW s, \A j \in (m + 1) .. Len(h) : s[j] \in Nat,
           NEW b, \A j \in (m + 1) .. Len(h) : b[j] \in Seq(Chunks)
    PROVE  Enc!ItemCalls(f, v, s, b) \in Seq(Chunks)
  <1>1. TagBytes(f) \in Chunks /\ <<TagBytes(f)>> \in Seq(Chunks)
    BY TagLength
  <1>2. CASE \E c \in Seq(Chunks) : Plain(f, v, c)
    <2>1. PICK c \in Seq(Chunks) : Plain(f, v, c)
      BY <1>2
    <2>2. \A t : Enc!ItemCalls(f, v, s, t) = <<TagBytes(f)>> \o c
      BY <2>1 DEF Plain
    <2>3. <<TagBytes(f)>> \o c \in Seq(Chunks)
      BY <1>1, ConcatProperties
    <2>. QED
      BY <2>2, <2>3
  <1>3. CASE Nested(h, m, f, v)
    <2> DEFINE w == VarintBytes(s[v] % U32)
    <2>1. /\ v \in (m + 1) .. Len(h)
          /\ \A t : Enc!ItemCalls(f, v, s, t) = <<TagBytes(f)>> \o (<<w>> \o t[v])
      BY <1>3 DEF Nested
    <2>2. s[v] % U32 \in Nat
      BY <2>1, WireAssumption
    <2>3. w \in Chunks /\ <<w>> \in Seq(Chunks)
      BY <2>2, VarintChunk
    <2> HIDE DEF w
    <2>4. b[v] \in Seq(Chunks)
      BY <2>1
    <2>5. <<w>> \o b[v] \in Seq(Chunks)
      BY <2>3, <2>4, ConcatProperties
    <2>6. <<TagBytes(f)>> \o (<<w>> \o b[v]) \in Seq(Chunks)
      BY <1>1, <2>5, ConcatProperties
    <2>. QED
      BY <2>1, <2>6
  <1>. QED
    BY <1>2, <1>3, ItemKinds

LEMMA ItemLocal ==
    ASSUME NEW h, NEW m, NEW f, NEW v, Enc!Sizable(h, m, f, v), NEW s, NEW b,
           NEW t, \A j \in (m + 1) .. Len(h) : b[j] = t[j]
    PROVE  Enc!ItemCalls(f, v, s, b) = Enc!ItemCalls(f, v, s, t)
  <1>1. CASE \E c \in Seq(Chunks) : Plain(f, v, c)
    BY <1>1 DEF Plain
  <1>2. CASE Nested(h, m, f, v)
    BY <1>2 DEF Nested
  <1>. QED
    BY <1>1, <1>2, ItemKinds

\* The size is the number of the bytes, if those of the younger messages are.
LEMMA ItemMeasured ==
    ASSUME NEW h, NEW m, NEW f, NEW v, Enc!Sizable(h, m, f, v),
           NEW s, s = Enc!ComputeEncodedSize(h),
           \A j \in (m + 1) .. Len(h) : s[j] \in Nat,
           NEW b, \A j \in (m + 1) .. Len(h) :
                    b[j] \in Seq(Chunks) /\ Len(Flat(b[j])) = s[j]
    PROVE  Len(Flat(Enc!ItemCalls(f, v, s, b))) = Enc!ItemSize(f, v, s)
  <1>1. TagBytes(f) \in Seq(Byte) /\ Len(TagBytes(f)) = 1
    BY TagLength DEF Chunks
  <1>2. ASSUME NEW c \in Seq(Chunks)
        PROVE  /\ Len(Flat(<<TagBytes(f)>> \o c)) = 1 + Len(Flat(c))
               /\ Flat(c) \in Seq(Byte)
               /\ Len(Flat(c)) \in Nat
    <2>1. c \in Seq(Seq(Byte))
      BY ChunksAreBytes
    <2>2. Flat(c) \in Seq(Byte)
      BY <2>1, FlatTyped
    <2>3. Flat(<<TagBytes(f)>> \o c) = TagBytes(f) \o Flat(c)
      BY <1>1, <2>1, FlatCons
    <2>4. Len(TagBytes(f) \o Flat(c)) = Len(TagBytes(f)) + Len(Flat(c))
      BY <1>1, <2>2, ConcatProperties
    <2>5. Len(Flat(c)) \in Nat
      BY <2>2, LenProperties
    <2>. QED
      BY <1>1, <2>2, <2>3, <2>4, <2>5
  <1>3. CASE \E c \in Seq(Chunks) : Plain(f, v, c)
    BY <1>2, <1>3 DEF Plain
  <1>4. CASE Nested(h, m, f, v)
    <2> DEFINE w == VarintBytes(s[v])
    <2>1. /\ v \in (m + 1) .. Len(h)
          /\ s[v] < U32
          /\ Enc!ItemCalls(f, v, s, b) =
                <<TagBytes(f)>> \o (<<VarintBytes(s[v] % U32)>> \o b[v])
          /\ Enc!ItemSize(f, v, s) = 1 + ComputeEncodedVarintSize(s[v]) + s[v]
      BY <1>4 DEF Nested
    <2>2. s[v] \in Nat /\ b[v] \in Seq(Chunks) /\ Len(Flat(b[v])) = s[v]
      BY <2>1
    <2>3. s[v] % U32 = s[v]
      <3>1. \A x \in Nat : x < U32 => x % U32 = x
        BY WireAssumption
      <3>. QED
        BY <2>1, <2>2, <3>1
    <2>4. w \in Chunks /\ ComputeEncodedVarintSize(s[v]) = Len(w) /\ Len(w) \in Nat
      BY <2>2, VarintChunk
    <2>5. Enc!ItemCalls(f, v, s, b) = <<TagBytes(f)>> \o (<<w>> \o b[v])
      BY <2>1, <2>3
    <2> HIDE DEF w
    <2>6. w \in Seq(Byte) /\ <<w>> \in Seq(Chunks) /\ b[v] \in Seq(Seq(Byte))
      BY <2>2, <2>4, ChunksAreBytes DEF Chunks
    <2>7. Flat(<<w>> \o b[v]) = w \o Flat(b[v])
      BY <2>6, FlatCons
    <2>8. Flat(b[v]) \in Seq(Byte)
      BY <2>6, FlatTyped
    <2>9. Len(Flat(<<w>> \o b[v])) = Len(w) + s[v]
      BY <2>2, <2>6, <2>7, <2>8, ConcatProperties
    <2>10. <<w>> \o b[v] \in Seq(Chunks)
      BY <2>2, <2>6, ConcatProperties
    <2>11. Len(Flat(<<TagBytes(f)>> \o (<<w>> \o b[v]))) = 1 + (Len(w) + s[v])
      BY <1>2, <2>9, <2>10
    <2>12. 1 + (Len(w) + s[v]) = 1 + Len(w) + s[v]
      BY <2>2, <2>4
    <2>13. Enc!ItemSize(f, v, s) = 1 + Len(w) + s[v]
      BY <2>1, <2>4
    <2>. QED
      BY <2>5, <2>11, <2>12, <2>13
  <1>. QED
    BY <1>3, <1>4, ItemKinds

-----------------------------------------------------------------------------
(* The messages. *)

FieldOf(h, m, i) == WriterSchema[h[m].type][i]

Elems(h, m, i) == Enc!Encoded(FieldOf(h, m, i), h[m].val[FieldOf(h, m, i).num])

FieldSize(h, m, i, s) ==
    Total([k \in DOMAIN Elems(h, m, i) |->
            Enc!ItemSize(FieldOf(h, m, i), Elems(h, m, i)[k], s)])

MessageSize(h, m, s) ==
    Total([i \in DOMAIN WriterSchema[h[m].type] |-> FieldSize(h, m, i, s)])

FieldCalls(h, m, i, s, b) ==
    Flat([k \in DOMAIN Elems(h, m, i) |->
            Enc!ItemCalls(FieldOf(h, m, i), Elems(h, m, i)[k], s, b)])

MessageCalls(h, m, s, b) ==
    Flat([i \in DOMAIN WriterSchema[h[m].type] |-> FieldCalls(h, m, i, s, b)])

AreSizes(h, s) == s = [m \in DOMAIN h |-> MessageSize(h, m, s)]

AreBodies(h, s, b) == b = [m \in DOMAIN h |-> MessageCalls(h, m, s, b)]

LEMMA SizesAre ==
    ASSUME NEW h
    PROVE  Enc!ComputeEncodedSize(h) = CHOOSE s : AreSizes(h, s)
  BY Zenon DEF Enc!ComputeEncodedSize, AreSizes, MessageSize, FieldSize, Total,
               FieldOf, Elems

LEMMA BodiesAre ==
    ASSUME NEW h
    PROVE  Enc!EncodeImpl(h) =
            CHOOSE b : AreBodies(h, Enc!ComputeEncodedSize(h), b)
  BY Zenon DEF Enc!EncodeImpl, AreBodies, MessageCalls, FieldCalls, Flat, FieldOf,
               Elems

LEMMA ElemsAreSizable ==
    ASSUME NEW h, Enc!SizableMessages(h), NEW m \in DOMAIN h,
           NEW i \in DOMAIN WriterSchema[h[m].type]
    PROVE  /\ Enc!IsSeq(Elems(h, m, i))
           /\ \A k \in DOMAIN Elems(h, m, i) :
                Enc!Sizable(h, m, FieldOf(h, m, i), Elems(h, m, i)[k])
  BY Zenon DEF Enc!SizableMessages, Elems, FieldOf

LEMMA SeqDomain ==
    ASSUME NEW s, Enc!IsSeq(s)
    PROVE  Len(s) \in Nat /\ DOMAIN s = 1 .. Len(s)
  BY LenProperties DEF Enc!IsSeq


\* Induction from the last number to the first.
LEMMA BackwardInduction ==
    ASSUME NEW n \in Nat, NEW T,
           \A m \in 1 .. n : (\A j \in (m + 1) .. n : j \in T) => m \in T
    PROVE  \A m \in 1 .. n : m \in T
  <1> DEFINE R == {k \in Nat : k < n => n - k \in T}
  <1>1. ASSUME NEW k \in Nat, \A l \in Nat : l < k => l \in R
        PROVE  k \in R
    <2>1. SUFFICES ASSUME k < n
                   PROVE  n - k \in T
      OBVIOUS
    <2>2. n - k \in 1 .. n
      BY <2>1
    <2>3. ASSUME NEW j \in (n - k + 1) .. n
          PROVE  j \in T
      <3>1. n - j \in Nat /\ n - j < k /\ n - j < n /\ n - (n - j) = j
        BY <2>1
      <3>. QED
        BY <1>1, <3>1
    <2>. QED
      BY <2>2, <2>3
  <1>2. \A k \in Nat : k \in R
    <2> HIDE DEF R
    <2>. QED
      BY <1>1, StrongInduction
  <1>3. ASSUME NEW m \in 1 .. n
        PROVE  m \in T
    <2>1. n - m \in Nat /\ n - m < n /\ n - (n - m) = m
      OBVIOUS
    <2>. QED
      BY <1>2, <2>1
  <1>. QED
    BY <1>3

LEMMA FieldSized ==
    ASSUME NEW h, Enc!SizableMessages(h), NEW m \in DOMAIN h,
           NEW i \in DOMAIN WriterSchema[h[m].type],
           NEW s, \A j \in (m + 1) .. Len(h) : s[j] \in Nat
    PROVE  /\ FieldSize(h, m, i, s) \in Nat
           /\ \A t : (\A j \in (m + 1) .. Len(h) : s[j] = t[j]) =>
                FieldSize(h, m, i, s) = FieldSize(h, m, i, t)
  <1> DEFINE e == Elems(h, m, i)
             n == Len(e)
             size(t) == [k \in DOMAIN e |-> Enc!ItemSize(FieldOf(h, m, i), e[k], t)]
  <1>1. n \in Nat /\ DOMAIN e = 1 .. n
    BY ElemsAreSizable, SeqDomain
  <1>2. \A k \in DOMAIN e : Enc!Sizable(h, m, FieldOf(h, m, i), e[k])
    BY ElemsAreSizable
  <1>3. \A t : FieldSize(h, m, i, t) = Total(size(t))
    BY DEF FieldSize
  <1> HIDE DEF e, n
  <1>4. \A k \in DOMAIN e :
            /\ Enc!ItemSize(FieldOf(h, m, i), e[k], s) \in Nat
            /\ \A t : (\A j \in (m + 1) .. Len(h) : s[j] = t[j]) =>
                Enc!ItemSize(FieldOf(h, m, i), e[k], s) =
                Enc!ItemSize(FieldOf(h, m, i), e[k], t)
    BY <1>2, ItemSized
  <1>5. Total(size(s)) \in Nat
    <2>1. size(s) \in [1 .. n -> Nat]
      BY <1>1, <1>4
    <2> HIDE DEF size
    <2>. QED
      BY <1>1, <2>1, TotalInNat
  <1>6. ASSUME NEW t, \A j \in (m + 1) .. Len(h) : s[j] = t[j]
        PROVE  size(s) = size(t)
    BY <1>4, <1>6
  <1> HIDE DEF size
  <1>. QED
    BY <1>3, <1>5, <1>6

LEMMA MessageSized ==
    ASSUME NEW h, Enc!SizableMessages(h), NEW m \in DOMAIN h,
           NEW s, \A j \in (m + 1) .. Len(h) : s[j] \in Nat
    PROVE  /\ MessageSize(h, m, s) \in Nat
           /\ \A t : (\A j \in (m + 1) .. Len(h) : s[j] = t[j]) =>
                MessageSize(h, m, s) = MessageSize(h, m, t)
  <1> DEFINE fs == WriterSchema[h[m].type]
             n == Len(fs)
             size(t) == [i \in DOMAIN fs |-> FieldSize(h, m, i, t)]
  <1>1. n \in Nat /\ DOMAIN fs = 1 .. n
    BY SeqDomain DEF Enc!SizableMessages
  <1>3. \A t : MessageSize(h, m, t) = Total(size(t))
    BY DEF MessageSize
  <1>4. \A i \in DOMAIN fs :
            /\ FieldSize(h, m, i, s) \in Nat
            /\ \A t : (\A j \in (m + 1) .. Len(h) : s[j] = t[j]) =>
                FieldSize(h, m, i, s) = FieldSize(h, m, i, t)
    BY FieldSized
  <1> HIDE DEF fs, n
  <1>5. Total(size(s)) \in Nat
    <2>1. size(s) \in [1 .. n -> Nat]
      BY <1>1, <1>4
    <2> HIDE DEF size
    <2>. QED
      BY <1>1, <2>1, TotalInNat
  <1>6. ASSUME NEW t, \A j \in (m + 1) .. Len(h) : s[j] = t[j]
        PROVE  size(s) = size(t)
    BY <1>4, <1>6
  <1> HIDE DEF size
  <1>. QED
    BY <1>3, <1>5, <1>6

LEMMA MessagesAreSeq ==
    ASSUME NEW h, Enc!SizableMessages(h)
    PROVE  Len(h) \in Nat \ {0} /\ DOMAIN h = 1 .. Len(h)
  <1>1. Enc!IsSeq(h) /\ h # <<>>
    BY DEF Enc!SizableMessages
  <1>2. Len(h) # 0
    BY <1>1, EmptySeq DEF Enc!IsSeq
  <1>. QED
    BY <1>1, <1>2, SeqDomain

\* ComputeEncodedSize is what its definition says.
LEMMA SizesExist ==
    ASSUME NEW h, Enc!SizableMessages(h)
    PROVE  /\ AreSizes(h, Enc!ComputeEncodedSize(h))
           /\ \A m \in DOMAIN h : Enc!ComputeEncodedSize(h)[m] \in Nat
  <1> DEFINE n == Len(h)
             F == [m \in 1 .. n |-> [s \in [1 .. n -> Nat] |-> MessageSize(h, m, s)]]
  <1>1. n \in Nat /\ DOMAIN h = 1 .. n
    BY MessagesAreSeq
  <1> HIDE DEF n
  <1>2. \A m \in 1 .. n : \A s \in [1 .. n -> Nat] :
            /\ MessageSize(h, m, s) \in Nat
            /\ \A t : (\A j \in (m + 1) .. n : s[j] = t[j]) =>
                MessageSize(h, m, s) = MessageSize(h, m, t)
    <2>1. SUFFICES ASSUME NEW m \in 1 .. n, NEW s \in [1 .. n -> Nat]
                   PROVE  /\ MessageSize(h, m, s) \in Nat
                          /\ \A t : (\A j \in (m + 1) .. n : s[j] = t[j]) =>
                                MessageSize(h, m, s) = MessageSize(h, m, t)
      OBVIOUS
    <2>2. m \in DOMAIN h /\ \A j \in (m + 1) .. Len(h) : s[j] \in Nat
      BY <1>1 DEF n
    <2>. QED
      BY <2>2, MessageSized, Zenon DEF n
  <1>3. F \in [1 .. n -> [[1 .. n -> Nat] -> Nat]]
    BY <1>2
  <1>4. \A m \in 1 .. n : \A s \in [1 .. n -> Nat] : F[m][s] = MessageSize(h, m, s)
    OBVIOUS
  <1> HIDE DEF F
  <1>5. \A m \in 1 .. n : \A s, t \in [1 .. n -> Nat] :
            (\A j \in (m + 1) .. n : s[j] = t[j]) => F[m][s] = F[m][t]
    <2>1. SUFFICES ASSUME NEW m \in 1 .. n, NEW s \in [1 .. n -> Nat],
                          NEW t \in [1 .. n -> Nat],
                          \A j \in (m + 1) .. n : s[j] = t[j]
                   PROVE  F[m][s] = F[m][t]
      OBVIOUS
    <2>2. MessageSize(h, m, s) = MessageSize(h, m, t)
      BY <1>2, <2>1, Zenon
    <2>. QED
      BY <1>4, <2>2, Zenon
  <1>6. PICK s \in [1 .. n -> Nat] : \A m \in 1 .. n : s[m] = F[m][s]
    <2>1. Nat # {}
      OBVIOUS
    <2>2. Backward(F, n, Nat)
      BY <1>3, <1>5, <2>1 DEF Backward
    <2>3. n \in Nat
      BY <1>1
    <2>. QED
      BY <2>2, <2>3, BackwardRecursion
  <1>7. s = [m \in 1 .. n |-> MessageSize(h, m, s)]
    BY <1>4, <1>6
  <1>8. AreSizes(h, s)
    BY <1>1, <1>7 DEF AreSizes
  <1> DEFINE size == Enc!ComputeEncodedSize(h)
  <1>9. AreSizes(h, size)
    BY <1>8, SizesAre, Zenon
  <1> HIDE DEF size
  <1>10. \A m \in 1 .. n : size[m] = MessageSize(h, m, size)
    BY <1>1, <1>9, Zenon DEF AreSizes
  <1> DEFINE T == {m \in 1 .. n : size[m] \in Nat}
  <1>11. ASSUME NEW m \in 1 .. n, \A j \in (m + 1) .. n : j \in T
         PROVE  m \in T
    <2>1. m \in DOMAIN h /\ \A j \in (m + 1) .. Len(h) : size[j] \in Nat
      BY <1>1, <1>11 DEF n
    <2>2. MessageSize(h, m, size) \in Nat
      BY <2>1, MessageSized
    <2>. QED
      BY <1>10, <2>2
  <1>12. \A m \in 1 .. n : m \in T
    <2> HIDE DEF T
    <2>. QED
      BY <1>1, <1>11, BackwardInduction
  <1>. QED
    BY <1>1, <1>9, <1>12 DEF size


Sizes(h) == Enc!ComputeEncodedSize(h)

\* The calls of a field and of a message, given those of the younger messages.
LEMMA FieldCalled ==
    ASSUME NEW h, Enc!SizableMessages(h), NEW m \in DOMAIN h,
           NEW i \in DOMAIN WriterSchema[h[m].type],
           NEW b, \A j \in (m + 1) .. Len(h) : b[j] \in Seq(Chunks)
    PROVE  /\ FieldCalls(h, m, i, Sizes(h), b) \in Seq(Chunks)
           /\ \A t : (\A j \in (m + 1) .. Len(h) : b[j] = t[j]) =>
                FieldCalls(h, m, i, Sizes(h), b) = FieldCalls(h, m, i, Sizes(h), t)
           /\ (\A j \in (m + 1) .. Len(h) : Len(Flat(b[j])) = Sizes(h)[j]) =>
                Len(Flat(FieldCalls(h, m, i, Sizes(h), b))) =
                FieldSize(h, m, i, Sizes(h))
  <1> DEFINE e == Elems(h, m, i)
             f == FieldOf(h, m, i)
             n == Len(e)
             s == Sizes(h)
             item(t, k) == Enc!ItemCalls(f, e[k], s, t)
             items(t) == [k \in DOMAIN e |-> item(t, k)]
             size == [k \in DOMAIN e |-> Enc!ItemSize(f, e[k], s)]
  <1>1. n \in Nat /\ DOMAIN e = 1 .. n
    BY ElemsAreSizable, SeqDomain
  <1>2. \A k \in DOMAIN e : Enc!Sizable(h, m, f, e[k])
    BY ElemsAreSizable
  <1>3. /\ \A t : FieldCalls(h, m, i, s, t) = Flat(items(t))
        /\ FieldSize(h, m, i, s) = Total(size)
    BY DEF FieldCalls, FieldSize
  <1>4. \A j \in (m + 1) .. Len(h) : s[j] \in Nat
    <2>1. \A j \in (m + 1) .. Len(h) : j \in DOMAIN h
      BY MessagesAreSeq
    <2>. QED
      BY <2>1, SizesExist DEF Sizes
  <1>5. s = Enc!ComputeEncodedSize(h)
    BY DEF Sizes
  <1> HIDE DEF e, f, n, s
  <1>6. \A k \in DOMAIN e :
            /\ item(b, k) \in Seq(Chunks)
            /\ \A t : (\A j \in (m + 1) .. Len(h) : b[j] = t[j]) =>
                item(b, k) = item(t, k)
    <2>1. ASSUME NEW k \in DOMAIN e
          PROVE  /\ Enc!ItemCalls(f, e[k], s, b) \in Seq(Chunks)
                 /\ \A t : (\A j \in (m + 1) .. Len(h) : b[j] = t[j]) =>
                        Enc!ItemCalls(f, e[k], s, b) = Enc!ItemCalls(f, e[k], s, t)
      <3>1. Enc!Sizable(h, m, f, e[k])
        BY <1>2
      <3>2. \A j \in (m + 1) .. Len(h) : b[j] \in Seq(Chunks)
        OBVIOUS
      <3>3. Enc!ItemCalls(f, e[k], s, b) \in Seq(Chunks)
        BY <1>4, <3>1, <3>2, ItemCalled
      <3>4. ASSUME NEW t, \A j \in (m + 1) .. Len(h) : b[j] = t[j]
            PROVE  Enc!ItemCalls(f, e[k], s, b) = Enc!ItemCalls(f, e[k], s, t)
        BY <3>1, <3>4, ItemLocal
      <3>. QED
        BY <3>3, <3>4
    <2>. QED
      BY <2>1
  <1>7. items(b) \in Seq(Seq(Chunks)) /\ DOMAIN items(b) = 1 .. n /\ Len(items(b)) = n
    <2>1. items(b) \in [1 .. n -> Seq(Chunks)]
      BY <1>1, <1>6
    <2> HIDE DEF items
    <2>. QED
      BY <1>1, <2>1, FunctionIsSeq
  <1>8. ASSUME NEW t, \A j \in (m + 1) .. Len(h) : b[j] = t[j]
        PROVE  items(b) = items(t)
    BY <1>6, <1>8
  <1>9. ASSUME \A j \in (m + 1) .. Len(h) : Len(Flat(b[j])) = s[j]
        PROVE  Len(Flat(Flat(items(b)))) = Total(size)
    <2>1. \A k \in DOMAIN e : Len(Flat(item(b, k))) = Enc!ItemSize(f, e[k], s)
      <3>1. SUFFICES ASSUME NEW k \in DOMAIN e
                     PROVE  Len(Flat(item(b, k))) = Enc!ItemSize(f, e[k], s)
        OBVIOUS
      <3>2. \A j \in (m + 1) .. Len(h) :
                b[j] \in Seq(Chunks) /\ Len(Flat(b[j])) = s[j]
        BY <1>9
      <3>3. Enc!Sizable(h, m, f, e[k])
        BY <1>2
      <3>4. Len(Flat(Enc!ItemCalls(f, e[k], s, b))) = Enc!ItemSize(f, e[k], s)
        BY <1>4, <1>5, <3>2, <3>3, ItemMeasured
      <3>. QED
        BY <3>4
    <2>2. /\ \A k \in 1 .. n : size[k] = Len(Flat(items(b)[k]))
          /\ DOMAIN size = 1 .. n
      BY <1>1, <2>1
    <2>3. items(b) \in Seq(Seq(Seq(Byte)))
      BY <1>7, ChunksAreBytes
    <2> HIDE DEF items, size
    <2>. QED
      BY <1>7, <2>2, <2>3, TotalOfFlat
  <1>10. Flat(items(b)) \in Seq(Chunks)
    <2> HIDE DEF items
    <2>. QED
      BY <1>7, FlatTyped
  <1> HIDE DEF items, size
  <1>. QED
    BY <1>3, <1>8, <1>9, <1>10 DEF s

LEMMA MessageCalled ==
    ASSUME NEW h, Enc!SizableMessages(h), NEW m \in DOMAIN h,
           NEW b, \A j \in (m + 1) .. Len(h) : b[j] \in Seq(Chunks)
    PROVE  /\ MessageCalls(h, m, Sizes(h), b) \in Seq(Chunks)
           /\ \A t : (\A j \in (m + 1) .. Len(h) : b[j] = t[j]) =>
                MessageCalls(h, m, Sizes(h), b) = MessageCalls(h, m, Sizes(h), t)
           /\ (\A j \in (m + 1) .. Len(h) : Len(Flat(b[j])) = Sizes(h)[j]) =>
                Len(Flat(MessageCalls(h, m, Sizes(h), b))) =
                MessageSize(h, m, Sizes(h))
  <1> DEFINE fs == WriterSchema[h[m].type]
             n == Len(fs)
             s == Sizes(h)
             calling(t) == [i \in DOMAIN fs |-> FieldCalls(h, m, i, s, t)]
             size == [i \in DOMAIN fs |-> FieldSize(h, m, i, s)]
  <1>1. n \in Nat /\ DOMAIN fs = 1 .. n
    BY SeqDomain DEF Enc!SizableMessages
  <1>3. /\ \A t : MessageCalls(h, m, s, t) = Flat(calling(t))
        /\ MessageSize(h, m, s) = Total(size)
    BY DEF MessageCalls, MessageSize
  <1>6. \A i \in DOMAIN fs :
            /\ FieldCalls(h, m, i, s, b) \in Seq(Chunks)
            /\ \A t : (\A j \in (m + 1) .. Len(h) : b[j] = t[j]) =>
                FieldCalls(h, m, i, s, b) = FieldCalls(h, m, i, s, t)
            /\ (\A j \in (m + 1) .. Len(h) : Len(Flat(b[j])) = s[j]) =>
                Len(Flat(FieldCalls(h, m, i, s, b))) = FieldSize(h, m, i, s)
    BY FieldCalled
  <1> HIDE DEF fs, n, s
  <1>7. calling(b) \in Seq(Seq(Chunks)) /\ DOMAIN calling(b) = 1 .. n
        /\ Len(calling(b)) = n
    <2>1. calling(b) \in [1 .. n -> Seq(Chunks)]
      BY <1>1, <1>6
    <2> HIDE DEF calling
    <2>. QED
      BY <1>1, <2>1, FunctionIsSeq
  <1>8. ASSUME NEW t, \A j \in (m + 1) .. Len(h) : b[j] = t[j]
        PROVE  calling(b) = calling(t)
    BY <1>6, <1>8
  <1>9. ASSUME \A j \in (m + 1) .. Len(h) : Len(Flat(b[j])) = s[j]
        PROVE  Len(Flat(Flat(calling(b)))) = Total(size)
    <2>2. /\ \A k \in 1 .. n : size[k] = Len(Flat(calling(b)[k]))
          /\ DOMAIN size = 1 .. n
      BY <1>1, <1>6, <1>9
    <2>3. calling(b) \in Seq(Seq(Seq(Byte)))
      BY <1>7, ChunksAreBytes
    <2> HIDE DEF calling, size
    <2>. QED
      BY <1>7, <2>2, <2>3, TotalOfFlat
  <1>10. Flat(calling(b)) \in Seq(Chunks)
    <2> HIDE DEF calling
    <2>. QED
      BY <1>7, FlatTyped
  <1> HIDE DEF calling, size
  <1>. QED
    BY <1>3, <1>8, <1>9, <1>10 DEF s

\* EncodeImpl is what its definition says.
LEMMA BodiesExist ==
    ASSUME NEW h, Enc!SizableMessages(h)
    PROVE  AreBodies(h, Sizes(h), Enc!EncodeImpl(h))
  <1> DEFINE n == Len(h)
             X == Seq(Chunks)
             S == Sizes(h)
             F == [m \in 1 .. n |-> [b \in [1 .. n -> X] |-> MessageCalls(h, m, S, b)]]
  <1>1. n \in Nat /\ DOMAIN h = 1 .. n
    BY MessagesAreSeq
  <1>2. \A m \in 1 .. n : \A b \in [1 .. n -> X] :
            /\ MessageCalls(h, m, S, b) \in X
            /\ \A t : (\A j \in (m + 1) .. n : b[j] = t[j]) =>
                MessageCalls(h, m, S, b) = MessageCalls(h, m, S, t)
    <2>1. SUFFICES ASSUME NEW m \in 1 .. n, NEW b \in [1 .. n -> X]
                   PROVE  /\ MessageCalls(h, m, S, b) \in X
                          /\ \A t : (\A j \in (m + 1) .. n : b[j] = t[j]) =>
                                MessageCalls(h, m, S, b) = MessageCalls(h, m, S, t)
      OBVIOUS
    <2>2. m \in DOMAIN h /\ \A j \in (m + 1) .. Len(h) : b[j] \in Seq(Chunks)
      BY <1>1
    <2>. QED
      BY <2>2, MessageCalled, Zenon
  <1>0. X # {}
    BY EmptySeq
  <1> HIDE DEF n, X, S
  <1>3. F \in [1 .. n -> [[1 .. n -> X] -> X]]
    BY <1>2
  <1>4. \A m \in 1 .. n : \A b \in [1 .. n -> X] : F[m][b] = MessageCalls(h, m, S, b)
    OBVIOUS
  <1> HIDE DEF F
  <1>5. \A m \in 1 .. n : \A b, t \in [1 .. n -> X] :
            (\A j \in (m + 1) .. n : b[j] = t[j]) => F[m][b] = F[m][t]
    <2>1. SUFFICES ASSUME NEW m \in 1 .. n, NEW b \in [1 .. n -> X],
                          NEW t \in [1 .. n -> X],
                          \A j \in (m + 1) .. n : b[j] = t[j]
                   PROVE  F[m][b] = F[m][t]
      OBVIOUS
    <2>2. MessageCalls(h, m, S, b) = MessageCalls(h, m, S, t)
      BY <1>2, <2>1, Zenon
    <2>. QED
      BY <1>4, <2>2, Zenon
  <1>6. PICK b \in [1 .. n -> X] : \A m \in 1 .. n : b[m] = F[m][b]
    <2>2. Backward(F, n, X)
      BY <1>0, <1>3, <1>5 DEF Backward
    <2>3. n \in Nat
      BY <1>1
    <2>. QED
      BY <2>2, <2>3, BackwardRecursion
  <1>7. b = [m \in 1 .. n |-> MessageCalls(h, m, S, b)]
    BY <1>4, <1>6
  <1>8. AreBodies(h, S, b)
    BY <1>1, <1>7 DEF AreBodies
  <1>. QED
    BY <1>8, BodiesAre, Zenon DEF S, Sizes

\* The bytes of each message are as many as its size says.
LEMMA Measured ==
    ASSUME NEW h, Enc!SizableMessages(h)
    PROVE  \A m \in DOMAIN h :
            /\ Enc!EncodeImpl(h)[m] \in Seq(Chunks)
            /\ Len(Flat(Enc!EncodeImpl(h)[m])) = Sizes(h)[m]
  <1> DEFINE n == Len(h)
             S == Sizes(h)
             B == Enc!EncodeImpl(h)
             T == {m \in 1 .. n : B[m] \in Seq(Chunks) /\ Len(Flat(B[m])) = S[m]}
  <1>1. n \in Nat /\ DOMAIN h = 1 .. n
    BY MessagesAreSeq
  <1>2. /\ \A m \in 1 .. n : S[m] = MessageSize(h, m, S)
        /\ \A m \in 1 .. n : B[m] = MessageCalls(h, m, S, B)
    <2>1. AreSizes(h, S) /\ AreBodies(h, S, B)
      BY SizesExist, BodiesExist DEF Sizes
    <2> HIDE DEF S, B
    <2>2. \A m \in DOMAIN h : S[m] = MessageSize(h, m, S)
      BY <2>1, Zenon DEF AreSizes
    <2>3. \A m \in DOMAIN h : B[m] = MessageCalls(h, m, S, B)
      BY <2>1, Zenon DEF AreBodies
    <2>. QED
      BY <1>1, <2>2, <2>3
  <1>3. ASSUME NEW m \in 1 .. n, \A j \in (m + 1) .. n : j \in T
        PROVE  m \in T
    <2>1. /\ m \in DOMAIN h
          /\ \A j \in (m + 1) .. Len(h) : B[j] \in Seq(Chunks)
          /\ \A j \in (m + 1) .. Len(h) : Len(Flat(B[j])) = Sizes(h)[j]
      BY <1>1, <1>3
    <2> HIDE DEF B
    <2>2. /\ MessageCalls(h, m, Sizes(h), B) \in Seq(Chunks)
          /\ Len(Flat(MessageCalls(h, m, Sizes(h), B))) = MessageSize(h, m, Sizes(h))
      BY <2>1, MessageCalled
    <2>. QED
      BY <1>2, <2>2
  <1>4. \A m \in 1 .. n : m \in T
    <2> HIDE DEF T, n
    <2>. QED
      BY <1>1, <1>3, BackwardInduction
  <1>. QED
    BY <1>1, <1>4


-----------------------------------------------------------------------------
(* The inductive invariant: while the stream has refused no byte, the bytes *)
(* it took and those of the calls to come are those of the message.        *)

Encoding ==
    /\ src \in Sources
    /\ calls \in Seq(Chunks)
    /\ out \in Seq(Byte)
    /\ written = Len(out)
    /\ refused \in Nat
    /\ refused = 0 => out \o Flat(calls) = Flat(Enc!EncodeImpl(src)[1])
    /\ ret = "true" => calls = <<>>

\* The first call: its first byte, and what is left of it.
LEMMA FirstCall ==
    ASSUME NEW s \in Seq(Chunks), s # <<>>
    PROVE  LET c == Head(s)
               r == (IF Len(c) = 1 THEN <<>> ELSE <<Tail(c)>>) \o Tail(s)
           IN  /\ Head(c) \in Byte
               /\ r \in Seq(Chunks)
               /\ Flat(s) = <<Head(c)>> \o Flat(r)
  <1> DEFINE c == Head(s)
             d == IF Len(c) = 1 THEN <<>> ELSE <<Tail(c)>>
             r == d \o Tail(s)
  <1>1. c \in Chunks /\ Tail(s) \in Seq(Chunks)
    BY HeadTailProperties
  <1>2. s = <<c>> \o Tail(s)
    OBVIOUS
  <1> HIDE DEF c
  <1>3. c \in Seq(Byte) /\ c # <<>> /\ Len(c) \in Nat
    BY <1>1, LenProperties DEF Chunks
  <1>4. Head(c) \in Byte /\ Tail(c) \in Seq(Byte) /\ Len(Tail(c)) = Len(c) - 1
    BY <1>3, HeadTailProperties
  <1>5. c = <<Head(c)>> \o Tail(c)
    BY <1>3
  <1>6. Tail(s) \in Seq(Seq(Byte))
    BY <1>1, ChunksAreBytes
  <1>7. Flat(Tail(s)) \in Seq(Byte)
    BY <1>6, FlatTyped
  <1>8. Flat(s) = c \o Flat(Tail(s))
    BY <1>2, <1>3, <1>6, FlatCons
  <1>9. d \in Seq(Chunks) /\ Flat(d) = Tail(c)
    <2>1. CASE Len(c) = 1
      <3>0. \A x \in Seq(Byte) : Len(x) = 0 => x = <<>>
        BY EmptySeq
      <3>1. Tail(c) = <<>>
        <4>1. Len(Tail(c)) = 0
          BY <1>4, <2>1
        <4>2. Tail(c) \in Seq(Byte)
          BY <1>4
        <4>. QED
          BY <3>0, <4>1, <4>2, Zenon
      <3>2. d = <<>>
        BY <2>1
      <3>. QED
        BY <3>1, <3>2, FlatTyped, EmptySeq
    <2>2. CASE Len(c) # 1
      <3>1. Len(c) # 0
        BY <1>3, EmptySeq
      <3>2. Tail(c) # <<>>
        <4>1. Len(<<>>) = 0
          OBVIOUS
        <4>2. Len(Tail(c)) # 0
          BY <1>3, <1>4, <2>2
        <4>. QED
          BY <4>1, <4>2
      <3>3. Tail(c) \in Chunks
        BY <1>4, <3>2 DEF Chunks
      <3>. QED
        BY <2>2, <3>3, OneChunk
    <2>. QED
      BY <2>1, <2>2
  <1> HIDE DEF d
  <1>10. r \in Seq(Chunks)
    BY <1>1, <1>9, ConcatProperties
  <1>11. Flat(r) = Tail(c) \o Flat(Tail(s))
    <2>1. d \in Seq(Seq(Byte))
      BY <1>9, ChunksAreBytes
    <2>. QED
      BY <1>6, <1>9, <2>1, FlatConcat
  <1>12. <<Head(c)>> \o Flat(r) = c \o Flat(Tail(s))
    <2>1. \A x, y, z \in Seq(Byte) : (x \o y) \o z = x \o (y \o z)
      BY Associates
    <2>2. <<Head(c)>> \in Seq(Byte)
      BY <1>4
    <2>3. (<<Head(c)>> \o Tail(c)) \o Flat(Tail(s)) =
            <<Head(c)>> \o (Tail(c) \o Flat(Tail(s)))
      BY <1>4, <1>7, <2>1, <2>2, Zenon
    <2>. QED
      BY <1>5, <1>11, <2>3
  <1>. QED
    BY <1>4, <1>8, <1>10, <1>12 DEF c, d

LEMMA FirstMessage ==
    ASSUME NEW h, Enc!SizableMessages(h)
    PROVE  /\ Enc!EncodeImpl(h)[1] \in Seq(Chunks)
           /\ Flat(Enc!EncodeImpl(h)[1]) \in Seq(Byte)
           /\ Len(Flat(Enc!EncodeImpl(h)[1])) = Enc!ComputeEncodedSize(h)[1]
  <1>1. 1 \in DOMAIN h
    BY MessagesAreSeq
  <1>2. Enc!EncodeImpl(h)[1] \in Seq(Chunks)
    BY <1>1, Measured
  <1>3. Enc!EncodeImpl(h)[1] \in Seq(Seq(Byte))
    BY <1>2, ChunksAreBytes
  <1>. QED
    BY <1>1, <1>2, <1>3, Measured, FlatTyped DEF Sizes

\* What holds at first, and what each byte leaves true.
LEMMA EncodingStarts ==
    ASSUME \A h \in Sources : Enc!SizableMessages(h), Init
    PROVE  Encoding
  <1>1. /\ src \in Sources /\ calls = Enc!EncodeImpl(src)[1]
        /\ out = <<>> /\ written = 0 /\ refused = 0 /\ ret = "running"
    BY DEF Init, Enc!Init
  <1>2. calls \in Seq(Chunks) /\ Flat(calls) \in Seq(Byte)
    BY <1>1, FirstMessage
  <1>3. out \o Flat(calls) = Flat(calls)
    BY <1>1, <1>2, ConcatEmptySeq
  <1>4. out \in Seq(Byte) /\ written = Len(out)
    BY <1>1, EmptySeq
  <1>. QED
    BY <1>1, <1>2, <1>3, <1>4 DEF Encoding

LEMMA EncodingGoesOn ==
    ASSUME Encoding, [Next]_vars
    PROVE  Encoding'
  <1>1. CASE Enc!WriteByte
    <2> DEFINE c == Head(calls)
               r == (IF Len(c) = 1 THEN <<>> ELSE <<Tail(c)>>) \o Tail(calls)
    <2>1. /\ calls # <<>>
          /\ out' = Append(out, Head(c)) /\ written' = written + 1
          /\ calls' = r
          /\ src' = src /\ refused' = refused /\ ret' = ret
      BY <1>1 DEF Enc!WriteByte
    <2>2. /\ Head(c) \in Byte /\ r \in Seq(Chunks)
          /\ Flat(calls) = <<Head(c)>> \o Flat(r)
      BY <2>1, FirstCall DEF Encoding
    <2>3. Flat(r) \in Seq(Byte)
      BY <2>2, ChunksAreBytes, FlatTyped
    <2> HIDE DEF c, r
    <2>4. /\ out' \in Seq(Byte) /\ out' = out \o <<Head(c)>>
          /\ written' = Len(out')
      BY <2>1, <2>2, AppendProperties, AppendIsConcat DEF Encoding
    <2>5. (out \o <<Head(c)>>) \o Flat(r) = out \o (<<Head(c)>> \o Flat(r))
      <3>1. \A x, y, z \in Seq(Byte) : (x \o y) \o z = x \o (y \o z)
        BY Associates
      <3>2. <<Head(c)>> \in Seq(Byte) /\ out \in Seq(Byte)
        BY <2>2 DEF Encoding
      <3>. QED
        BY <2>3, <3>1, <3>2, Zenon
    <2>6. out' \o Flat(calls') = out \o Flat(calls)
      BY <2>1, <2>2, <2>4, <2>5
    <2>7. ret' = "true" => FALSE
      BY <2>1 DEF Encoding
    <2>. QED
      BY <2>1, <2>2, <2>4, <2>6, <2>7 DEF Encoding
  <1>2. CASE Enc!WriteRefused
    <2>1. /\ calls # <<>> /\ calls' = Tail(calls)
          /\ refused' = refused + 1
          /\ UNCHANGED <<src, out, written, ret>>
      BY <1>2 DEF Enc!WriteRefused
    <2>2. Tail(calls) \in Seq(Chunks)
      BY <2>1, HeadTailProperties DEF Encoding
    <2>3. refused' \in Nat /\ refused' # 0
      BY <2>1 DEF Encoding
    <2>. QED
      BY <2>1, <2>2, <2>3 DEF Encoding
  <1>3. CASE Enc!Return
    BY <1>3 DEF Enc!Return, Encoding
  <1>4. CASE UNCHANGED encVars
    BY <1>4 DEF encVars, Encoding
  <1>. QED
    BY <1>1, <1>2, <1>3, <1>4 DEF Next, Enc!Next, vars

\* ComputeEncodedSize says what Encode writes, when the stream refuses nothing,
\* for every message whose sub-messages are younger than their owner, whose tags
\* have one byte, and that has no sint32 and no negative 32-bit number: for all
\* that the generated ComputeEncodedSize gets right.
THEOREM SizesAreExact ==
    ASSUME \A h \in Sources : Enc!SizableMessages(h)
    PROVE  Spec => []SizeIsExact
  <1>1. Init => Encoding
    BY EncodingStarts
  <1>2. Encoding /\ [Next]_vars => Encoding'
    BY EncodingGoesOn
  <1>3. Encoding => SizeIsExact
    <2>1. SUFFICES ASSUME Encoding, ret = "true", refused = 0
                   PROVE  written = Enc!ComputeEncodedSize(src)[1]
      BY DEF SizeIsExact, Enc!SizeIsExact
    <2>2. calls = <<>> /\ src \in Sources /\ out \in Seq(Byte)
      BY <2>1 DEF Encoding
    <2>3. Flat(calls) = <<>>
      BY <2>2, FlatTyped
    <2>4. out = Flat(Enc!EncodeImpl(src)[1])
      BY <2>1, <2>2, <2>3, ConcatEmptySeq DEF Encoding
    <2>5. Len(out) = Enc!ComputeEncodedSize(src)[1]
      BY <2>2, <2>4, FirstMessage
    <2>. QED
      BY <2>1, <2>5 DEF Encoding
  <1>. QED
    BY <1>1, <1>2, <1>3, PTL DEF Spec

-----------------------------------------------------------------------------
(* The bytes of a message: those of the elements of its fields. *)

\* Flattening the flattened, and flattening the parts first.
LEMMA FlatFlat ==
    ASSUME NEW S, NEW t \in Seq(Seq(Seq(S)))
    PROVE  Flat(Flat(t)) = Flat([i \in DOMAIN t |-> Flat(t[i])])
  <1> DEFINE Parts(s) == [i \in DOMAIN s |-> Flat(s[i])]
             T == {s \in Seq(Seq(Seq(S))) : Flat(Flat(s)) = Flat(Parts(s))}
  <1>1. \A s \in Seq(Seq(Seq(S))) : Parts(s) \in Seq(Seq(S))
    <2>1. SUFFICES ASSUME NEW s \in Seq(Seq(Seq(S)))
                   PROVE  Parts(s) \in Seq(Seq(S))
      OBVIOUS
    <2>2. Len(s) \in Nat /\ DOMAIN s = 1 .. Len(s)
      BY LenProperties
    <2>3. \A i \in DOMAIN s : Flat(s[i]) \in Seq(S)
      BY <2>2, ElementOfSeq, FlatTyped
    <2>4. Parts(s) \in [1 .. Len(s) -> Seq(S)]
      BY <2>2, <2>3
    <2> HIDE DEF Parts
    <2>. QED
      BY <2>2, <2>4, FunctionIsSeq
  <1>2. <<>> \in T
    <2>1. Parts(<<>>) = <<>>
      OBVIOUS
    <2> HIDE DEF Parts
    <2>. QED
      BY <2>1, FlatTyped, EmptySeq
  <1>3. ASSUME NEW s \in Seq(Seq(Seq(S))), NEW e \in Seq(Seq(S)), s \in T
        PROVE  Append(s, e) \in T
    <2>1. /\ Append(s, e) \in Seq(Seq(Seq(S)))
          /\ Len(s) \in Nat /\ DOMAIN s = 1 .. Len(s)
          /\ DOMAIN Append(s, e) = 1 .. Len(s) + 1
          /\ \A i \in 1 .. Len(s) : Append(s, e)[i] = s[i]
          /\ Append(s, e)[Len(s) + 1] = e
      BY AppendProperties, LenProperties
    <2>2. Parts(s) \in Seq(Seq(S)) /\ Flat(e) \in Seq(S) /\ Flat(s) \in Seq(Seq(S))
      BY <1>1, FlatTyped
    <2>3. Parts(Append(s, e)) = Append(Parts(s), Flat(e))
      <3>1. DOMAIN Parts(s) = 1 .. Len(s) /\ Len(Parts(s)) = Len(s)
        <4>1. DOMAIN Parts(s) = 1 .. Len(s)
          BY <2>1
        <4> HIDE DEF Parts
        <4>. QED
          BY <2>1, <2>2, <4>1, LenProperties
      <3>2. \A i \in 1 .. Len(s) : Parts(Append(s, e))[i] = Parts(s)[i]
        BY <2>1
      <3>3. /\ Parts(Append(s, e))[Len(s) + 1] = Flat(e)
            /\ DOMAIN Parts(Append(s, e)) = 1 .. Len(s) + 1
        BY <2>1
      <3>4. Parts(Append(s, e)) \in Seq(Seq(S))
        BY <1>1, <2>1
      <3> HIDE DEF Parts
      <3>5. Append(Parts(s), Flat(e)) \in Seq(Seq(S))
        BY <2>2, AppendProperties
      <3>6. /\ Len(Append(Parts(s), Flat(e))) = Len(s) + 1
            /\ \A i \in 1 .. Len(s) : Append(Parts(s), Flat(e))[i] = Parts(s)[i]
            /\ Append(Parts(s), Flat(e))[Len(s) + 1] = Flat(e)
        BY <2>2, <3>1, AppendProperties
      <3>7. Len(Parts(Append(s, e))) = Len(s) + 1
        BY <2>1, <3>3, <3>4, LenProperties
      <3>. QED
        BY <2>1, <3>2, <3>3, <3>4, <3>5, <3>6, <3>7, SeqEqual
    <2> HIDE DEF Parts
    <2>4. Flat(Parts(Append(s, e))) = Flat(Parts(s)) \o Flat(e)
      BY <2>2, <2>3, FlatTyped
    <2>5. Flat(Append(s, e)) = Flat(s) \o e
      BY FlatTyped
    <2>6. Flat(Flat(s) \o e) = Flat(Flat(s)) \o Flat(e)
      BY <2>2, FlatConcat
    <2>7. Flat(Flat(s)) = Flat(Parts(s))
      BY <1>3
    <2>. QED
      BY <2>1, <2>4, <2>5, <2>6, <2>7
  <1>4. Seq(Seq(Seq(S))) \subseteq T
    <2> HIDE DEF T
    <2>. QED
      BY <1>2, <1>3, AppendInduction
  <1>. QED
    BY <1>4

\* Parts that are empty.
LEMMA FlatOfNone ==
    ASSUME NEW S, NEW s \in Seq(Seq(S)), \A i \in 1 .. Len(s) : s[i] = <<>>
    PROVE  Flat(s) = <<>>
  <1>1. CASE s = <<>>
    BY <1>1, FlatTyped
  <1>2. CASE s # <<>>
    <2>1. PICK g : IsFlat(s, g) /\ Flat(s) = g[Len(s)]
      BY <1>2, FlatIs
    <2>2. Len(s) \in Nat \ {0}
      BY <1>2, EmptySeq, LenProperties
    <2> DEFINE T == {i \in 0 .. Len(s) : i # 0 => g[i] = <<>>}
    <2>3. 0 \in T
      BY <2>2
    <2>4. ASSUME NEW i \in 1 .. Len(s), i - 1 \in T
          PROVE  i \in T
      <3>1. g[i] = IF i = 1 THEN s[i] ELSE g[i - 1] \o s[i]
        BY <2>1, FlatAt
      <3>2. s[i] = <<>>
        OBVIOUS
      <3>3. <<>> \o <<>> = <<>>
        OBVIOUS
      <3>4. i # 1 => g[i - 1] = <<>>
        BY <2>2, <2>4
      <3>5. g[i] = <<>>
        BY <3>1, <3>2, <3>3, <3>4, Zenon
      <3>. QED
        BY <2>2, <3>5
    <2> HIDE DEF T
    <2>5. \A i \in 0 .. Len(s) : i \in T
      BY <2>2, <2>3, <2>4, BoundedInduction
    <2>6. Len(s) \in 0 .. Len(s)
      BY <2>2
    <2>. QED
      BY <2>1, <2>2, <2>5, <2>6 DEF T
  <1>. QED
    BY <1>1, <1>2

\* Up to the part p, the prefixes a and b are empty; then a begins with x.
Leads(S, a, b, x, i, p) ==
    /\ b \in Seq(S)
    /\ i < p => a = <<>> /\ b = <<>>
    /\ ~ (i < p) => a = x \o b

Associative(S) == \A x, y, z \in Seq(S) : (x \o y) \o z = x \o (y \o z)

LEMMA ConcatIsAssociative ==
    ASSUME NEW S
    PROVE  Associative(S)
  BY Associates DEF Associative

Parted(c, d, x, i, p) ==
    /\ i < p => c = <<>> /\ d = <<>>
    /\ i = p => c = x \o d
    /\ i > p => c = d

LEMMA LeadsOn ==
    ASSUME NEW S, NEW a, NEW b, NEW e \in Seq(S), NEW i \in Nat, NEW p \in Nat,
           Leads(S, a, b, e, i - 1, p),
           NEW c \in Seq(S), NEW d \in Seq(S),
           Parted(c, d, e, i, p)
    PROVE  Leads(S, a \o c, b \o d, e, i, p)
  <1>0. Associative(S)
    BY ConcatIsAssociative
  <1>1. b \in Seq(S)
    BY DEF Leads
  <1>2. b \o d \in Seq(S)
    BY <1>1, ConcatProperties
  <1>3. CASE i < p
    <2>1. i - 1 < p
      BY <1>3
    <2>2. a = <<>> /\ b = <<>> /\ c = <<>> /\ d = <<>>
      BY <1>3, <2>1 DEF Leads, Parted
    <2>3. <<>> \o <<>> = <<>>
      BY EmptySeq, ConcatEmptySeq
    <2>4. a \o c = <<>> /\ b \o d = <<>>
      BY <2>2, <2>3, Zenon
    <2>. QED
      BY <1>2, <1>3, <2>4 DEF Leads
  <1>4. CASE i = p
    <2>1. i - 1 < p /\ ~ (i < p)
      BY <1>4
    <2>2. a = <<>> /\ b = <<>> /\ c = e \o d
      BY <1>4, <2>1 DEF Leads, Parted
    <2>3. \A y \in Seq(S) : <<>> \o y = y
      BY ConcatEmptySeq
    <2>4. a \o c = c /\ b \o d = d
      BY <2>2, <2>3, Zenon
    <2>5. a \o c = e \o (b \o d)
      BY <2>2, <2>4, Zenon
    <2>. QED
      BY <1>2, <2>1, <2>5 DEF Leads
  <1>5. CASE i > p
    <2>1. ~ (i - 1 < p) /\ ~ (i < p)
      BY <1>5
    <2>2. a = e \o b /\ c = d
      BY <1>5, <2>1 DEF Leads, Parted
    <2>4. (e \o b) \o d = e \o (b \o d)
      BY <1>0, <1>1, Zenon DEF Associative
    <2>5. a \o c = e \o (b \o d)
      BY <2>2, <2>4, Zenon
    <2>. QED
      BY <1>2, <2>1, <2>5 DEF Leads
  <1>. QED
    BY <1>3, <1>4, <1>5

\* The first parts are empty, and x is the beginning of the next one.
Skips(s, t, x, p) ==
    /\ Len(s) = Len(t)
    /\ p \in 1 .. Len(s)
    /\ \A i \in 1 .. Len(s) : Parted(s[i], t[i], x, i, p)

LEMMA FlatSkips ==
    ASSUME NEW S, NEW s \in Seq(Seq(S)), NEW t \in Seq(Seq(S)),
           NEW p, NEW x \in Seq(S), Skips(s, t, x, p)
    PROVE  Flat(s) = x \o Flat(t)
  <1>0. /\ Len(s) \in Nat /\ Len(s) # 0 /\ p \in Nat /\ p >= 1
        /\ Len(s) = Len(t) /\ p \in 1 .. Len(s)
    BY LenProperties DEF Skips
  <1>1. s # <<>> /\ t # <<>>
    BY <1>0
  <1>2. PICK g : IsFlat(s, g) /\ Flat(s) = g[Len(s)]
    BY <1>1, FlatIs
  <1>3. PICK k : IsFlat(t, k) /\ Flat(t) = k[Len(t)]
    BY <1>1, FlatIs
  <1>4. \A i \in 1 .. Len(s) : s[i] \in Seq(S) /\ t[i] \in Seq(S)
    BY <1>0, ElementOfSeq
  <1>5. \A i \in 1 .. Len(s) : g[i] = IF i = 1 THEN s[i] ELSE g[i - 1] \o s[i]
    BY <1>2, FlatAt
  <1>6. \A i \in 1 .. Len(t) : k[i] = IF i = 1 THEN t[i] ELSE k[i - 1] \o t[i]
    BY <1>3, FlatAt
  <1> DEFINE T == {i \in 0 .. Len(s) : i # 0 => Leads(S, g[i], k[i], x, i, p)}
  <1>8. 0 \in T
    BY <1>0
  <1>9. ASSUME NEW i \in 1 .. Len(s), i - 1 \in T
        PROVE  i \in T
    <2>a. s[i] \in Seq(S) /\ t[i] \in Seq(S)
      BY <1>4
    <2>b. Parted(s[i], t[i], x, i, p)
      BY DEF Skips
    <2>f. i \in 1 .. Len(t)
      BY <1>0
    <2>e. i \in Nat /\ i \in 0 .. Len(s)
      BY <1>0
    <2>1. i \in T <=> Leads(S, g[i], k[i], x, i, p)
      BY <1>0
    <2> HIDE DEF T
    <2>2. CASE i = 1
      <3>1. g[i] = s[i] /\ k[i] = t[i]
        BY <1>5, <1>6, <2>2, <2>f
      <3>2. ~ (i > p) /\ (~ (i < p) => i = p)
        BY <1>0, <2>2
      <3>3. Leads(S, g[i], k[i], x, i, p)
        BY <2>a, <2>b, <3>1, <3>2, Zenon DEF Leads, Parted
      <3>. QED
        BY <2>1, <3>3
    <2>3. CASE i # 1
      <3>1. Leads(S, g[i - 1], k[i - 1], x, i - 1, p)
        BY <1>0, <1>9, <2>3 DEF T
      <3>2. g[i] = g[i - 1] \o s[i] /\ k[i] = k[i - 1] \o t[i]
        BY <1>5, <1>6, <2>3, <2>f
      <3>3. Leads(S, g[i - 1] \o s[i], k[i - 1] \o t[i], x, i, p)
        BY <1>0, <2>a, <2>b, <2>e, <3>1, LeadsOn
      <3>. QED
        BY <2>1, <3>2, <3>3
    <2>. QED
      BY <2>2, <2>3
  <1> HIDE DEF T
  <1>10. \A i \in 0 .. Len(s) : i \in T
    BY <1>0, <1>8, <1>9, BoundedInduction
  <1>11. Len(s) \in 0 .. Len(s) /\ ~ (Len(s) < p)
    BY <1>0
  <1>12. Leads(S, g[Len(s)], k[Len(s)], x, Len(s), p)
    BY <1>0, <1>10, <1>11 DEF T
  <1>. QED
    BY <1>0, <1>2, <1>3, <1>11, <1>12 DEF Leads

Body(h, m) == Flat(Enc!EncodeImpl(h)[m])

\* The calls and the bytes of the k-th element of the i-th field.
ElemCalls(h, m, i, k) ==
    Enc!ItemCalls(FieldOf(h, m, i), Elems(h, m, i)[k], Sizes(h),
                  Enc!EncodeImpl(h))

ElemBytes(h, m, i, k) == Flat(ElemCalls(h, m, i, k))

\* The bytes of the elements of a field but the first c.
ToCome(h, m, i, c) ==
    Flat([k \in DOMAIN Elems(h, m, i) |->
            IF k <= c THEN <<>> ELSE ElemBytes(h, m, i, k)])

FieldsOf(h, m) == DOMAIN WriterSchema[h[m].type]

\* The bytes of the message m that follow the first d[i] elements of each
\* field i.
Rest(h, m, d) == Flat([i \in FieldsOf(h, m) |-> ToCome(h, m, i, d[i])])

NoneDone(h, m) == [i \in FieldsOf(h, m) |-> 0]

\* How many elements of each field may have been read.
Counts(h, m) ==
    {d \in [FieldsOf(h, m) -> Nat] :
        \A i \in FieldsOf(h, m) : d[i] <= Len(Elems(h, m, i))}

LEMMA FieldsAreSeq ==
    ASSUME NEW h, Enc!SizableMessages(h), NEW m \in DOMAIN h
    PROVE  /\ Len(WriterSchema[h[m].type]) \in Nat
           /\ FieldsOf(h, m) = 1 .. Len(WriterSchema[h[m].type])
  <1>1. Enc!IsSeq(WriterSchema[h[m].type])
    BY Zenon DEF Enc!SizableMessages
  <1>. QED
    BY <1>1, SeqDomain DEF FieldsOf

LEMMA ElemsAreSeq ==
    ASSUME NEW h, Enc!SizableMessages(h), NEW m \in DOMAIN h,
           NEW i \in FieldsOf(h, m)
    PROVE  /\ Len(Elems(h, m, i)) \in Nat
           /\ DOMAIN Elems(h, m, i) = 1 .. Len(Elems(h, m, i))
  <1>1. Enc!IsSeq(Elems(h, m, i))
    BY ElemsAreSizable, Zenon DEF FieldsOf
  <1>. QED
    BY <1>1, SeqDomain

LEMMA ElemCallsTyped ==
    ASSUME NEW h, Enc!SizableMessages(h), NEW m \in DOMAIN h,
           NEW i \in FieldsOf(h, m), NEW k \in DOMAIN Elems(h, m, i)
    PROVE  ElemCalls(h, m, i, k) \in Seq(Chunks)
  <1>1. Enc!Sizable(h, m, FieldOf(h, m, i), Elems(h, m, i)[k])
    BY ElemsAreSizable, Zenon DEF FieldsOf
  <1>2. Len(h) \in Nat /\ DOMAIN h = 1 .. Len(h)
    BY MessagesAreSeq
  <1>3. \A j \in (m + 1) .. Len(h) : j \in DOMAIN h
    BY <1>2
  <1>4. \A j \in (m + 1) .. Len(h) : Sizes(h)[j] \in Nat
    BY <1>3, SizesExist DEF Sizes
  <1>5. \A j \in (m + 1) .. Len(h) : Enc!EncodeImpl(h)[j] \in Seq(Chunks)
    BY <1>3, Measured
  <1>6. Enc!ItemCalls(FieldOf(h, m, i), Elems(h, m, i)[k], Sizes(h),
                      Enc!EncodeImpl(h)) \in Seq(Chunks)
    BY <1>1, <1>4, <1>5, ItemCalled
  <1>. QED
    BY <1>6 DEF ElemCalls

LEMMA ElemBytesTyped ==
    ASSUME NEW h, Enc!SizableMessages(h), NEW m \in DOMAIN h,
           NEW i \in FieldsOf(h, m), NEW k \in DOMAIN Elems(h, m, i)
    PROVE  ElemBytes(h, m, i, k) \in Seq(Byte)
  <1>1. ElemCalls(h, m, i, k) \in Seq(Seq(Byte))
    BY ElemCallsTyped, ChunksAreBytes
  <1>. QED
    BY <1>1, FlatTyped DEF ElemBytes

ElemsToCome(h, m, i, c) ==
    [k \in DOMAIN Elems(h, m, i) |->
        IF k <= c THEN <<>> ELSE ElemBytes(h, m, i, k)]

LEMMA ElemsToComeTyped ==
    ASSUME NEW h, Enc!SizableMessages(h), NEW m \in DOMAIN h,
           NEW i \in FieldsOf(h, m), NEW c
    PROVE  /\ ElemsToCome(h, m, i, c) \in Seq(Seq(Byte))
           /\ Len(ElemsToCome(h, m, i, c)) = Len(Elems(h, m, i))
           /\ \A k \in 1 .. Len(Elems(h, m, i)) :
                ElemsToCome(h, m, i, c)[k] =
                    IF k <= c THEN <<>> ELSE ElemBytes(h, m, i, k)
           /\ ToCome(h, m, i, c) = Flat(ElemsToCome(h, m, i, c))
           /\ ToCome(h, m, i, c) \in Seq(Byte)
  <1> DEFINE s == ElemsToCome(h, m, i, c)
             n == Len(Elems(h, m, i))
  <1>1. n \in Nat /\ DOMAIN Elems(h, m, i) = 1 .. n
    BY ElemsAreSeq
  <1>2. \A k \in 1 .. n : ElemBytes(h, m, i, k) \in Seq(Byte)
    BY <1>1, ElemBytesTyped
  <1>3. <<>> \in Seq(Byte)
    BY EmptySeq
  <1>4. s \in [1 .. n -> Seq(Byte)]
    BY <1>1, <1>2, <1>3 DEF ElemsToCome
  <1>5. \A k \in 1 .. n : s[k] = IF k <= c THEN <<>> ELSE ElemBytes(h, m, i, k)
    BY <1>1 DEF ElemsToCome
  <1>6. ToCome(h, m, i, c) = Flat(s)
    BY DEF ToCome, ElemsToCome
  <1> HIDE DEF s, n
  <1>7. s \in Seq(Seq(Byte)) /\ Len(s) = n
    BY <1>1, <1>4, FunctionIsSeq
  <1>8. Flat(s) \in Seq(Byte)
    BY <1>7, FlatTyped
  <1>. QED
    BY <1>5, <1>6, <1>7, <1>8 DEF s, n

FieldsToCome(h, m, d) == [i \in FieldsOf(h, m) |-> ToCome(h, m, i, d[i])]

LEMMA FieldsToComeTyped ==
    ASSUME NEW h, Enc!SizableMessages(h), NEW m \in DOMAIN h, NEW d
    PROVE  /\ FieldsToCome(h, m, d) \in Seq(Seq(Byte))
           /\ Len(FieldsToCome(h, m, d)) = Len(WriterSchema[h[m].type])
           /\ \A i \in FieldsOf(h, m) :
                FieldsToCome(h, m, d)[i] = ToCome(h, m, i, d[i])
           /\ Rest(h, m, d) = Flat(FieldsToCome(h, m, d))
           /\ Rest(h, m, d) \in Seq(Byte)
  <1> DEFINE s == FieldsToCome(h, m, d)
             n == Len(WriterSchema[h[m].type])
  <1>1. n \in Nat /\ FieldsOf(h, m) = 1 .. n
    BY FieldsAreSeq
  <1>2. \A i \in FieldsOf(h, m) : ToCome(h, m, i, d[i]) \in Seq(Byte)
    BY ElemsToComeTyped
  <1>3. s \in [1 .. n -> Seq(Byte)]
    BY <1>1, <1>2 DEF FieldsToCome
  <1>4. \A i \in FieldsOf(h, m) : s[i] = ToCome(h, m, i, d[i])
    BY DEF FieldsToCome
  <1>5. Rest(h, m, d) = Flat(s)
    BY DEF Rest, FieldsToCome
  <1> HIDE DEF s, n
  <1>6. s \in Seq(Seq(Byte)) /\ Len(s) = n
    BY <1>1, <1>3, FunctionIsSeq
  <1>7. Flat(s) \in Seq(Byte)
    BY <1>6, FlatTyped
  <1>. QED
    BY <1>4, <1>5, <1>6, <1>7 DEF s, n

\* The bytes of the calls of a field are those of its elements.
LEMMA FieldBytes ==
    ASSUME NEW h, Enc!SizableMessages(h), NEW m \in DOMAIN h,
           NEW i \in FieldsOf(h, m)
    PROVE  /\ FieldCalls(h, m, i, Sizes(h), Enc!EncodeImpl(h)) \in Seq(Seq(Byte))
           /\ Flat(FieldCalls(h, m, i, Sizes(h), Enc!EncodeImpl(h))) =
                ToCome(h, m, i, 0)
  <1> DEFINE n == Len(Elems(h, m, i))
             t == [k \in DOMAIN Elems(h, m, i) |-> ElemCalls(h, m, i, k)]
  <1>1. n \in Nat /\ DOMAIN Elems(h, m, i) = 1 .. n
    BY ElemsAreSeq
  <1>2. \A k \in 1 .. n : ElemCalls(h, m, i, k) \in Seq(Seq(Byte))
    BY <1>1, ElemCallsTyped, ChunksAreBytes
  <1>3. t \in [1 .. n -> Seq(Seq(Byte))] /\ DOMAIN t = 1 .. n
    BY <1>1, <1>2
  <1>4. \A k \in 1 .. n : t[k] = ElemCalls(h, m, i, k)
    BY <1>1
  <1>5. FieldCalls(h, m, i, Sizes(h), Enc!EncodeImpl(h)) = Flat(t)
    BY DEF FieldCalls, ElemCalls
  <1> HIDE DEF t
  <1>6. t \in Seq(Seq(Seq(Byte)))
    BY <1>1, <1>3, FunctionIsSeq
  <1>7. Flat(Flat(t)) = Flat([k \in DOMAIN t |-> Flat(t[k])])
    BY <1>6, FlatFlat
  <1>8. [k \in DOMAIN t |-> Flat(t[k])] = ElemsToCome(h, m, i, 0)
    <2>1. \A k \in 1 .. n : Flat(t[k]) = ElemBytes(h, m, i, k) /\ ~ (k <= 0)
      BY <1>1, <1>4 DEF ElemBytes
    <2>. QED
      BY <1>1, <1>3, <2>1 DEF ElemsToCome
  <1>9. Flat(t) \in Seq(Seq(Byte))
    BY <1>6, FlatTyped
  <1>. QED
    BY <1>5, <1>7, <1>8, <1>9, ElemsToComeTyped

\* The bytes of a message are those of its fields.
LEMMA BodyIsRest ==
    ASSUME NEW h, Enc!SizableMessages(h), NEW m \in DOMAIN h
    PROVE  Body(h, m) = Rest(h, m, NoneDone(h, m))
  <1> DEFINE n == Len(WriterSchema[h[m].type])
             B == Enc!EncodeImpl(h)
             t == [i \in FieldsOf(h, m) |-> FieldCalls(h, m, i, Sizes(h), B)]
  <1>1. n \in Nat /\ FieldsOf(h, m) = 1 .. n
    BY FieldsAreSeq
  <1>2. \A i \in FieldsOf(h, m) :
            /\ FieldCalls(h, m, i, Sizes(h), B) \in Seq(Seq(Byte))
            /\ Flat(FieldCalls(h, m, i, Sizes(h), B)) = ToCome(h, m, i, 0)
    BY FieldBytes
  <1>3. t \in [1 .. n -> Seq(Seq(Byte))] /\ DOMAIN t = FieldsOf(h, m)
    BY <1>1, <1>2
  <1>4. B[m] = Flat(t)
    <2>1. AreBodies(h, Sizes(h), B)
      BY BodiesExist
    <2>2. B[m] = MessageCalls(h, m, Sizes(h), B)
      BY <2>1, Zenon DEF AreBodies
    <2>. QED
      BY <2>2, Zenon DEF MessageCalls, FieldsOf
  <1>5. \A i \in FieldsOf(h, m) : t[i] = FieldCalls(h, m, i, Sizes(h), B)
    OBVIOUS
  <1> HIDE DEF t, B
  <1>6. t \in Seq(Seq(Seq(Byte)))
    BY <1>1, <1>3, FunctionIsSeq
  <1>7. Flat(Flat(t)) = Flat([i \in DOMAIN t |-> Flat(t[i])])
    BY <1>6, FlatFlat
  <1>8. [i \in DOMAIN t |-> Flat(t[i])] = FieldsToCome(h, m, NoneDone(h, m))
    <2>1. \A i \in FieldsOf(h, m) :
            Flat(t[i]) = ToCome(h, m, i, NoneDone(h, m)[i])
      BY <1>2, <1>5 DEF NoneDone
    <2>. QED
      BY <1>3, <2>1 DEF FieldsToCome
  <1>9. Rest(h, m, NoneDone(h, m)) = Flat(FieldsToCome(h, m, NoneDone(h, m)))
    BY DEF Rest, FieldsToCome
  <1>. QED
    BY <1>4, <1>7, <1>8, <1>9, Zenon DEF Body, B

\* One element more of the field i.
Further(d, i) == [d EXCEPT ![i] = @ + 1]

LEMMA FurtherCounts ==
    ASSUME NEW h, NEW m, NEW d \in Counts(h, m), NEW i \in FieldsOf(h, m),
           d[i] + 1 <= Len(Elems(h, m, i))
    PROVE  /\ Further(d, i) \in Counts(h, m)
           /\ Further(d, i)[i] = d[i] + 1
           /\ \A j \in FieldsOf(h, m) : j # i => Further(d, i)[j] = d[j]
  <1>1. d \in [FieldsOf(h, m) -> Nat]
    BY DEF Counts
  <1>2. Further(d, i) \in [FieldsOf(h, m) -> Nat]
    BY <1>1 DEF Further
  <1>3. /\ Further(d, i)[i] = d[i] + 1
        /\ \A j \in FieldsOf(h, m) : j # i => Further(d, i)[j] = d[j]
    BY <1>1 DEF Further
  <1>4. \A j \in FieldsOf(h, m) : Further(d, i)[j] <= Len(Elems(h, m, j))
    <2>1. \A j \in FieldsOf(h, m) : d[j] <= Len(Elems(h, m, j))
      BY DEF Counts
    <2>. QED
      BY <1>3, <2>1
  <1>. QED
    BY <1>2, <1>3, <1>4 DEF Counts

\* A field all of whose elements have been read.
LEMMA NothingToCome ==
    ASSUME NEW h, Enc!SizableMessages(h), NEW m \in DOMAIN h,
           NEW i \in FieldsOf(h, m), NEW c, c = Len(Elems(h, m, i))
    PROVE  ToCome(h, m, i, c) = <<>>
  <1>1. Len(Elems(h, m, i)) \in Nat
    BY ElemsAreSeq
  <1>2. /\ ElemsToCome(h, m, i, c) \in Seq(Seq(Byte))
        /\ Len(ElemsToCome(h, m, i, c)) = Len(Elems(h, m, i))
        /\ \A k \in 1 .. Len(Elems(h, m, i)) :
            ElemsToCome(h, m, i, c)[k] =
                IF k <= c THEN <<>> ELSE ElemBytes(h, m, i, k)
        /\ ToCome(h, m, i, c) = Flat(ElemsToCome(h, m, i, c))
    BY ElemsToComeTyped
  <1>3. \A k \in 1 .. Len(ElemsToCome(h, m, i, c)) :
            ElemsToCome(h, m, i, c)[k] = <<>>
    BY <1>1, <1>2
  <1>4. Flat(ElemsToCome(h, m, i, c)) = <<>>
    BY <1>2, <1>3, FlatOfNone
  <1>. QED
    BY <1>2, <1>4

\* The next element of a field.
LEMMA ElemToCome ==
    ASSUME NEW h, Enc!SizableMessages(h), NEW m \in DOMAIN h,
           NEW i \in FieldsOf(h, m), NEW c \in Nat,
           c + 1 <= Len(Elems(h, m, i))
    PROVE  ToCome(h, m, i, c) =
                ElemBytes(h, m, i, c + 1) \o ToCome(h, m, i, c + 1)
  <1> DEFINE n == Len(Elems(h, m, i))
             s == ElemsToCome(h, m, i, c)
             t == ElemsToCome(h, m, i, c + 1)
             x == ElemBytes(h, m, i, c + 1)
  <1>1. n \in Nat /\ DOMAIN Elems(h, m, i) = 1 .. n /\ c + 1 \in 1 .. n
    BY ElemsAreSeq
  <1>2. x \in Seq(Byte)
    BY <1>1, ElemBytesTyped
  <1>3. /\ s \in Seq(Seq(Byte)) /\ Len(s) = n
        /\ \A k \in 1 .. n : s[k] = IF k <= c THEN <<>> ELSE ElemBytes(h, m, i, k)
        /\ ToCome(h, m, i, c) = Flat(s)
    BY ElemsToComeTyped
  <1>4. /\ t \in Seq(Seq(Byte)) /\ Len(t) = n
        /\ \A k \in 1 .. n :
            t[k] = IF k <= c + 1 THEN <<>> ELSE ElemBytes(h, m, i, k)
        /\ ToCome(h, m, i, c + 1) = Flat(t)
    BY ElemsToComeTyped
  <1> HIDE DEF s, t, n
  <1>5. \A k \in 1 .. n : k < c + 1 => s[k] = <<>> /\ t[k] = <<>>
    BY <1>1, <1>3, <1>4
  <1>6. s[c + 1] = x \o t[c + 1]
    <2>1. s[c + 1] = x /\ t[c + 1] = <<>>
      BY <1>1, <1>3, <1>4
    <2>2. x \o <<>> = x
      BY <1>2, ConcatEmptySeq
    <2>. QED
      BY <2>1, <2>2
  <1>7. \A k \in 1 .. n : k > c + 1 => s[k] = t[k]
    <2>1. ASSUME NEW k \in 1 .. n, k > c + 1
          PROVE  s[k] = t[k]
      <3>1. ~ (k <= c) /\ ~ (k <= c + 1)
        BY <1>1, <2>1
      <3>2. s[k] = ElemBytes(h, m, i, k)
        BY <1>3, <3>1
      <3>3. t[k] = ElemBytes(h, m, i, k)
        BY <1>4, <3>1
      <3>. QED
        BY <3>2, <3>3
    <2>. QED
      BY <2>1
  <1> HIDE DEF x
  <1>8. Skips(s, t, x, c + 1)
    BY <1>1, <1>3, <1>4, <1>5, <1>6, <1>7, Zenon DEF Skips, Parted
  <1>9. Flat(s) = x \o Flat(t)
    BY <1>2, <1>3, <1>4, <1>8, FlatSkips
  <1>. QED
    BY <1>3, <1>4, <1>9 DEF x

IsDone(h, m, d) == \A i \in FieldsOf(h, m) : d[i] = Len(Elems(h, m, i))

\* When all fields have been read.
LEMMA NoRest ==
    ASSUME NEW h, Enc!SizableMessages(h), NEW m \in DOMAIN h, NEW d,
           IsDone(h, m, d)
    PROVE  Rest(h, m, d) = <<>>
  <1>1. /\ Len(WriterSchema[h[m].type]) \in Nat
        /\ FieldsOf(h, m) = 1 .. Len(WriterSchema[h[m].type])
    BY FieldsAreSeq
  <1>2. /\ FieldsToCome(h, m, d) \in Seq(Seq(Byte))
        /\ Len(FieldsToCome(h, m, d)) = Len(WriterSchema[h[m].type])
        /\ \A i \in FieldsOf(h, m) :
            FieldsToCome(h, m, d)[i] = ToCome(h, m, i, d[i])
        /\ Rest(h, m, d) = Flat(FieldsToCome(h, m, d))
    BY FieldsToComeTyped
  <1>3. \A i \in FieldsOf(h, m) : ToCome(h, m, i, d[i]) = <<>>
    BY NothingToCome DEF IsDone
  <1>4. \A i \in 1 .. Len(FieldsToCome(h, m, d)) : FieldsToCome(h, m, d)[i] = <<>>
    BY <1>1, <1>2, <1>3
  <1>5. Flat(FieldsToCome(h, m, d)) = <<>>
    BY <1>2, <1>4, FlatOfNone
  <1>. QED
    BY <1>2, <1>5

\* Otherwise the next element of some field comes.
LEMMA RestGoesOn ==
    ASSUME NEW h, Enc!SizableMessages(h), NEW m \in DOMAIN h,
           NEW d \in Counts(h, m), ~ IsDone(h, m, d)
    PROVE  \E i \in FieldsOf(h, m) :
            /\ d[i] + 1 <= Len(Elems(h, m, i))
            /\ Rest(h, m, d) =
                ElemBytes(h, m, i, d[i] + 1) \o Rest(h, m, Further(d, i))
  <1> DEFINE n == Len(WriterSchema[h[m].type])
             T == {i \in FieldsOf(h, m) : d[i] # Len(Elems(h, m, i))}
  <1>1. n \in Nat /\ FieldsOf(h, m) = 1 .. n
    BY FieldsAreSeq
  <1>2. d \in [FieldsOf(h, m) -> Nat]
        /\ \A i \in FieldsOf(h, m) : d[i] <= Len(Elems(h, m, i))
    BY DEF Counts
  <1>3. T # {} /\ T \subseteq Nat
    BY <1>1 DEF IsDone
  <1>4. PICK p \in T : \A j \in T : p <= j
    <2> HIDE DEF T
    <2>. QED
      BY <1>3, LeastElement
  <1>5. p \in FieldsOf(h, m) /\ p \in 1 .. n
    BY <1>1
  <1>6. d[p] \in Nat /\ d[p] + 1 <= Len(Elems(h, m, p))
    <2>1. Len(Elems(h, m, p)) \in Nat
      BY <1>5, ElemsAreSeq
    <2>2. d[p] \in Nat /\ d[p] <= Len(Elems(h, m, p)) /\ d[p] # Len(Elems(h, m, p))
      BY <1>2, <1>4, <1>5
    <2>. QED
      BY <2>1, <2>2
  <1> DEFINE e == Further(d, p)
             s == FieldsToCome(h, m, d)
             t == FieldsToCome(h, m, e)
             x == ElemBytes(h, m, p, d[p] + 1)
  <1>7. e[p] = d[p] + 1 /\ \A j \in FieldsOf(h, m) : j # p => e[j] = d[j]
    BY <1>5, <1>6, FurtherCounts
  <1>8. x \in Seq(Byte)
    <2>1. d[p] + 1 \in DOMAIN Elems(h, m, p)
      BY <1>5, <1>6, ElemsAreSeq
    <2>. QED
      BY <1>5, <2>1, ElemBytesTyped
  <1>9. /\ s \in Seq(Seq(Byte)) /\ Len(s) = n
        /\ \A i \in FieldsOf(h, m) : s[i] = ToCome(h, m, i, d[i])
        /\ Rest(h, m, d) = Flat(s)
    BY FieldsToComeTyped
  <1>10. /\ t \in Seq(Seq(Byte)) /\ Len(t) = n
         /\ \A i \in FieldsOf(h, m) : t[i] = ToCome(h, m, i, e[i])
         /\ Rest(h, m, e) = Flat(t)
    BY FieldsToComeTyped
  <1>11. \A i \in 1 .. n : i < p => s[i] = <<>> /\ t[i] = <<>>
    <2>1. ASSUME NEW i \in 1 .. n, i < p
          PROVE  s[i] = <<>> /\ t[i] = <<>>
      <3>1. i \in FieldsOf(h, m) /\ i # p
        BY <1>1, <1>5, <2>1
      <3>2. d[i] = Len(Elems(h, m, i))
        BY <1>1, <1>4, <1>5, <2>1, <3>1
      <3>3. ToCome(h, m, i, d[i]) = <<>>
        BY <3>1, <3>2, NothingToCome
      <3>. QED
        BY <1>7, <1>9, <1>10, <3>1, <3>3
    <2>. QED
      BY <2>1
  <1>12. s[p] = x \o t[p]
    <2>1. ToCome(h, m, p, d[p]) = x \o ToCome(h, m, p, d[p] + 1)
      BY <1>5, <1>6, ElemToCome
    <2>. QED
      BY <1>5, <1>7, <1>9, <1>10, <2>1
  <1>13. \A i \in 1 .. n : i > p => s[i] = t[i]
    <2>1. ASSUME NEW i \in 1 .. n, i > p
          PROVE  s[i] = t[i]
      <3>1. i \in FieldsOf(h, m) /\ i # p
        BY <1>1, <1>5, <2>1
      <3>2. e[i] = d[i]
        BY <1>7, <3>1
      <3>. QED
        BY <1>9, <1>10, <3>1, <3>2
    <2>. QED
      BY <2>1
  <1> HIDE DEF s, t, x, e, n, T
  <1>14. Skips(s, t, x, p)
    BY <1>5, <1>9, <1>10, <1>11, <1>12, <1>13, Zenon DEF Skips, Parted
  <1>15. Rest(h, m, d) = x \o Rest(h, m, e)
    <2>1. Flat(s) = x \o Flat(t)
      BY <1>8, <1>9, <1>10, <1>14, FlatSkips
    <2>. QED
      BY <1>9, <1>10, <2>1
  <1>. QED
    BY <1>5, <1>6, <1>15 DEF x, e

-----------------------------------------------------------------------------
(* The numbers. *)

LEMMA NegativeMod ==
    ASSUME NEW n \in Nat, NEW v \in Int, -n <= v, v < 0
    PROVE  v % n = v + n
  <1>1. n > 0
    OBVIOUS
  <1>. QED
    BY <1>1

\* A signed number is restored from its two's complement.
LEMMA SignRestores ==
    ASSUME NEW h \in Nat, NEW m \in Nat, m = 2 * h, NEW v \in -h .. (h - 1)
    PROVE  /\ v % m \in 0 .. (m - 1)
           /\ ToSigned(v % m, m) = v
  <1>1. m \div 2 = h
    OBVIOUS
  <1>2. CASE v >= 0
    <2>1. v % m = v
      BY <1>2
    <2>. QED
      BY <1>1, <1>2, <2>1 DEF ToSigned
  <1>3. CASE v < 0
    <2>1. v % m = v + m
      BY <1>3, NegativeMod
    <2>. QED
      BY <1>1, <1>3, <2>1 DEF ToSigned
  <1>. QED
    BY <1>2, <1>3

LEMMA SmallMod ==
    ASSUME NEW m \in Nat, NEW v \in 0 .. (m - 1)
    PROVE  v % m = v
  OBVIOUS

LEMMA ModTyped ==
    ASSUME NEW m \in Nat, m > 0, NEW v \in Int
    PROVE  v % m \in 0 .. (m - 1)
  OBVIOUS

\* A signed number is restored from its ZigZag form.
LEMMA ZigZagBack ==
    ASSUME NEW h \in Nat, U64 = 2 * h, NEW v \in -h .. (h - 1)
    PROVE  /\ EncodeZigZag(v) \in 0 .. (U64 - 1)
           /\ DecodeZigZag(EncodeZigZag(v)) = v
  <1>1. U64 \in Nat
    BY WireAssumption
  <1>2. v % U64 \in 0 .. (U64 - 1) /\ ToSigned(v % U64, U64) = v
    BY <1>1, SignRestores
  <1>. QED
    BY <1>1, <1>2, ZigZagRestores

Signed32 == {"int32", "sfixed32", "enum"}
Signed64 == {"int64", "sfixed64"}
Unsigned32 == {"uint32", "fixed32", "float"}
Unsigned64 == {"uint64", "fixed64", "double"}

\* What Write is called with, for each type.
LEMMA WordsOfTypes ==
    ASSUME NEW v
    PROVE  /\ \A t \in Signed32 \cup Unsigned32 \cup {"bool"} :
                Enc!Word(t, v) = v % U32
           /\ \A t \in Signed64 \cup Unsigned64 : Enc!Word(t, v) = v % U64
           /\ Enc!Word("sint64", v) = EncodeZigZag(v)
  <1>1. \A t \in Signed32 \cup Unsigned32 \cup {"bool"} : Enc!Word(t, v) = v % U32
    BY DEF Enc!Word, Enc!I32Types, Signed32, Unsigned32
  <1>2. \A t \in Signed64 \cup Unsigned64 : Enc!Word(t, v) = v % U64
    BY DEF Enc!Word, Enc!I32Types, Signed64, Unsigned64
  <1>3. Enc!Word("sint64", v) = Enc!EncodeZigZag(v)
    BY DEF Enc!Word, Enc!I32Types
  <1>. QED
    BY <1>1, <1>2, <1>3, SameWire

\* What the decoder stores, for each type.
LEMMA ConversionsOfTypes ==
    ASSUME NEW u
    PROVE  /\ \A t \in Signed32 : Convert(t, u) = ToSigned(u % U32, U32)
           /\ \A t \in Unsigned32 : Convert(t, u) = u % U32
           /\ \A t \in Signed64 : Convert(t, u) = ToSigned(u, U64)
           /\ \A t \in Unsigned64 : Convert(t, u) = u
           /\ Convert("bool", u) = IF u = 0 THEN 0 ELSE 1
           /\ Convert("sint64", u) = DecodeZigZag(u)
  BY DEF Convert, Signed32, Unsigned32, Signed64, Unsigned64

LEMMA HoldsOfTypes ==
    /\ \A t \in Signed32 : CppValues(t) = -(U32 \div 2) .. (U32 \div 2 - 1)
    /\ \A t \in Signed64 \cup {"sint64"} :
            CppValues(t) = -(U64 \div 2) .. (U64 \div 2 - 1)
    /\ \A t \in Unsigned32 : CppValues(t) = 0 .. (U32 - 1)
    /\ \A t \in Unsigned64 : CppValues(t) = 0 .. (U64 - 1)
    /\ CppValues("bool") = {0, 1}
  BY DEF CppValues, Signed32, Unsigned32, Signed64, Unsigned64

NumberTypes ==
    Signed32 \cup Signed64 \cup Unsigned32 \cup Unsigned64 \cup {"bool", "sint64"}

\* A number that its type can hold is what the decoder makes of its word.
LEMMA ConvertRestores ==
    ASSUME NEW t \in NumberTypes, NEW v \in CppValues(t)
    PROVE  /\ Enc!Word(t, v) \in 0 .. (U64 - 1)
           /\ Convert(t, Enc!Word(t, v)) = v
  <1>0. PICK h \in Nat : U32 = 2 * h
    BY WordsAreEven
  <1>1. PICK k \in Nat : U64 = 2 * k
    BY WordsAreEven
  <1>2. /\ U32 \in Nat /\ U64 \in Nat /\ U32 > 1 /\ U64 >= U32
        /\ U32 \div 2 = h /\ U64 \div 2 = k
    BY <1>0, <1>1, WireAssumption
  <1>3. CASE t \in Signed32
    <2>1. v \in -h .. (h - 1)
      BY <1>2, <1>3, HoldsOfTypes
    <2>2. v % U32 \in 0 .. (U32 - 1) /\ ToSigned(v % U32, U32) = v
      BY <1>0, <1>2, <2>1, SignRestores
    <2>3. Enc!Word(t, v) = v % U32
      BY <1>3, WordsOfTypes
    <2> DEFINE u == v % U32
    <2> HIDE DEF u
    <2>4. u % U32 = u
      BY <1>2, <2>2, SmallMod DEF u
    <2>5. Convert(t, u) = ToSigned(u % U32, U32)
      BY <1>3, ConversionsOfTypes
    <2>. QED
      BY <1>2, <2>2, <2>3, <2>4, <2>5 DEF u
  <1>4. CASE t \in Unsigned32
    <2>1. v \in 0 .. (U32 - 1)
      BY <1>4, HoldsOfTypes
    <2>2. v % U32 = v
      BY <1>2, <2>1, SmallMod
    <2>3. Enc!Word(t, v) = v
      BY <1>4, <2>2, WordsOfTypes
    <2>4. Convert(t, v) = v % U32
      BY <1>4, ConversionsOfTypes
    <2>. QED
      BY <1>2, <2>1, <2>2, <2>3, <2>4
  <1>5. CASE t \in Signed64
    <2>1. v \in -k .. (k - 1)
      BY <1>2, <1>5, HoldsOfTypes
    <2>2. v % U64 \in 0 .. (U64 - 1) /\ ToSigned(v % U64, U64) = v
      BY <1>1, <1>2, <2>1, SignRestores
    <2>3. Enc!Word(t, v) = v % U64
      BY <1>5, WordsOfTypes
    <2>4. Convert(t, v % U64) = ToSigned(v % U64, U64)
      BY <1>5, ConversionsOfTypes
    <2>. QED
      BY <2>2, <2>3, <2>4
  <1>6. CASE t \in Unsigned64
    <2>1. v \in 0 .. (U64 - 1)
      BY <1>6, HoldsOfTypes
    <2>2. v % U64 = v
      BY <1>2, <2>1, SmallMod
    <2>3. Enc!Word(t, v) = v
      BY <1>6, <2>2, WordsOfTypes
    <2>4. Convert(t, v) = v
      BY <1>6, ConversionsOfTypes
    <2>. QED
      BY <2>1, <2>3, <2>4
  <1>7. CASE t = "bool"
    <2>1. v \in {0, 1}
      BY <1>7, HoldsOfTypes
    <2>2. v \in 0 .. (U32 - 1)
      BY <1>2, <2>1
    <2>3. v % U32 = v
      BY <1>2, <2>2, SmallMod
    <2>4. Enc!Word(t, v) = v
      BY <1>7, <2>3, WordsOfTypes
    <2>5. Convert(t, v) = IF v = 0 THEN 0 ELSE 1
      BY <1>7, ConversionsOfTypes
    <2>. QED
      BY <1>2, <2>1, <2>2, <2>4, <2>5
  <1>8. CASE t = "sint64"
    <2>1. v \in -k .. (k - 1)
      BY <1>2, <1>8, HoldsOfTypes
    <2>2. EncodeZigZag(v) \in 0 .. (U64 - 1) /\ DecodeZigZag(EncodeZigZag(v)) = v
      BY <1>1, <2>1, ZigZagBack
    <2>3. Enc!Word(t, v) = EncodeZigZag(v)
      BY <1>8, WordsOfTypes
    <2>4. Convert(t, EncodeZigZag(v)) = DecodeZigZag(EncodeZigZag(v))
      BY <1>8, ConversionsOfTypes
    <2>. QED
      BY <2>2, <2>3, <2>4
  <1>. QED
    BY <1>3, <1>4, <1>5, <1>6, <1>7, <1>8 DEF NumberTypes

\* A word is one of the 64-bit words, a 32-bit word for the 32-bit types.
LEMMA WordTyped ==
    ASSUME NEW t \in NumberTypes, NEW v \in Int
    PROVE  /\ Enc!Word(t, v) \in 0 .. (U64 - 1)
           /\ t \in Signed32 \cup Unsigned32 => Enc!Word(t, v) \in 0 .. (U32 - 1)
  <1>1. U32 \in Nat /\ U64 \in Nat /\ U32 > 1 /\ U64 >= U32 /\ U64 > 0
    BY WireAssumption
  <1>2. v % U32 \in 0 .. (U32 - 1) /\ v % U64 \in 0 .. (U64 - 1)
    BY <1>1, ModTyped
  <1>3. EncodeZigZag(v) \in 0 .. (U64 - 1)
    <2>1. (2 * v) \in Int /\ (-2 * v - 1) \in Int
      OBVIOUS
    <2>2. (2 * v) % U64 \in 0 .. (U64 - 1) /\ (-2 * v - 1) % U64 \in 0 .. (U64 - 1)
      BY <1>1, <2>1, ModTyped
    <2>. QED
      BY <2>2 DEF EncodeZigZag
  <1>4. CASE t \in Signed32 \cup Unsigned32 \cup {"bool"}
    <2>1. Enc!Word(t, v) = v % U32
      BY <1>4, WordsOfTypes
    <2>. QED
      BY <1>1, <1>2, <2>1
  <1>5. CASE t \in Signed64 \cup Unsigned64
    <2>1. Enc!Word(t, v) = v % U64
      BY <1>5, WordsOfTypes
    <2>2. t \notin Signed32 \cup Unsigned32
      BY <1>5 DEF Signed32, Unsigned32, Signed64, Unsigned64
    <2>. QED
      BY <1>2, <2>1, <2>2
  <1>6. CASE t = "sint64"
    <2>1. Enc!Word(t, v) = EncodeZigZag(v)
      BY <1>6, WordsOfTypes
    <2>2. t \notin Signed32 \cup Unsigned32
      BY <1>6 DEF Signed32, Unsigned32
    <2>. QED
      BY <1>3, <2>1, <2>2
  <1>. QED
    BY <1>4, <1>5, <1>6 DEF NumberTypes

-----------------------------------------------------------------------------
(* The bytes of an element: the tag, a number, and the bytes it counts. *)

TagOf(f) == 8 * f.num + GetWireType(f.type)

\* The Read call for the number.
StartOf(type) ==
    CASE GetWireType(type) = kI64 -> NewFixed(N64)
      [] GetWireType(type) = kI32 -> NewFixed(N32)
      [] OTHER -> NewVarint

\* The bytes of a string and of a sub-message.
Pay(h, m, i, k) ==
    CASE FieldOf(h, m, i).type = "string" -> Elems(h, m, i)[k]
      [] FieldOf(h, m, i).type = "message" -> Body(h, Elems(h, m, i)[k])
      [] OTHER -> <<>>

Laid(h, m, i, k, r, w) ==
    LET type == FieldOf(h, m, i).type
        v == Elems(h, m, i)[k]
    IN  /\ w \in 0 .. (U64 - 1)
        /\ r \in Seq(Byte)
        /\ Reading(StartOf(type), r, w)
        /\ StartOf(type) \in ReadCalls
        /\ Pay(h, m, i, k) \in Seq(Byte)
        /\ ElemBytes(h, m, i, k) =
            <<TagOf(FieldOf(h, m, i))>> \o (r \o Pay(h, m, i, k))
        /\ type \in LenTypes => w = Len(Pay(h, m, i, k)) /\ w < U32
        /\ type \notin LenTypes =>
            /\ Pay(h, m, i, k) = <<>>
            /\ v \in CppValues(type) => Convert(type, w) = v

LEMMA WireTypes ==
    /\ \A t : Enc!GetWireType(t) = GetWireType(t)
    /\ \A t : GetWireType(t) \in 0 .. 5
    /\ \A t \in {"sfixed32", "fixed32", "float"} : GetWireType(t) = kI32
    /\ \A t \in {"sfixed64", "fixed64", "double"} : GetWireType(t) = kI64
    /\ \A t \in LenTypes : GetWireType(t) = kLen
    /\ \A t \in {"int32", "int64", "uint32", "uint64", "sint64", "bool", "enum"} :
            GetWireType(t) = kVarint
    /\ kI32 = 5 /\ kI64 = 1 /\ kLen = 2 /\ kVarint = 0
  <1>1. \A t : Enc!GetWireType(t) = GetWireType(t)
    BY Zenon DEF Enc!GetWireType, GetWireType, Enc!I32Types, I32Types,
                 Enc!I64Types, I64Types, Enc!LenTypes, LenTypes, Enc!kI32, kI32,
                 Enc!kI64, kI64, Enc!kLen, kLen, Enc!kVarint, kVarint
  <1>2. \A t : GetWireType(t) \in 0 .. 5
    BY DEF GetWireType, kI32, kI64, kLen, kVarint
  <1>. QED
    BY <1>1, <1>2 DEF GetWireType, I32Types, I64Types, LenTypes, kI32, kI64,
                      kLen, kVarint

LEMMA StartsOfTypes ==
    /\ \A t \in {"sfixed32", "fixed32", "float"} : StartOf(t) = NewFixed(N32)
    /\ \A t \in {"sfixed64", "fixed64", "double"} : StartOf(t) = NewFixed(N64)
    /\ \A t \in LenTypes \cup {"int32", "int64", "uint32", "uint64", "sint64",
                               "bool", "enum"} : StartOf(t) = NewVarint
  BY WireTypes DEF StartOf

LEMMA TagParts ==
    ASSUME NEW n \in Nat, NEW w \in 0 .. 5
    PROVE  (8 * n + w) \div 8 = n /\ (8 * n + w) % 8 = w
  OBVIOUS

\* The tag is one byte.
LEMMA TagIs ==
    ASSUME NEW h, NEW m, NEW f, NEW v, Enc!Sizable(h, m, f, v),
           8 * f.num + 7 < U32
    PROVE  /\ TagOf(f) \in Byte /\ TagOf(f) < Base
           /\ TagOf(f) \div 8 = f.num
           /\ TagOf(f) % 8 = GetWireType(f.type)
           /\ TagBytes(f) = <<TagOf(f)>>
  <1>1. f.num \in Nat /\ GetWireType(f.type) \in 0 .. 5
    BY WireTypes DEF Enc!Sizable
  <1>2. TagOf(f) \in Nat /\ TagOf(f) < U32
    <2>1. U32 \in Nat
      BY WireAssumption
    <2>2. \A g \in 0 .. 5 : 8 * f.num + g \in Nat /\ 8 * f.num + g < U32
      BY <1>1, <2>1
    <2>. QED
      BY <1>1, <2>2, Zenon DEF TagOf
  <1>3. TagOf(f) \div 8 = f.num /\ TagOf(f) % 8 = GetWireType(f.type)
    <2>1. \A g \in 0 .. 5 : (8 * f.num + g) \div 8 = f.num /\ (8 * f.num + g) % 8 = g
      BY <1>1, TagParts
    <2>. QED
      BY <1>1, <2>1, Zenon DEF TagOf
  <1>4. Enc!Tag(f.num, Enc!GetWireType(f.type)) = TagOf(f)
    <2>1. Enc!Tag(f.num, Enc!GetWireType(f.type)) = TagOf(f) % U32
      <3>1. f.num * 8 + GetWireType(f.type) = TagOf(f)
        BY <1>1 DEF TagOf
      <3>. QED
        BY <3>1, WireTypes DEF Enc!Tag
    <2>. QED
      BY <1>2, <2>1, SmallMod, WireAssumption
  <1>5. TagOf(f) < Base
    BY <1>4 DEF Enc!Sizable
  <1>6. TagBytes(f) = VarintBytes(TagOf(f))
    BY <1>4 DEF TagBytes
  <1>7. VarintBytes(TagOf(f)) = <<TagOf(f)>>
    BY <1>2, <1>5, VarintBytesDef
  <1>8. TagOf(f) \in Byte
    BY <1>2, <1>5, WireAssumption DEF Byte
  <1>. QED
    BY <1>3, <1>5, <1>6, <1>7, <1>8

\* A number: its calls are those for the tag and for the word.
WordBytes(t, v) ==
    CASE t \in {"sfixed32", "fixed32", "float"} -> FixedBytes(Enc!Word(t, v), N32)
      [] t \in {"sfixed64", "fixed64", "double"} ->
            FixedBytes(Enc!Word(t, v), N64)
      [] OTHER -> VarintBytes(Enc!Word(t, v))

LEMMA NumberCalls ==
    ASSUME NEW f, f.type \in NumberTypes, NEW v, NEW s, NEW b
    PROVE  Enc!ItemCalls(f, v, s, b) =
                <<TagBytes(f)>> \o <<WordBytes(f.type, v)>>
  <1>1. CASE f.type \in {"sfixed32", "fixed32", "float"}
    <2>1. f.type \in Enc!I32Types /\ f.type \in Signed32 \cup Unsigned32
      BY <1>1 DEF Enc!I32Types, Signed32, Unsigned32
    <2>2. Enc!ItemCalls(f, v, s, b) = <<TagBytes(f)>> \o <<FixedBytes(v % U32, N32)>>
      BY <2>1, FormOfI32
    <2>3. Enc!Word(f.type, v) = v % U32
      BY <2>1, WordsOfTypes
    <2>4. WordBytes(f.type, v) = FixedBytes(Enc!Word(f.type, v), N32)
      BY <1>1 DEF WordBytes
    <2>. QED
      BY <2>2, <2>3, <2>4
  <1>2. CASE f.type \in {"sfixed64", "fixed64", "double"}
    <2>1. f.type \in Enc!I64Types /\ f.type \in Signed64 \cup Unsigned64
      BY <1>2 DEF Enc!I64Types, Signed64, Unsigned64
    <2>2. Enc!ItemCalls(f, v, s, b) = <<TagBytes(f)>> \o <<FixedBytes(v % U64, N64)>>
      BY <2>1, FormOfI64
    <2>3. Enc!Word(f.type, v) = v % U64
      BY <2>1, WordsOfTypes
    <2>4. WordBytes(f.type, v) = FixedBytes(Enc!Word(f.type, v), N64)
      BY <1>2 DEF WordBytes
    <2>. QED
      BY <2>2, <2>3, <2>4
  <1>3. CASE f.type = "sint64"
    <2>1. Enc!ItemCalls(f, v, s, b) = <<TagBytes(f)>> \o <<VarintBytes(EncodeZigZag(v))>>
      BY <1>3, FormOfZigZag
    <2>2. Enc!Word(f.type, v) = EncodeZigZag(v)
      BY <1>3, WordsOfTypes
    <2>3. WordBytes(f.type, v) = VarintBytes(Enc!Word(f.type, v))
      BY <1>3 DEF WordBytes
    <2>. QED
      BY <2>1, <2>2, <2>3
  <1>4. CASE f.type \in {"int32", "enum", "uint32", "bool", "int64", "uint64"}
    <2>1. f.type \in Enc!VarintTypes \ {"sint32", "sint64"}
      BY <1>4 DEF Enc!VarintTypes
    <2>2. Enc!ItemCalls(f, v, s, b) = <<TagBytes(f)>> \o <<VarintBytes(Enc!Word(f.type, v))>>
      BY <2>1, FormOfVarint
    <2>3. WordBytes(f.type, v) = VarintBytes(Enc!Word(f.type, v))
      BY <1>4 DEF WordBytes
    <2>. QED
      BY <2>2, <2>3
  <1>. QED
    BY <1>1, <1>2, <1>3, <1>4 DEF NumberTypes, Signed32, Signed64, Unsigned32,
                                  Unsigned64

LEMMA NumberRead ==
    ASSUME NEW t \in NumberTypes, NEW v \in Int
    PROVE  /\ Enc!Word(t, v) \in 0 .. (U64 - 1)
           /\ WordBytes(t, v) \in Seq(Byte)
           /\ StartOf(t) \in ReadCalls
           /\ Reading(StartOf(t), WordBytes(t, v), Enc!Word(t, v))
  <1> DEFINE w == Enc!Word(t, v)
  <1>1. /\ w \in 0 .. (U64 - 1)
        /\ t \in Signed32 \cup Unsigned32 => w \in 0 .. (U32 - 1)
    BY WordTyped
  <1>2. /\ U32 = Words(N32) /\ U64 = Words(N64) /\ N32 \in Nat \ {0}
        /\ N64 \in Nat \ {0} /\ U64 \in Nat /\ U32 \in Nat
    BY WordAssumption, WireAssumption
  <1> HIDE DEF w
  <1>3. w \in Nat
    BY <1>1, <1>2
  <1>4. CASE t \in {"sfixed32", "fixed32", "float"}
    <2>1. w < Words(N32)
      BY <1>1, <1>2, <1>4 DEF Signed32, Unsigned32
    <2>2. Reading(NewFixed(N32), FixedBytes(w, N32), w) /\ NewFixed(N32) \in ReadCalls
      BY <1>1, <1>2, <2>1, ReadingStarts
    <2>3. FixedBytes(w, N32) \in Seq(Byte)
      BY <1>2, <1>3, FixedLength
    <2>4. StartOf(t) = NewFixed(N32) /\ WordBytes(t, v) = FixedBytes(w, N32)
      BY <1>4, StartsOfTypes DEF WordBytes, w
    <2>. QED
      BY <1>1, <2>2, <2>3, <2>4 DEF w
  <1>5. CASE t \in {"sfixed64", "fixed64", "double"}
    <2>1. w < Words(N64)
      BY <1>1, <1>2
    <2>2. Reading(NewFixed(N64), FixedBytes(w, N64), w) /\ NewFixed(N64) \in ReadCalls
      BY <1>1, <1>2, <2>1, ReadingStarts
    <2>3. FixedBytes(w, N64) \in Seq(Byte)
      BY <1>2, <1>3, FixedLength
    <2>4. StartOf(t) = NewFixed(N64) /\ WordBytes(t, v) = FixedBytes(w, N64)
      BY <1>5, StartsOfTypes DEF WordBytes, w
    <2>. QED
      BY <1>1, <2>2, <2>3, <2>4 DEF w
  <1>6. CASE t \in {"int32", "int64", "uint32", "uint64", "sint64", "bool", "enum"}
    <2>1. Reading(NewVarint, VarintBytes(w), w) /\ NewVarint \in ReadCalls
      BY <1>1, ReadingStarts
    <2>2. VarintBytes(w) \in Seq(Byte)
      BY <1>3, VarintBytesAre
    <2>3. StartOf(t) = NewVarint
      BY <1>6, StartsOfTypes
    <2>4. WordBytes(t, v) = VarintBytes(w)
      BY <1>6 DEF WordBytes, w
    <2>. QED
      BY <1>1, <2>1, <2>2, <2>3, <2>4 DEF w
  <1>. QED
    BY <1>4, <1>5, <1>6 DEF NumberTypes, Signed32, Signed64, Unsigned32, Unsigned64

LEMMA BodyTyped ==
    ASSUME NEW h, Enc!SizableMessages(h), NEW m \in DOMAIN h
    PROVE  /\ Body(h, m) \in Seq(Byte)
           /\ Len(Body(h, m)) = Sizes(h)[m]
           /\ Sizes(h)[m] \in Nat
  <1>1. /\ Enc!EncodeImpl(h)[m] \in Seq(Chunks)
        /\ Len(Flat(Enc!EncodeImpl(h)[m])) = Sizes(h)[m]
    BY Measured
  <1>2. Flat(Enc!EncodeImpl(h)[m]) \in Seq(Byte)
    BY <1>1, ChunksAreBytes, FlatTyped
  <1>3. Sizes(h)[m] \in Nat
    BY SizesExist DEF Sizes
  <1>. QED
    BY <1>1, <1>2, <1>3 DEF Body

LEMMA ElemKinds ==
    ASSUME NEW h, NEW m, NEW f, NEW v, Enc!Sizable(h, m, f, v)
    PROVE  \/ f.type = "string" /\ v \in Seq(Byte) /\ Len(v) < U32
           \/ /\ f.type = "message"
              /\ v \in (m + 1) .. Len(h)
              /\ Sizes(h)[v] < U32
           \/ f.type \in NumberTypes /\ v \in Int
  <1>1. /\ Enc!I32Types \cup Enc!I64Types \cup {"sint64"} \subseteq NumberTypes
        /\ Enc!VarintTypes \ {"sint32", "sint64"} \subseteq NumberTypes
    BY DEF Enc!I32Types, Enc!I64Types, Enc!VarintTypes, NumberTypes, Signed32,
           Signed64, Unsigned32, Unsigned64
  <1>2. Enc!Byte = Byte
    BY SameWire
  <1>. QED
    BY <1>1, <1>2 DEF Enc!Sizable, Sizes

LEMMA KindsApart ==
    /\ NumberTypes \cap LenTypes = {}
    /\ {"string", "message"} \subseteq LenTypes
  BY DEF NumberTypes, LenTypes, Signed32, Signed64, Unsigned32, Unsigned64

\* Two calls.
LEMMA FlatTwo ==
    ASSUME NEW S, NEW c \in Seq(S), NEW d \in Seq(S)
    PROVE  Flat(<<c>> \o <<d>>) = c \o d
  <1>1. <<d>> \in Seq(Seq(S)) /\ Flat(<<d>>) = d
    BY FlatOne
  <1>. QED
    BY <1>1, FlatCons

LEMMA NumberLaid ==
    ASSUME NEW h, Enc!SizableMessages(h), NEW m \in DOMAIN h,
           NEW i \in FieldsOf(h, m), NEW k \in DOMAIN Elems(h, m, i),
           8 * FieldOf(h, m, i).num + 7 < U32,
           FieldOf(h, m, i).type \in NumberTypes, Elems(h, m, i)[k] \in Int
    PROVE  \E r, w : Laid(h, m, i, k, r, w)
  <1> DEFINE f == FieldOf(h, m, i)
             v == Elems(h, m, i)[k]
             w == Enc!Word(f.type, v)
             r == WordBytes(f.type, v)
  <1>1. Enc!Sizable(h, m, f, v)
    BY ElemsAreSizable, Zenon DEF FieldsOf
  <1>2. TagBytes(f) = <<TagOf(f)>> /\ TagOf(f) \in Byte
    BY <1>1, TagIs
  <1>3. /\ w \in 0 .. (U64 - 1) /\ r \in Seq(Byte) /\ StartOf(f.type) \in ReadCalls
        /\ Reading(StartOf(f.type), r, w)
    BY NumberRead
  <1>4. f.type \notin LenTypes /\ Pay(h, m, i, k) = <<>>
    BY KindsApart DEF Pay
  <1>5. ElemCalls(h, m, i, k) = <<TagBytes(f)>> \o <<r>>
    BY NumberCalls DEF ElemCalls
  <1>6. v \in CppValues(f.type) => Convert(f.type, w) = v
    BY ConvertRestores
  <1> HIDE DEF f, v, w, r
  <1>7. ElemBytes(h, m, i, k) = <<TagOf(f)>> \o r
    <2>1. <<TagOf(f)>> \in Seq(Byte)
      BY <1>2
    <2>2. Flat(<<TagBytes(f)>> \o <<r>>) = TagBytes(f) \o r
      BY <1>2, <1>3, <2>1, FlatTwo
    <2>. QED
      BY <1>2, <1>5, <2>2 DEF ElemBytes
  <1>8. r \o <<>> = r
    BY <1>3, ConcatEmptySeq
  <1>9. <<>> \in Seq(Byte)
    BY EmptySeq
  <1>10. Laid(h, m, i, k, r, w)
    BY <1>3, <1>4, <1>6, <1>7, <1>8, <1>9, Zenon DEF Laid, f, v
  <1>. QED
    BY <1>10

LEMMA StringLaid ==
    ASSUME NEW h, Enc!SizableMessages(h), NEW m \in DOMAIN h,
           NEW i \in FieldsOf(h, m), NEW k \in DOMAIN Elems(h, m, i),
           8 * FieldOf(h, m, i).num + 7 < U32,
           FieldOf(h, m, i).type = "string",
           Elems(h, m, i)[k] \in Seq(Byte), Len(Elems(h, m, i)[k]) < U32
    PROVE  \E r, w : Laid(h, m, i, k, r, w)
  <1> DEFINE f == FieldOf(h, m, i)
             v == Elems(h, m, i)[k]
             w == Len(v)
             r == VarintBytes(w)
  <1>1. Enc!Sizable(h, m, f, v)
    BY ElemsAreSizable, Zenon DEF FieldsOf
  <1>2. TagBytes(f) = <<TagOf(f)>> /\ TagOf(f) \in Byte
    BY <1>1, TagIs
  <1>3. w \in Nat /\ w < U32 /\ w \in 0 .. (U64 - 1) /\ w % U32 = w
    <2>1. w \in Nat /\ w < U32
      BY LenProperties
    <2> HIDE DEF w
    <2>2. w \in 0 .. (U64 - 1) /\ w \in 0 .. (U32 - 1)
      BY <2>1, WireAssumption
    <2>. QED
      BY <2>1, <2>2, SmallMod, WireAssumption
  <1>4. f.type \in LenTypes /\ Pay(h, m, i, k) = v
    BY KindsApart DEF Pay
  <1>5. ElemCalls(h, m, i, k) =
            <<TagBytes(f)>> \o (<<r>> \o (IF v = <<>> THEN <<>> ELSE <<v>>))
    <2>1. ElemCalls(h, m, i, k) =
            <<TagBytes(f)>> \o
            (<<VarintBytes(w % U32)>> \o (IF v = <<>> THEN <<>> ELSE <<v>>))
      BY FormOfString DEF ElemCalls
    <2>. QED
      BY <1>3, <2>1
  <1>6. r \in Seq(Byte) /\ Reading(NewVarint, r, w) /\ NewVarint \in ReadCalls
    BY <1>3, VarintBytesAre, ReadingStarts
  <1>7. StartOf(f.type) = NewVarint
    BY <1>4, StartsOfTypes
  <1>8. v \in Seq(Byte)
    OBVIOUS
  <1> HIDE DEF f, v, r
  <1> DEFINE s == IF v = <<>> THEN <<>> ELSE <<v>>
  <1>9. s \in Seq(Seq(Byte)) /\ Flat(s) = v
    <2>1. CASE v = <<>>
      <3>1. s = <<>>
        BY <2>1
      <3>2. <<>> \in Seq(Seq(Byte))
        BY EmptySeq
      <3>. QED
        BY <2>1, <3>1, <3>2, FlatTyped
    <2>2. CASE v # <<>>
      <3>1. s = <<v>>
        BY <2>2
      <3>. QED
        BY <1>8, <3>1, FlatOne
    <2>. QED
      BY <2>1, <2>2
  <1> HIDE DEF s
  <1>10. ElemBytes(h, m, i, k) = <<TagOf(f)>> \o (r \o v)
    <2>1. <<TagOf(f)>> \in Seq(Byte)
      BY <1>2
    <2>2. <<r>> \o s \in Seq(Seq(Byte)) /\ Flat(<<r>> \o s) = r \o v
      <3>1. <<r>> \in Seq(Seq(Byte))
        BY <1>6
      <3>2. <<r>> \o s \in Seq(Seq(Byte))
        BY <1>9, <3>1, ConcatProperties
      <3>3. Flat(<<r>> \o s) = r \o Flat(s)
        BY <1>6, <1>9, FlatCons
      <3>. QED
        BY <1>9, <3>2, <3>3
    <2>3. Flat(<<TagBytes(f)>> \o (<<r>> \o s)) = TagBytes(f) \o Flat(<<r>> \o s)
      BY <1>2, <2>1, <2>2, FlatCons
    <2>. QED
      BY <1>2, <1>5, <2>2, <2>3 DEF ElemBytes, s
  <1>11. Laid(h, m, i, k, r, w)
    BY <1>3, <1>4, <1>6, <1>7, <1>8, <1>10, Zenon DEF Laid, f
  <1>. QED
    BY <1>11

LEMMA MessageLaid ==
    ASSUME NEW h, Enc!SizableMessages(h), NEW m \in DOMAIN h,
           NEW i \in FieldsOf(h, m), NEW k \in DOMAIN Elems(h, m, i),
           8 * FieldOf(h, m, i).num + 7 < U32,
           FieldOf(h, m, i).type = "message",
           Elems(h, m, i)[k] \in DOMAIN h, Sizes(h)[Elems(h, m, i)[k]] < U32
    PROVE  \E r, w : Laid(h, m, i, k, r, w)
  <1> DEFINE f == FieldOf(h, m, i)
             v == Elems(h, m, i)[k]
             b == Enc!EncodeImpl(h)[v]
             w == Sizes(h)[v]
             r == VarintBytes(w)
  <1>1. Enc!Sizable(h, m, f, v)
    BY ElemsAreSizable, Zenon DEF FieldsOf
  <1>2. TagBytes(f) = <<TagOf(f)>> /\ TagOf(f) \in Byte
    BY <1>1, TagIs
  <1>3. Body(h, v) \in Seq(Byte) /\ Len(Body(h, v)) = w /\ w \in Nat /\ w < U32
    BY BodyTyped
  <1>4. w \in 0 .. (U64 - 1) /\ w % U32 = w
    <2> HIDE DEF w
    <2>1. U32 \in Nat /\ U64 \in Nat /\ U64 >= U32
      BY WireAssumption
    <2>2. w \in 0 .. (U64 - 1) /\ w \in 0 .. (U32 - 1)
      BY <1>3, <2>1
    <2>3. w % U32 = w
      BY <2>1, <2>2, SmallMod
    <2>. QED
      BY <2>2, <2>3
  <1>5. f.type \in LenTypes /\ Pay(h, m, i, k) = Body(h, v)
    BY KindsApart DEF Pay
  <1>6. ElemCalls(h, m, i, k) = <<TagBytes(f)>> \o (<<r>> \o b)
    <2>1. ElemCalls(h, m, i, k) =
            <<TagBytes(f)>> \o (<<VarintBytes(w % U32)>> \o b)
      <3>1. \A s, t : Enc!ItemCalls(f, v, s, t) =
                <<TagBytes(f)>> \o (<<VarintBytes(s[v] % U32)>> \o t[v])
        <4> HIDE DEF f, v
        <4>1. f.type = "message"
          BY DEF f
        <4>. QED
          BY <4>1, FormOfMessage
      <3>2. ElemCalls(h, m, i, k) =
                Enc!ItemCalls(f, v, Sizes(h), Enc!EncodeImpl(h))
        BY Zenon DEF ElemCalls
      <3>. QED
        BY <3>1, <3>2, Zenon
    <2>. QED
      BY <1>4, <2>1
  <1>7. r \in Seq(Byte) /\ Reading(NewVarint, r, w) /\ NewVarint \in ReadCalls
    BY <1>3, <1>4, VarintBytesAre, ReadingStarts
  <1>8. StartOf(f.type) = NewVarint
    BY <1>5, StartsOfTypes
  <1>9. b \in Seq(Seq(Byte)) /\ Flat(b) = Body(h, v)
    BY Measured, ChunksAreBytes DEF Body
  <1> HIDE DEF f, v, r, b, w
  <1>10. ElemBytes(h, m, i, k) = <<TagOf(f)>> \o (r \o Body(h, v))
    <2>1. <<TagOf(f)>> \in Seq(Byte)
      BY <1>2
    <2>2. <<r>> \o b \in Seq(Seq(Byte)) /\ Flat(<<r>> \o b) = r \o Body(h, v)
      <3>1. <<r>> \in Seq(Seq(Byte))
        BY <1>7
      <3>2. <<r>> \o b \in Seq(Seq(Byte))
        BY <1>9, <3>1, ConcatProperties
      <3>3. Flat(<<r>> \o b) = r \o Flat(b)
        BY <1>7, <1>9, FlatCons
      <3>. QED
        BY <1>9, <3>2, <3>3
    <2>3. Flat(<<TagBytes(f)>> \o (<<r>> \o b)) = TagBytes(f) \o Flat(<<r>> \o b)
      BY <1>2, <2>1, <2>2, FlatCons
    <2>. QED
      BY <1>2, <1>6, <2>2, <2>3 DEF ElemBytes
  <1>11. Laid(h, m, i, k, r, w)
    BY <1>3, <1>4, <1>5, <1>7, <1>8, <1>10, Zenon DEF Laid, f
  <1>. QED
    BY <1>11

\* Every element has this form.
LEMMA ElemLaid ==
    ASSUME NEW h, Enc!SizableMessages(h), NEW m \in DOMAIN h,
           NEW i \in FieldsOf(h, m), NEW k \in DOMAIN Elems(h, m, i),
           8 * FieldOf(h, m, i).num + 7 < U32
    PROVE  \E r, w : Laid(h, m, i, k, r, w)
  <1> DEFINE f == FieldOf(h, m, i)
             v == Elems(h, m, i)[k]
  <1>1. Enc!Sizable(h, m, f, v)
    BY ElemsAreSizable, Zenon DEF FieldsOf
  <1>2. CASE f.type = "string" /\ v \in Seq(Byte) /\ Len(v) < U32
    BY <1>2, StringLaid
  <1>3. CASE f.type = "message" /\ v \in (m + 1) .. Len(h) /\ Sizes(h)[v] < U32
    <2>1. v \in DOMAIN h
      BY <1>3, MessagesAreSeq
    <2>. QED
      BY <1>3, <2>1, MessageLaid
  <1>4. CASE f.type \in NumberTypes /\ v \in Int
    BY <1>4, NumberLaid
  <1> HIDE DEF f, v
  <1>. QED
    BY <1>1, <1>2, <1>3, <1>4, ElemKinds

-----------------------------------------------------------------------------
(* The bytes between two positions of a sequence. *)

Window(s, c, e) == SubSeq(s, c + 1, e)

LEMMA WindowTyped ==
    ASSUME NEW s \in Seq(Byte), NEW c \in Nat, NEW e \in Nat, c <= e, e <= Len(s)
    PROVE  /\ Window(s, c, e) \in Seq(Byte)
           /\ Len(Window(s, c, e)) = e - c
           /\ \A i \in 1 .. (e - c) : Window(s, c, e)[i] = s[c + i]
  <1>1. \A i \in (c + 1) .. e : s[i] \in Byte
    <2>1. \A i \in 1 .. Len(s) : s[i] \in Byte
      BY ElementOfSeq
    <2>2. Len(s) \in Nat
      BY LenProperties
    <2>. QED
      BY <2>1, <2>2
  <1>2. /\ Window(s, c, e) \in Seq(Byte)
        /\ Len(Window(s, c, e)) = IF c + 1 <= e THEN e - (c + 1) + 1 ELSE 0
        /\ \A i \in 1 .. e - (c + 1) + 1 : Window(s, c, e)[i] = s[c + 1 + i - 1]
    <2>1. c + 1 \in Int /\ e \in Int
      OBVIOUS
    <2>. QED
      BY <1>1, <2>1, SubSeqProperties DEF Window
  <1>3. Len(Window(s, c, e)) = e - c
    BY <1>2
  <1>4. e - (c + 1) + 1 = e - c /\ \A i \in 1 .. (e - c) : c + 1 + i - 1 = c + i
    OBVIOUS
  <1>. QED
    BY <1>2, <1>3, <1>4

LEMMA WindowWhole ==
    ASSUME NEW s \in Seq(Byte)
    PROVE  Window(s, 0, Len(s)) = s
  <1>1. 0 + 1 = 1
    OBVIOUS
  <1>2. SubSeq(s, 1, Len(s)) = s
    BY SubSeqFull
  <1>. QED
    BY <1>1, <1>2 DEF Window

LEMMA WindowEmpty ==
    ASSUME NEW s \in Seq(Byte), NEW c \in Nat, NEW e \in Nat, c <= e, e <= Len(s)
    PROVE  Window(s, c, e) = <<>> <=> c = e
  <1>1. Window(s, c, e) \in Seq(Byte) /\ Len(Window(s, c, e)) = e - c
    BY WindowTyped
  <1>2. Window(s, c, e) = <<>> <=> Len(Window(s, c, e)) = 0
    BY <1>1, EmptySeq
  <1>. QED
    BY <1>1, <1>2

\* Cutting a window in two.
CutInto(s, c, e, x, y) ==
    /\ c + Len(x) \in Nat /\ c <= c + Len(x) /\ c + Len(x) <= e
    /\ Window(s, c, c + Len(x)) = x
    /\ Window(s, c + Len(x), e) = y

LEMMA WindowCut ==
    ASSUME NEW s \in Seq(Byte), NEW c \in Nat, NEW e \in Nat, c <= e, e <= Len(s),
           NEW x \in Seq(Byte), NEW y \in Seq(Byte), Window(s, c, e) = x \o y
    PROVE  CutInto(s, c, e, x, y)
  <1> DEFINE n == Len(x)
             w == Window(s, c, e)
             a == Window(s, c, c + n)
             b == Window(s, c + n, e)
  <1>1. /\ w \in Seq(Byte) /\ Len(w) = e - c
        /\ \A i \in 1 .. (e - c) : w[i] = s[c + i]
    BY WindowTyped
  <1>2. /\ Len(x \o y) = n + Len(y) /\ n \in Nat /\ Len(y) \in Nat /\ Len(s) \in Nat
        /\ \A i \in 1 .. n + Len(y) :
            (x \o y)[i] = IF i <= n THEN x[i] ELSE y[i - n]
    BY ConcatProperties, LenProperties
  <1>3. e - c = n + Len(y)
    BY <1>1, <1>2
  <1>4. c + n \in Nat /\ c <= c + n /\ c + n <= e /\ c + n <= Len(s)
    BY <1>2, <1>3
  <1>5. /\ a \in Seq(Byte) /\ Len(a) = n
        /\ \A i \in 1 .. n : a[i] = s[c + i]
    <2>1. /\ a \in Seq(Byte) /\ Len(a) = (c + n) - c
          /\ \A i \in 1 .. ((c + n) - c) : a[i] = s[c + i]
      BY <1>4, WindowTyped
    <2>2. (c + n) - c = n
      BY <1>2
    <2>. QED
      BY <2>1, <2>2
  <1>6. /\ b \in Seq(Byte) /\ Len(b) = Len(y)
        /\ \A i \in 1 .. Len(y) : b[i] = s[c + n + i]
    <2>1. /\ b \in Seq(Byte) /\ Len(b) = e - (c + n)
          /\ \A i \in 1 .. (e - (c + n)) : b[i] = s[c + n + i]
      BY <1>4, WindowTyped
    <2>2. e - (c + n) = Len(y)
      BY <1>2, <1>3
    <2>. QED
      BY <2>1, <2>2
  <1>7. w = x \o y
    OBVIOUS
  <1> HIDE DEF a, b, w, n
  <1>8. \A i \in 1 .. n : a[i] = x[i]
    <2>1. ASSUME NEW i \in 1 .. n
          PROVE  a[i] = x[i]
      <3>1. i \in 1 .. n + Len(y) /\ i <= n /\ i \in 1 .. (e - c)
        BY <1>2, <1>3
      <3>2. (x \o y)[i] = x[i]
        BY <1>2, <3>1
      <3>3. w[i] = s[c + i]
        BY <1>1, <3>1
      <3>. QED
        BY <1>5, <1>7, <3>2, <3>3
    <2>. QED
      BY <2>1
  <1>9. \A i \in 1 .. Len(y) : b[i] = y[i]
    <2>1. ASSUME NEW i \in 1 .. Len(y)
          PROVE  b[i] = y[i]
      <3>1. n + i \in 1 .. n + Len(y) /\ ~ (n + i <= n) /\ (n + i) - n = i
            /\ n + i \in 1 .. (e - c)
        BY <1>2, <1>3
      <3>2. (x \o y)[n + i] = y[i]
        BY <1>2, <3>1
      <3>3. w[n + i] = s[c + (n + i)]
        BY <1>1, <3>1
      <3>4. c + (n + i) = c + n + i
        BY <1>2
      <3>. QED
        BY <1>6, <1>7, <3>2, <3>3, <3>4
    <2>. QED
      BY <2>1
  <1>10. a = x
    BY <1>5, <1>8, SeqEqual DEF n
  <1>11. b = y
    BY <1>6, <1>9, SeqEqual
  <1>. QED
    BY <1>4, <1>10, <1>11 DEF a, b, n, CutInto

LEMMA HeadAndTail ==
    ASSUME NEW x \in Seq(Byte), x # <<>>
    PROVE  /\ x = <<Head(x)>> \o Tail(x)
           /\ Head(x) \in Byte /\ Tail(x) \in Seq(Byte)
           /\ Len(Tail(x)) = Len(x) - 1
  <1>1. /\ Head(x) \in Byte /\ Tail(x) \in Seq(Byte)
        /\ Len(Tail(x)) = Len(x) - 1
        /\ \A i \in 1 .. Len(Tail(x)) : Tail(x)[i] = x[i + 1]
    BY HeadTailProperties
  <1>2. Len(x) \in Nat /\ Len(x) # 0 /\ Head(x) = x[1]
    BY EmptySeq, LenProperties
  <1> DEFINE h == <<Head(x)>>
             t == Tail(x)
  <1>3. h \in Seq(Byte) /\ Len(h) = 1 /\ h[1] = Head(x)
    BY <1>1
  <1>4. t \in Seq(Byte) /\ Len(t) = Len(x) - 1
        /\ \A i \in 1 .. Len(t) : t[i] = x[i + 1]
    BY <1>1
  <1> HIDE DEF h, t
  <1>5. /\ h \o t \in Seq(Byte)
        /\ Len(h \o t) = Len(x)
        /\ \A i \in 1 .. Len(x) : (h \o t)[i] = IF i <= 1 THEN h[i] ELSE t[i - 1]
    <2>1. /\ h \o t \in Seq(Byte)
          /\ Len(h \o t) = Len(h) + Len(t)
          /\ \A i \in 1 .. Len(h) + Len(t) :
                (h \o t)[i] = IF i <= Len(h) THEN h[i] ELSE t[i - Len(h)]
      <3>1. h \in Seq(Byte) /\ t \in Seq(Byte)
        BY <1>3, <1>4
      <3>. QED
        BY <3>1, ConcatProperties
    <2>2. Len(h) + Len(t) = Len(x)
      BY <1>2, <1>3, <1>4
    <2>3. Len(h) = 1
      BY <1>3
    <2>. QED
      BY <2>1, <2>2, <2>3, Zenon
  <1>6. \A i \in 1 .. Len(x) : (h \o t)[i] = x[i]
    <2>1. ASSUME NEW i \in 1 .. Len(x)
          PROVE  (h \o t)[i] = x[i]
      <3>1. CASE i = 1
        BY <1>2, <1>3, <1>5, <3>1
      <3>2. CASE i # 1
        <4>1. ~ (i <= 1) /\ i - 1 \in 1 .. Len(t) /\ (i - 1) + 1 = i
          BY <1>2, <1>4, <3>2
        <4>2. t[i - 1] = x[i]
          BY <1>4, <4>1
        <4>. QED
          BY <1>5, <4>1, <4>2
      <3>. QED
        BY <3>1, <3>2
    <2>. QED
      BY <2>1
  <1>7. h \o t = x
    BY <1>5, <1>6, SeqEqual
  <1>. QED
    BY <1>1, <1>7 DEF h, t

BeginsWith(s, c, e, b, z) ==
    /\ c + 1 <= e
    /\ s[c + 1] = b
    /\ Window(s, c + 1, e) = z

LEMMA WindowCons ==
    ASSUME NEW s \in Seq(Byte), NEW c \in Nat, NEW e \in Nat, c <= e, e <= Len(s),
           NEW b \in Byte, NEW z \in Seq(Byte), Window(s, c, e) = <<b>> \o z
    PROVE  BeginsWith(s, c, e, b, z)
  <1> DEFINE x == <<b>>
  <1>1. x \in Seq(Byte) /\ Len(x) = 1 /\ x[1] = b
    OBVIOUS
  <1>2. Window(s, c, e) = x \o z
    OBVIOUS
  <1> HIDE DEF x
  <1>3. CutInto(s, c, e, x, z)
    BY <1>1, <1>2, WindowCut
  <1>4. c + 1 <= e /\ Window(s, c + 1, e) = z /\ Window(s, c, c + 1) = x
    BY <1>1, <1>3, Zenon DEF CutInto
  <1>5. s[c + 1] = x[1]
    <2>1. c + 1 \in Nat /\ c <= c + 1 /\ c + 1 <= Len(s) /\ (c + 1) - c = 1
      BY <1>4, LenProperties
    <2>2. \A i \in 1 .. ((c + 1) - c) : Window(s, c, c + 1)[i] = s[c + i]
      BY <2>1, WindowTyped
    <2>3. 1 \in 1 .. ((c + 1) - c)
      BY <2>1
    <2>4. Window(s, c, c + 1)[1] = s[c + 1]
      BY <2>2, <2>3, Zenon
    <2>. QED
      BY <1>4, <2>4, Zenon
  <1>. QED
    BY <1>1, <1>4, <1>5 DEF BeginsWith

LEMMA ConsConcat ==
    ASSUME NEW x \in Seq(Byte), x # <<>>, NEW y \in Seq(Byte)
    PROVE  /\ x \o y = <<Head(x)>> \o (Tail(x) \o y)
           /\ Head(x) \in Byte
           /\ Tail(x) \in Seq(Byte)
           /\ Tail(x) \o y \in Seq(Byte)
  <1> DEFINE b == <<Head(x)>>
             t == Tail(x)
  <1>1. x = b \o t /\ Head(x) \in Byte /\ t \in Seq(Byte)
    BY HeadAndTail
  <1>2. b \in Seq(Byte)
    BY <1>1
  <1> HIDE DEF b, t
  <1>3. (b \o t) \o y = b \o (t \o y)
    <2>1. Associative(Byte)
      BY ConcatIsAssociative
    <2>. QED
      BY <1>1, <1>2, <2>1, Zenon DEF Associative
  <1>4. t \o y \in Seq(Byte)
    BY <1>1, ConcatProperties
  <1>5. x \o y = b \o (t \o y)
    BY <1>1, <1>3, Zenon
  <1>. QED
    BY <1>1, <1>4, <1>5 DEF b, t

LEMMA ConcatEmpty ==
    ASSUME NEW x \in Seq(Byte), NEW y \in Seq(Byte)
    PROVE  /\ x \o y = <<>> <=> x = <<>> /\ y = <<>>
           /\ <<>> \o x = x
           /\ x \o <<>> = x
           /\ x \o y \in Seq(Byte)
  <1>1. /\ x \o y \in Seq(Byte) /\ Len(x \o y) = Len(x) + Len(y)
        /\ Len(x) \in Nat /\ Len(y) \in Nat
    BY ConcatProperties, LenProperties
  <1>2. /\ x = <<>> <=> Len(x) = 0
        /\ y = <<>> <=> Len(y) = 0
        /\ x \o y = <<>> <=> Len(x \o y) = 0
    BY <1>1, EmptySeq
  <1>3. <<>> \o x = x /\ x \o <<>> = x
    BY ConcatEmptySeq
  <1>. QED
    BY <1>1, <1>2, <1>3

-----------------------------------------------------------------------------
(* The reader's descriptors and message objects. *)

\* The operators of the Decoder's wire format are those of the module Wire.
LEMMA SameReader ==
    /\ Dec!NewVarint = NewVarint
    /\ \A n : Dec!NewFixed(n) = NewFixed(n)
    /\ \A r, b : Dec!Feed(r, b) = Feed(r, b)
    /\ \A r, b : Dec!Ends(r, b) <=> Ends(r, b)
    /\ \A r, b : Dec!Overflows(r, b) <=> Overflows(r, b)
    /\ \A r, b : Dec!TooBig(r, b) <=> TooBig(r, b)
    /\ \A t, u : Dec!Convert(t, u) = Convert(t, u)
    /\ \A t : Dec!GetWireType(t) = GetWireType(t)
    /\ Dec!kVarint = kVarint /\ Dec!kI64 = kI64 /\ Dec!kI32 = kI32
    /\ Dec!kLen = kLen
  <1>1. Dec!NewVarint = NewVarint /\ \A n : Dec!NewFixed(n) = NewFixed(n)
    BY Zenon DEF Dec!NewVarint, NewVarint, Dec!NewFixed, NewFixed
  <1>2. \A r, b : Dec!Feed(r, b) = Feed(r, b)
    BY Zenon DEF Dec!Feed, Feed, Dec!FeedVarint, FeedVarint, Dec!FeedFixed,
                 FeedFixed, Dec!Payload, Payload
  <1>3. \A r, b : Dec!Ends(r, b) <=> Ends(r, b)
    BY Zenon DEF Dec!Ends, Ends, Dec!Continues, Continues
  <1>4. \A r, b : Dec!Overflows(r, b) <=> Overflows(r, b)
    BY Zenon DEF Dec!Overflows, Overflows, Dec!Continues, Continues
  <1>5. \A r, b : Dec!TooBig(r, b) <=> TooBig(r, b)
    BY <1>2, <1>3, Zenon DEF Dec!TooBig, TooBig
  <1>6. \A t, u : Dec!Convert(t, u) = Convert(t, u)
    BY Zenon DEF Dec!Convert, Convert, Dec!ToSigned, ToSigned, Dec!DecodeZigZag,
                 DecodeZigZag
  <1>7. \A t : Dec!GetWireType(t) = GetWireType(t)
    BY Zenon DEF Dec!GetWireType, GetWireType, Dec!I32Types, I32Types,
                 Dec!I64Types, I64Types, Dec!LenTypes, LenTypes, Dec!kI32, kI32,
                 Dec!kI64, kI64, Dec!kLen, kLen, Dec!kVarint, kVarint
  <1>8. Dec!kVarint = kVarint /\ Dec!kI64 = kI64 /\ Dec!kI32 = kI32
        /\ Dec!kLen = kLen
    BY DEF Dec!kVarint, kVarint, Dec!kI64, kI64, Dec!kI32, kI32, Dec!kLen, kLen
  <1>. QED
    BY <1>1, <1>2, <1>3, <1>4, <1>5, <1>6, <1>7, <1>8

LEMMA ReaderFields ==
    ASSUME NEW t \in DOMAIN ReaderSchema, NEW g \in Dec!Fields(t)
    PROVE  /\ g.num \in Nat /\ g.num \in Dec!Numbers(t)
           /\ g.type \in FieldTypes
           /\ g.repeated \in BOOLEAN
           /\ g.sub \in DOMAIN ReaderSchema
           /\ Dec!Known(t, g.num)
  <1>1. PICK i \in DOMAIN ReaderSchema[t] : g = ReaderSchema[t][i]
    BY DEF Dec!Fields
  <1> DEFINE D == [num : Nat, type : FieldTypes, repeated : BOOLEAN,
                   packed : BOOLEAN, sub : DOMAIN ReaderSchema]
  <1>2. ReaderSchema[t] \in Seq(D)
    BY CodecAssumption
  <1> HIDE DEF D
  <1>4. i \in 1 .. Len(ReaderSchema[t])
    BY <1>2, LenProperties
  <1>5. g \in D
    BY <1>1, <1>2, <1>4, ElementOfSeq
  <1>3. g \in [num : Nat, type : FieldTypes, repeated : BOOLEAN,
               packed : BOOLEAN, sub : DOMAIN ReaderSchema]
    BY <1>5 DEF D
  <1>. QED
    BY <1>1, <1>3 DEF Dec!Numbers, Dec!Known

LEMMA DistinctFields ==
    ASSUME NEW t \in DOMAIN ReaderSchema, NEW f \in Dec!Fields(t),
           NEW g \in Dec!Fields(t), f.num = g.num
    PROVE  f = g
  <1>1. PICK i \in DOMAIN ReaderSchema[t] : f = ReaderSchema[t][i]
    BY DEF Dec!Fields
  <1>2. PICK j \in DOMAIN ReaderSchema[t] : g = ReaderSchema[t][j]
    BY DEF Dec!Fields
  <1>3. i = j
    BY <1>1, <1>2, CodecAssumption
  <1>. QED
    BY <1>1, <1>2, <1>3

LEMMA FieldIsFound ==
    ASSUME NEW t \in DOMAIN ReaderSchema, NEW num \in Nat, Dec!Known(t, num)
    PROVE  /\ Dec!FindFieldByNumber(t, num) \in Dec!Fields(t)
           /\ Dec!FindFieldByNumber(t, num).num = num
  <1> DEFINE IsFirst(i) == /\ ReaderSchema[t][i].num = num
                         /\ \A j \in 1 .. (i - 1) : ReaderSchema[t][j].num # num
  <1>1. PICK i \in DOMAIN ReaderSchema[t] : ReaderSchema[t][i].num = num
    BY DEF Dec!Known
  <1>2. DOMAIN ReaderSchema[t] = 1 .. Len(ReaderSchema[t])
        /\ Len(ReaderSchema[t]) \in Nat
    BY CodecAssumption, LenProperties
  <1>3. \A j \in 1 .. (i - 1) : ReaderSchema[t][j].num # num
    <2>1. ASSUME NEW j \in 1 .. (i - 1), ReaderSchema[t][j].num = num
          PROVE  FALSE
      <3>1. j \in DOMAIN ReaderSchema[t] /\ j # i
        BY <1>2
      <3>. QED
        BY <1>1, <2>1, <3>1, CodecAssumption
    <2>. QED
      BY <2>1
  <1> DEFINE k == CHOOSE k \in DOMAIN ReaderSchema[t] : IsFirst(k)
  <1>4. k \in DOMAIN ReaderSchema[t] /\ IsFirst(k)
    BY <1>1, <1>3
  <1>5. Dec!FindFieldByNumber(t, num) = ReaderSchema[t][k]
    BY DEF Dec!FindFieldByNumber
  <1>. QED
    BY <1>4, <1>5 DEF Dec!Fields

LEMMA NewMessageIs ==
    ASSUME NEW t \in DOMAIN ReaderSchema
    PROVE  /\ DOMAIN Dec!NewMessage(t) = {"type", "val"}
           /\ Dec!NewMessage(t).type = t
           /\ DOMAIN Dec!NewMessage(t).val = Dec!Numbers(t)
           /\ \A g \in Dec!Fields(t) :
                Dec!NewMessage(t).val[g.num] = Dec!DefaultValue(g)
  <1>1. /\ DOMAIN Dec!NewMessage(t) = {"type", "val"}
        /\ Dec!NewMessage(t).type = t
        /\ DOMAIN Dec!NewMessage(t).val = Dec!Numbers(t)
        /\ \A n \in Dec!Numbers(t) : Dec!NewMessage(t).val[n] =
                Dec!DefaultValue(Dec!FindFieldByNumber(t, n))
    BY DEF Dec!NewMessage
  <1>2. ASSUME NEW g \in Dec!Fields(t)
        PROVE  Dec!NewMessage(t).val[g.num] = Dec!DefaultValue(g)
    <2>1. g.num \in Nat /\ g.num \in Dec!Numbers(t) /\ Dec!Known(t, g.num)
      BY ReaderFields
    <2>2. Dec!FindFieldByNumber(t, g.num) = g
      BY <2>1, FieldIsFound, DistinctFields
    <2>. QED
      BY <1>1, <2>1, <2>2
  <1>. QED
    BY <1>1, <1>2

-----------------------------------------------------------------------------
(* Sequences of whatever they hold. *)

IsSeq(s) == Enc!IsSeq(s)

LEMMA IsSeqIn ==
    ASSUME NEW S, NEW s \in Seq(S)
    PROVE  IsSeq(s)
  <1>1. \A i \in 1 .. Len(s) : s[i] \in {s[j] : j \in DOMAIN s}
    BY LenProperties
  <1>. QED
    BY <1>1, LenProperties, SeqDef DEF IsSeq, Enc!IsSeq

LEMMA IsSeqFunction ==
    ASSUME NEW s, NEW n \in Nat, NEW S, s \in [1 .. n -> S]
    PROVE  IsSeq(s) /\ Len(s) = n /\ DOMAIN s = 1 .. n
  <1>1. s \in Seq(S) /\ Len(s) = n /\ DOMAIN s = 1 .. n
    BY FunctionIsSeq
  <1>. QED
    BY <1>1, IsSeqIn

LEMMA IsSeqLen ==
    ASSUME NEW s, IsSeq(s)
    PROVE  Len(s) \in Nat /\ DOMAIN s = 1 .. Len(s)
  BY SeqDomain DEF IsSeq

LEMMA IsSeqAppend ==
    ASSUME NEW s, IsSeq(s), NEW v
    PROVE  /\ IsSeq(Append(s, v))
           /\ Len(Append(s, v)) = Len(s) + 1
           /\ DOMAIN Append(s, v) = 1 .. Len(s) + 1
           /\ \A i \in 1 .. Len(s) : Append(s, v)[i] = s[i]
           /\ Append(s, v)[Len(s) + 1] = v
  <1> DEFINE S == {s[i] : i \in DOMAIN s} \cup {v}
  <1>1. s \in Seq(S)
    <2>1. s \in Seq({s[i] : i \in DOMAIN s})
      BY DEF IsSeq, Enc!IsSeq
    <2>. QED
      BY <2>1, SeqMonotonic
  <1>2. v \in S
    OBVIOUS
  <1> HIDE DEF S
  <1>3. /\ Append(s, v) \in Seq(S)
        /\ Len(Append(s, v)) = Len(s) + 1
        /\ \A i \in 1 .. Len(s) : Append(s, v)[i] = s[i]
        /\ Append(s, v)[Len(s) + 1] = v
    BY <1>1, <1>2, AppendProperties
  <1>4. IsSeq(Append(s, v))
    BY <1>3, IsSeqIn
  <1>5. DOMAIN Append(s, v) = 1 .. Len(s) + 1
    BY <1>3, <1>4, IsSeqLen
  <1>. QED
    BY <1>3, <1>4, <1>5

LEMMA IsSeqFront ==
    ASSUME NEW s, IsSeq(s), Len(s) # 0
    PROVE  LET t == SubSeq(s, 1, Len(s) - 1)
           IN  /\ IsSeq(t)
               /\ Len(t) = Len(s) - 1
               /\ DOMAIN t = 1 .. Len(s) - 1
               /\ \A i \in 1 .. Len(s) - 1 : t[i] = s[i]
  <1> DEFINE S == {s[i] : i \in DOMAIN s}
             t == SubSeq(s, 1, Len(s) - 1)
  <1>1. Len(s) \in Nat /\ DOMAIN s = 1 .. Len(s)
    BY IsSeqLen
  <1>2. \A i \in 1 .. Len(s) - 1 : s[i] \in S
    BY <1>1
  <1> HIDE DEF S
  <1>3. /\ t \in Seq(S)
        /\ Len(t) = IF 1 <= Len(s) - 1 THEN Len(s) - 1 - 1 + 1 ELSE 0
        /\ \A i \in 1 .. Len(s) - 1 - 1 + 1 : t[i] = s[1 + i - 1]
    <2> DEFINE n == Len(s) - 1
    <2>1. 1 \in Int /\ n \in Int /\ \A i \in 1 .. n : s[i] \in S
      BY <1>1, <1>2
    <2> HIDE DEF n
    <2>2. /\ SubSeq(s, 1, n) \in Seq(S)
          /\ Len(SubSeq(s, 1, n)) = IF 1 <= n THEN n - 1 + 1 ELSE 0
          /\ \A i \in 1 .. n - 1 + 1 : SubSeq(s, 1, n)[i] = s[1 + i - 1]
      BY <2>1, SubSeqProperties
    <2>. QED
      BY <2>2 DEF n
  <1> HIDE DEF t
  <1>4. Len(t) = Len(s) - 1 /\ \A i \in 1 .. Len(s) - 1 : t[i] = s[i]
    <2> DEFINE n == Len(s) - 1
    <2>1. n \in Nat /\ n - 1 + 1 = n /\ \A i \in 1 .. n : 1 + i - 1 = i
      BY <1>1
    <2>2. /\ Len(t) = IF 1 <= n THEN n - 1 + 1 ELSE 0
          /\ \A i \in 1 .. n - 1 + 1 : t[i] = s[1 + i - 1]
      BY <1>3
    <2> HIDE DEF n
    <2>3. Len(t) = n
      BY <2>1, <2>2
    <2>4. \A i \in 1 .. n : t[i] = s[i]
      BY <2>1, <2>2, Zenon
    <2>. QED
      BY <2>3, <2>4 DEF n
  <1>5. IsSeq(t)
    BY <1>3, IsSeqIn
  <1>6. DOMAIN t = 1 .. Len(s) - 1
    BY <1>4, <1>5, IsSeqLen
  <1>. QED
    BY <1>4, <1>5, <1>6 DEF t

-----------------------------------------------------------------------------
(* One field of one message object changes. *)

Changed(hp, hq, n, num) ==
    /\ IsSeq(hq) /\ DOMAIN hq = DOMAIN hp /\ Len(hq) = Len(hp)
    /\ \A j \in DOMAIN hp : j # n => hq[j] = hp[j]
    /\ DOMAIN hq[n] = {"type", "val"}
    /\ hq[n].type = hp[n].type
    /\ DOMAIN hq[n].val = DOMAIN hp[n].val
    /\ \A k \in DOMAIN hp[n].val : k # num => hq[n].val[k] = hp[n].val[k]

LEMMA AssignChanges ==
    ASSUME NEW hp, IsSeq(hp), NEW n \in DOMAIN hp,
           DOMAIN hp[n] = {"type", "val"},
           NEW num \in DOMAIN hp[n].val, NEW v
    PROVE  /\ Changed(hp, Dec!Assign(hp, n, num, v), n, num)
           /\ Dec!Assign(hp, n, num, v)[n].val[num] = v
  <1> DEFINE hq == Dec!Assign(hp, n, num, v)
  <1>1. hq = [hp EXCEPT ![n].val[num] = v]
    BY DEF Dec!Assign
  <1>2. Len(hp) \in Nat /\ DOMAIN hp = 1 .. Len(hp)
    BY IsSeqLen
  <1>3. /\ DOMAIN hq = DOMAIN hp
        /\ \A j \in DOMAIN hp : j # n => hq[j] = hp[j]
        /\ DOMAIN hq[n] = {"type", "val"}
        /\ hq[n].type = hp[n].type
        /\ DOMAIN hq[n].val = DOMAIN hp[n].val
        /\ \A k \in DOMAIN hp[n].val : k # num => hq[n].val[k] = hp[n].val[k]
        /\ hq[n].val[num] = v
    BY <1>1
  <1>4. hq \in [1 .. Len(hp) -> {hq[i] : i \in DOMAIN hp}]
    BY <1>1, <1>2
  <1> HIDE DEF hq
  <1>5. IsSeq(hq) /\ Len(hq) = Len(hp)
    BY <1>2, <1>4, IsSeqFunction
  <1>. QED
    BY <1>3, <1>5 DEF Changed, hq

-----------------------------------------------------------------------------
(* What the reader's message objects hp hold of the writer's h: who[n] is  *)
(* the message that the object n is made of, and got[n] how many elements  *)
(* of each of its fields have been read.                                   *)

Objects(h, hp, who, got) ==
    /\ IsSeq(hp) /\ hp # <<>>
    /\ DOMAIN who = DOMAIN hp /\ DOMAIN got = DOMAIN hp
    /\ \A n \in DOMAIN hp :
        /\ who[n] \in DOMAIN h
        /\ got[n] \in Counts(h, who[n])
        /\ hp[n].type = h[who[n]].type
        /\ hp[n].type \in DOMAIN ReaderSchema
        /\ DOMAIN hp[n] = {"type", "val"}
        /\ DOMAIN hp[n].val = Dec!Numbers(hp[n].type)
    /\ who[1] = 1

\* The element y of the reader's field g is the element e of the writer's.
Matches(g, hp, who, e, y) ==
    IF g.type = "message" THEN y \in DOMAIN hp /\ who[y] = e ELSE y = e

\* The first k of the elements es are what the field g holds.
Shows(g, es, k, hp, who, w) ==
    IF g.repeated
    THEN /\ IsSeq(w) /\ Len(w) = k
         /\ \A j \in 1 .. k : Matches(g, hp, who, es[j], w[j])
    ELSE IF k = 0 THEN w = Dec!DefaultValue(g)
         ELSE Matches(g, hp, who, es[1], w)

FieldOK(h, hp, who, got, n, g) ==
    LET m == who[n]
        w == hp[n].val[g.num]
    IN  /\ (\A i \in FieldsOf(h, m) : FieldOf(h, m, i).num # g.num) =>
            w = Dec!DefaultValue(g)
        /\ \A i \in FieldsOf(h, m) :
            FieldOf(h, m, i).num = g.num =>
                Shows(g, Elems(h, m, i), got[n][i], hp, who, w)

\* All fields but the one that a string is being read into.
FieldsOK(h, hp, who, got, but) ==
    \A n \in DOMAIN hp : \A g \in Dec!Fields(hp[n].type) :
        <<n, g.num>> # but => FieldOK(h, hp, who, got, n, g)

Nowhere == <<0, 0>>

-----------------------------------------------------------------------------
(* The activations of DecodeMessage.                                       *)

OnStack(st, n) == \E a \in DOMAIN st : st[a].msg = n

\* Where the message of the activation a ends.
EndAt(st, len, a) == IF a = 1 THEN len ELSE st[a].start + st[a].size

\* The bytes that have not been read of the message of the object n.
Left(h, who, got, n) == Rest(h, who[n], got[n])

Activations(h, hp, st, who, got, c) ==
    LET B == Body(h, 1)
        end(a) == EndAt(st, Len(B), a)
    IN  /\ IsSeq(st) /\ st # <<>>
        /\ st[1].msg = 1 /\ st[1].start = 0 /\ st[1].size = SIZE_MAX
        /\ c \in Nat /\ c <= end(Len(st))
        /\ \A a \in DOMAIN st :
            /\ st[a].msg \in DOMAIN hp
            /\ st[a].start \in Nat /\ st[a].size \in Nat
            /\ st[a].start <= c
            /\ end(a) <= Len(B)
        /\ \A a, b \in DOMAIN st :
            /\ st[a].msg = st[b].msg => a = b
            /\ a <= b => end(b) <= end(a)
        /\ \A a \in 1 .. (Len(st) - 1) :
            Window(B, end(a + 1), end(a)) = Left(h, who, got, st[a].msg)

\* The objects of the activations that have returned are complete.
Finished(h, hp, st, who, got) ==
    \A n \in DOMAIN hp : OnStack(st, n) \/ IsDone(h, who[n], got[n])

-----------------------------------------------------------------------------
(* The element being read: the k-th of the field i of the message m.       *)

Numbered(h, m, i, k, w) ==
    LET type == FieldOf(h, m, i).type
        v == Elems(h, m, i)[k]
    IN  /\ w \in 0 .. (U64 - 1)
        /\ Pay(h, m, i, k) \in Seq(Byte)
        /\ type \in LenTypes => w = Len(Pay(h, m, i, k)) /\ w < U32
        /\ type \notin LenTypes =>
            /\ Pay(h, m, i, k) = <<>>
            /\ v \in CppValues(type) => Convert(type, w) = v

\* Its number is being read: win are the bytes to come of m.
AtNumber(h, m, d, i, win, call) ==
    /\ i \in FieldsOf(h, m) /\ d[i] + 1 <= Len(Elems(h, m, i))
    /\ call \in ReadCalls
    /\ \E r, w :
        /\ Numbered(h, m, i, d[i] + 1, w)
        /\ Reading(call, r, w)
        /\ win = r \o (Pay(h, m, i, d[i] + 1) \o Rest(h, m, Further(d, i)))

\* What is left of its payload is q.
AtPayload(h, m, d, i, win, call, q) ==
    /\ i \in FieldsOf(h, m) /\ d[i] + 1 <= Len(Elems(h, m, i))
    /\ q \in Seq(Byte) /\ q # <<>>
    /\ call = NewFixed(Len(q))
    /\ win = q \o Rest(h, m, Further(d, i))

\* The reader's field g is the one that is being read.
IsField(h, hp, n, m, i, g) ==
    g \in Dec!Fields(hp[n].type) /\ g.num = FieldOf(h, m, i).num

IsUnknown(h, hp, n, m, i) == ~ Dec!Known(hp[n].type, FieldOf(h, m, i).num)

\* The k-th string of the field is w, but for the bytes q.
Begun(g, es, k, w, q) ==
    IF g.repeated
    THEN /\ IsSeq(w) /\ Len(w) = k
         /\ \A j \in 1 .. (k - 1) : w[j] = es[j]
         /\ w[k] \in Seq(Byte) /\ w[k] \o q = es[k]
    ELSE k = 1 /\ w \in Seq(Byte) /\ w \o q = es[1]

Cursor(h, hp, n, m, d, win, deep, lbl, call, fd) ==
    CASE lbl = "loop" -> win = Rest(h, m, d)
      [] lbl = "tag" -> /\ win = Rest(h, m, d)
                        /\ call = NewVarint
                        /\ deep => win # <<>>
      [] lbl \in {"skip", "skiplen"} ->
            \E i \in FieldsOf(h, m) :
                /\ AtNumber(h, m, d, i, win, call)
                /\ IsUnknown(h, hp, n, m, i)
                /\ lbl = "skiplen" <=> FieldOf(h, m, i).type \in LenTypes
      [] lbl = "skipbytes" ->
            \E i \in FieldsOf(h, m) : \E q :
                /\ AtPayload(h, m, d, i, win, call, q)
                /\ IsUnknown(h, hp, n, m, i)
      [] lbl \in {"value", "len"} ->
            \E i \in FieldsOf(h, m) :
                /\ AtNumber(h, m, d, i, win, call)
                /\ IsField(h, hp, n, m, i, fd)
                /\ lbl = "len" <=> fd.type \in LenTypes
      [] lbl = "string" ->
            \E i \in FieldsOf(h, m) : \E q :
                /\ AtPayload(h, m, d, i, win, call, q)
                /\ IsField(h, hp, n, m, i, fd)
                /\ fd.type = "string"
                /\ Begun(fd, Elems(h, m, i), d[i] + 1, hp[n].val[fd.num], q)
      [] OTHER -> FALSE

-----------------------------------------------------------------------------
Running(h, hp, st, c, lbl, call, fd, who, got) ==
    LET n == st[Len(st)].msg
        end == EndAt(st, Len(Body(h, 1)), Len(st))
    IN  /\ Activations(h, hp, st, who, got, c)
        /\ FieldsOK(h, hp, who, got,
                    IF lbl = "string" THEN <<n, fd.num>> ELSE Nowhere)
        /\ Cursor(h, hp, n, who[n], got[n], Window(Body(h, 1), c, end),
                  Len(st) # 1, lbl, call, fd)

Returned(h, hp, st, lbl, res, who, got) ==
    /\ lbl = "done" /\ st = <<>> /\ res = "true"
    /\ FieldsOK(h, hp, who, got, Nowhere)

Follows(h, hp, st, c, lbl, call, fd, res, who, got) ==
    /\ Objects(h, hp, who, got)
    /\ Finished(h, hp, st, who, got)
    /\ \/ lbl # "done" /\ Running(h, hp, st, c, lbl, call, fd, who, got)
       \/ Returned(h, hp, st, lbl, res, who, got)

Mirror(h, hp, st, c, lbl, call, fd, res) ==
    \E who, got : Follows(h, hp, st, c, lbl, call, fd, res, who, got)

Mirrors ==
    /\ Encoding
    /\ ret \in {"running", "true"}
    /\ refused = 0 => Mirror(src, heap, stack, consumed, pc, rd, field, result)

LEMMA ReadableFields ==
    ASSUME NEW h, Readable(h), NEW m \in DOMAIN h, NEW i \in FieldsOf(h, m)
    PROVE  /\ 8 * FieldOf(h, m, i).num + 7 < U32
           /\ \A j \in FieldsOf(h, m) :
                FieldOf(h, m, j).num = FieldOf(h, m, i).num => j = i
  BY DEF Readable, FieldsOf, FieldOf

LEMMA ReadableFits ==
    ASSUME NEW h, Readable(h), NEW m \in DOMAIN h, NEW i \in FieldsOf(h, m),
           h[m].type \in DOMAIN ReaderSchema,
           NEW g \in Dec!Fields(h[m].type), g.num = FieldOf(h, m, i).num
    PROVE  Fits(h, FieldOf(h, m, i), Elems(h, m, i), g)
  <1> DEFINE e == Enc!Encoded(FieldOf(h, m, i), h[m].val[g.num])
  <1>1. Fits(h, FieldOf(h, m, i), e, g)
    BY Zenon DEF Readable, FieldsOf, FieldOf
  <1>2. e = Elems(h, m, i)
    BY DEF Elems
  <1>. QED
    BY <1>1, <1>2

\* The next element of a message, after its tag.
NextElement(h, m, d, i, z) ==
    LET f == FieldOf(h, m, i)
    IN  /\ i \in FieldsOf(h, m) /\ d[i] + 1 <= Len(Elems(h, m, i))
        /\ TagOf(f) \in Byte /\ TagOf(f) < Base /\ TagOf(f) < U32
        /\ TagOf(f) \div 8 = f.num /\ TagOf(f) % 8 = GetWireType(f.type)
        /\ f.num \in Nat /\ f.type \in FieldTypes /\ f.type # "bytes"
        /\ z \in Seq(Byte)
        /\ Rest(h, m, d) = <<TagOf(f)>> \o z
        /\ AtNumber(h, m, d, i, z, StartOf(f.type))

LEMMA CountOf ==
    ASSUME NEW h, Enc!SizableMessages(h), NEW m \in DOMAIN h,
           NEW d \in Counts(h, m), NEW i \in FieldsOf(h, m)
    PROVE  /\ d[i] \in Nat /\ d[i] <= Len(Elems(h, m, i))
           /\ Len(Elems(h, m, i)) \in Nat
           /\ d[i] + 1 <= Len(Elems(h, m, i)) => d[i] + 1 \in DOMAIN Elems(h, m, i)
  <1>1. Len(Elems(h, m, i)) \in Nat
        /\ DOMAIN Elems(h, m, i) = 1 .. Len(Elems(h, m, i))
    BY ElemsAreSeq
  <1>2. d[i] \in Nat /\ d[i] <= Len(Elems(h, m, i))
    BY DEF Counts
  <1>. QED
    BY <1>1, <1>2

LEMMA SizableType ==
    ASSUME NEW h, NEW m, NEW f, NEW v, Enc!Sizable(h, m, f, v)
    PROVE  f.num \in Nat /\ f.type \in FieldTypes /\ f.type # "bytes"
  BY DEF Enc!Sizable, Enc!I32Types, Enc!I64Types, Enc!VarintTypes, FieldTypes,
         VarintTypes, I32Types, I64Types, LenTypes

LEMMA NextElementComes ==
    ASSUME NEW h, Enc!SizableMessages(h), Readable(h), NEW m \in DOMAIN h,
           NEW d \in Counts(h, m), ~ IsDone(h, m, d)
    PROVE  \E i, z : NextElement(h, m, d, i, z)
  <1>1. PICK i \in FieldsOf(h, m) :
            /\ d[i] + 1 <= Len(Elems(h, m, i))
            /\ Rest(h, m, d) =
                ElemBytes(h, m, i, d[i] + 1) \o Rest(h, m, Further(d, i))
    BY RestGoesOn
  <1> DEFINE k == d[i] + 1
             f == FieldOf(h, m, i)
             R == Rest(h, m, Further(d, i))
             P == Pay(h, m, i, k)
  <1>2. k \in DOMAIN Elems(h, m, i)
    BY <1>1, CountOf
  <1>3. 8 * f.num + 7 < U32
    BY ReadableFields
  <1>4. PICK r, w : Laid(h, m, i, k, r, w)
    BY <1>2, <1>3, ElemLaid
  <1>5. Enc!Sizable(h, m, f, Elems(h, m, i)[k])
    BY <1>2, ElemsAreSizable, Zenon DEF FieldsOf
  <1>6. /\ TagOf(f) \in Byte /\ TagOf(f) < Base
        /\ TagOf(f) \div 8 = f.num
        /\ TagOf(f) % 8 = GetWireType(f.type)
    BY <1>3, <1>5, TagIs
  <1>7. f.num \in Nat /\ f.type \in FieldTypes /\ f.type # "bytes"
    BY <1>5, SizableType
  <1>8. TagOf(f) < U32
    <2>1. GetWireType(f.type) \in 0 .. 5 /\ U32 \in Nat
      BY WireTypes, WireAssumption
    <2>2. \A g \in 0 .. 5 : 8 * f.num + g < U32
      BY <1>3, <1>7, <2>1
    <2>. QED
      BY <2>1, <2>2, Zenon DEF TagOf
  <1>9. R \in Seq(Byte)
    BY FieldsToComeTyped
  <1>10. /\ r \in Seq(Byte) /\ P \in Seq(Byte) /\ Reading(StartOf(f.type), r, w)
         /\ StartOf(f.type) \in ReadCalls
         /\ ElemBytes(h, m, i, k) = <<TagOf(f)>> \o (r \o P)
    BY <1>4, Zenon DEF Laid
  <1>11. Numbered(h, m, i, k, w)
    BY <1>4, Zenon DEF Laid, Numbered
  <1> DEFINE z == r \o (P \o R)
  <1>12. Rest(h, m, d) = ElemBytes(h, m, i, k) \o R
    BY <1>1
  <1>13. z \in Seq(Byte) /\ ElemBytes(h, m, i, k) \o R = <<TagOf(f)>> \o z
    <2> DEFINE t == <<TagOf(f)>>
    <2>1. t \in Seq(Byte)
      BY <1>6
    <2> HIDE DEF t, R, P
    <2>2. P \o R \in Seq(Byte) /\ r \o P \in Seq(Byte)
      BY <1>9, <1>10, ConcatProperties
    <2>3. z \in Seq(Byte)
      BY <1>10, <2>2, ConcatProperties
    <2>4. Associative(Byte)
      BY ConcatIsAssociative
    <2>5. (t \o (r \o P)) \o R = t \o ((r \o P) \o R)
      BY <1>9, <2>1, <2>2, <2>4, Zenon DEF Associative
    <2>6. (r \o P) \o R = z
      BY <1>9, <1>10, <2>4, Zenon DEF Associative
    <2>7. ElemBytes(h, m, i, k) = t \o (r \o P)
      BY <1>10 DEF t
    <2>. QED
      BY <2>3, <2>5, <2>6, <2>7, Zenon DEF t
  <1>14. Rest(h, m, d) = <<TagOf(f)>> \o z
    BY <1>12, <1>13
  <1>15. AtNumber(h, m, d, i, z, StartOf(f.type))
    <2>1. /\ Numbered(h, m, i, d[i] + 1, w)
          /\ Reading(StartOf(f.type), r, w)
          /\ z = r \o (Pay(h, m, i, d[i] + 1) \o Rest(h, m, Further(d, i)))
      BY <1>10, <1>11
    <2>2. i \in FieldsOf(h, m) /\ d[i] + 1 <= Len(Elems(h, m, i))
      BY <1>1
    <2> HIDE DEF z, f
    <2>. QED
      BY <1>10, <2>1, <2>2, Zenon DEF AtNumber
  <1> HIDE DEF k, f, R, P, z
  <1>16. NextElement(h, m, d, i, z)
    BY <1>1, <1>6, <1>7, <1>8, <1>13, <1>14, <1>15, Zenon DEF NextElement, f
  <1>. QED
    BY <1>16

LEMMA RestEmpty ==
    ASSUME NEW h, Enc!SizableMessages(h), Readable(h), NEW m \in DOMAIN h,
           NEW d \in Counts(h, m)
    PROVE  Rest(h, m, d) = <<>> <=> IsDone(h, m, d)
  <1>1. CASE IsDone(h, m, d)
    BY <1>1, NoRest
  <1>2. CASE ~ IsDone(h, m, d)
    <2>1. PICK i, z : NextElement(h, m, d, i, z)
      BY <1>2, NextElementComes
    <2> DEFINE t == <<TagOf(FieldOf(h, m, i))>>
    <2>2. t \in Seq(Byte) /\ t # <<>> /\ z \in Seq(Byte)
      BY <2>1 DEF NextElement
    <2>3. Rest(h, m, d) = t \o z
      BY <2>1, Zenon DEF NextElement
    <2> HIDE DEF t
    <2>4. t \o z # <<>>
      BY <2>2, ConcatEmpty
    <2>. QED
      BY <1>2, <2>3, <2>4
  <1>. QED
    BY <1>1, <1>2

-----------------------------------------------------------------------------
(* The message objects, when one field changes or an element more is read. *)

Advance(got, n, i) == [got EXCEPT ![n] = Further(got[n], i)]

LEMMA ObjectsAre ==
    ASSUME NEW h, NEW hp, NEW who, NEW got, Objects(h, hp, who, got),
           NEW n \in DOMAIN hp
    PROVE  /\ who[n] \in DOMAIN h
           /\ got[n] \in Counts(h, who[n])
           /\ hp[n].type = h[who[n]].type
           /\ hp[n].type \in DOMAIN ReaderSchema
           /\ DOMAIN hp[n] = {"type", "val"}
           /\ DOMAIN hp[n].val = Dec!Numbers(hp[n].type)
           /\ n \in Nat \ {0} /\ n \in 1 .. Len(hp) /\ Len(hp) \in Nat
           /\ IsSeq(hp) /\ DOMAIN hp = 1 .. Len(hp)
  <1>1. IsSeq(hp)
    BY DEF Objects
  <1>2. Len(hp) \in Nat /\ DOMAIN hp = 1 .. Len(hp)
    BY <1>1, IsSeqLen
  <1>3. n \in Nat \ {0} /\ n \in 1 .. Len(hp)
    BY <1>2
  <1>. QED
    BY <1>1, <1>2, <1>3 DEF Objects

LEMMA ChangedNot ==
    ASSUME NEW h, NEW hp, NEW who, NEW got, Objects(h, hp, who, got),
           NEW n \in DOMAIN hp, NEW num
    PROVE  Changed(hp, hp, n, num)
  BY ObjectsAre DEF Changed

LEMMA AdvanceIs ==
    ASSUME NEW h, NEW hp, NEW who, NEW got, Objects(h, hp, who, got),
           NEW n \in DOMAIN hp, NEW i \in FieldsOf(h, who[n]),
           got[n][i] + 1 <= Len(Elems(h, who[n], i))
    PROVE  /\ DOMAIN Advance(got, n, i) = DOMAIN got
           /\ Advance(got, n, i)[n] = Further(got[n], i)
           /\ \A j \in DOMAIN got : j # n => Advance(got, n, i)[j] = got[j]
           /\ Advance(got, n, i)[n] \in Counts(h, who[n])
           /\ Advance(got, n, i)[n][i] = got[n][i] + 1
           /\ \A j \in FieldsOf(h, who[n]) :
                j # i => Advance(got, n, i)[n][j] = got[n][j]
  <1>1. DOMAIN got = DOMAIN hp
    BY DEF Objects
  <1>2. /\ DOMAIN Advance(got, n, i) = DOMAIN got
        /\ Advance(got, n, i)[n] = Further(got[n], i)
        /\ \A j \in DOMAIN got : j # n => Advance(got, n, i)[j] = got[j]
    BY <1>1 DEF Advance
  <1>3. got[n] \in Counts(h, who[n])
    BY ObjectsAre
  <1>4. /\ Further(got[n], i) \in Counts(h, who[n])
        /\ Further(got[n], i)[i] = got[n][i] + 1
        /\ \A j \in FieldsOf(h, who[n]) : j # i => Further(got[n], i)[j] = got[n][j]
    BY <1>3, FurtherCounts
  <1>. QED
    BY <1>2, <1>4

\* The objects remain objects.
LEMMA ChangedObjects ==
    ASSUME NEW h, NEW hp, NEW who, NEW got, Objects(h, hp, who, got),
           NEW n \in DOMAIN hp, NEW hq, NEW num, Changed(hp, hq, n, num)
    PROVE  Objects(h, hq, who, got)
  <1>1. IsSeq(hq) /\ DOMAIN hq = DOMAIN hp /\ Len(hq) = Len(hp)
    BY DEF Changed
  <1>2. hq # <<>>
    <2>1. Len(hp) # 0 /\ 1 \in DOMAIN hq
      BY <1>1, ObjectsAre
    <2>. QED
      BY <2>1, EmptySeq
  <1>3. DOMAIN who = DOMAIN hq /\ DOMAIN got = DOMAIN hq /\ who[1] = 1
    BY <1>1 DEF Objects
  <1>4. ASSUME NEW j \in DOMAIN hq
        PROVE  /\ who[j] \in DOMAIN h
               /\ got[j] \in Counts(h, who[j])
               /\ hq[j].type = h[who[j]].type
               /\ hq[j].type \in DOMAIN ReaderSchema
               /\ DOMAIN hq[j] = {"type", "val"}
               /\ DOMAIN hq[j].val = Dec!Numbers(hq[j].type)
    <2>1. j \in DOMAIN hp
      BY <1>1
    <2>2. /\ who[j] \in DOMAIN h
          /\ got[j] \in Counts(h, who[j])
          /\ hp[j].type = h[who[j]].type
          /\ hp[j].type \in DOMAIN ReaderSchema
          /\ DOMAIN hp[j] = {"type", "val"}
          /\ DOMAIN hp[j].val = Dec!Numbers(hp[j].type)
      BY <2>1, ObjectsAre
    <2>3. hq[j].type = hp[j].type /\ DOMAIN hq[j] = {"type", "val"}
          /\ DOMAIN hq[j].val = DOMAIN hp[j].val
      <3>1. CASE j = n
        BY <3>1 DEF Changed
      <3>2. CASE j # n
        <4>1. hq[j] = hp[j]
          BY <2>1, <3>2 DEF Changed
        <4>. QED
          BY <2>2, <4>1
      <3>. QED
        BY <3>1, <3>2
    <2>. QED
      BY <2>2, <2>3
  <1>. QED
    BY <1>1, <1>2, <1>3, <1>4, Zenon DEF Objects

LEMMA AdvanceObjects ==
    ASSUME NEW h, NEW hp, NEW who, NEW got, Objects(h, hp, who, got),
           NEW n \in DOMAIN hp, NEW i \in FieldsOf(h, who[n]),
           got[n][i] + 1 <= Len(Elems(h, who[n], i))
    PROVE  Objects(h, hp, who, Advance(got, n, i))
  <1> DEFINE go == Advance(got, n, i)
  <1>1. /\ DOMAIN go = DOMAIN got
        /\ \A j \in DOMAIN got : j # n => go[j] = got[j]
        /\ go[n] \in Counts(h, who[n])
    BY AdvanceIs
  <1>2. /\ IsSeq(hp) /\ hp # <<>> /\ DOMAIN who = DOMAIN hp
        /\ DOMAIN got = DOMAIN hp /\ who[1] = 1
    BY DEF Objects
  <1> HIDE DEF go
  <1>3. ASSUME NEW j \in DOMAIN hp
        PROVE  go[j] \in Counts(h, who[j])
    <2>1. got[j] \in Counts(h, who[j])
      BY ObjectsAre
    <2>. QED
      BY <1>1, <1>2, <2>1
  <1>. QED
    BY <1>1, <1>2, <1>3, Zenon DEF Objects, go

\* All fields but one are right: so are they after a change of that field.
LEMMA ButOne ==
    ASSUME NEW h, NEW hp, NEW who, NEW got, Objects(h, hp, who, got),
           FieldsOK(h, hp, who, got, Nowhere), NEW but
    PROVE  FieldsOK(h, hp, who, got, but)
  <1>1. ASSUME NEW n \in DOMAIN hp, NEW g \in Dec!Fields(hp[n].type)
        PROVE  FieldOK(h, hp, who, got, n, g)
    <2>1. n # 0
      BY ObjectsAre
    <2>2. <<n, g.num>> # Nowhere
      BY <2>1 DEF Nowhere
    <2>. QED
      BY <2>2, Zenon DEF FieldsOK
  <1>. QED
    BY <1>1, Zenon DEF FieldsOK

LEMMA ShowsGrow ==
    ASSUME NEW g, NEW es, NEW k \in Nat, NEW hp, NEW who, NEW w,
           Shows(g, es, k, hp, who, w), NEW hq, DOMAIN hp \subseteq DOMAIN hq,
           NEW whq, \A y \in DOMAIN hp : whq[y] = who[y]
    PROVE  Shows(g, es, k, hq, whq, w)
  <1>1. ASSUME NEW e, NEW y, Matches(g, hp, who, e, y)
        PROVE  Matches(g, hq, whq, e, y)
    BY <1>1 DEF Matches
  <1>. QED
    BY <1>1, Zenon DEF Shows

\* The field g of another object, or another field of the same, is not changed.
LEMMA FieldKept ==
    ASSUME NEW h, NEW hp, NEW who, NEW got, NEW j, NEW g,
           FieldOK(h, hp, who, got, j, g),
           NEW hq, DOMAIN hq = DOMAIN hp, NEW go,
           hq[j].val[g.num] = hp[j].val[g.num],
           \A k \in FieldsOf(h, who[j]) :
                FieldOf(h, who[j], k).num = g.num => go[j][k] = got[j][k]
    PROVE  FieldOK(h, hq, who, go, j, g)
  <1> DEFINE m == who[j]
             w == hp[j].val[g.num]
             v == hq[j].val[g.num]
  <1>1. v = w
    OBVIOUS
  <1>2. (\A k \in FieldsOf(h, m) : FieldOf(h, m, k).num # g.num) =>
            w = Dec!DefaultValue(g)
    BY Zenon DEF FieldOK
  <1>3. ASSUME NEW k \in FieldsOf(h, m), FieldOf(h, m, k).num = g.num
        PROVE  Shows(g, Elems(h, m, k), go[j][k], hq, who, v)
    <2>1. Shows(g, Elems(h, m, k), got[j][k], hp, who, w)
      BY <1>3, Zenon DEF FieldOK
    <2>2. Shows(g, Elems(h, m, k), go[j][k], hp, who, v)
      <3>1. go[j][k] = got[j][k]
        BY <1>3
      <3> HIDE DEF v, w, m
      <3>. QED
        BY <1>1, <2>1, <3>1
    <2>3. \A e, y : Matches(g, hp, who, e, y) <=> Matches(g, hq, who, e, y)
      BY DEF Matches
    <2> HIDE DEF v, w, m
    <2>. QED
      BY <2>2, <2>3, Zenon DEF Shows
  <1>4. (\A k \in FieldsOf(h, m) : FieldOf(h, m, k).num # g.num) =>
            v = Dec!DefaultValue(g)
    <2> HIDE DEF v, w
    <2>. QED
      BY <1>1, <1>2, Zenon
  <1>. QED
    BY <1>3, <1>4, Zenon DEF FieldOK

LEMMA ChangedFields ==
    ASSUME NEW h, NEW hp, NEW who, NEW got, Objects(h, hp, who, got),
           NEW n \in DOMAIN hp, NEW hq, NEW num, Changed(hp, hq, n, num),
           FieldsOK(h, hp, who, got, <<n, num>>)
    PROVE  FieldsOK(h, hq, who, got, <<n, num>>)
  <1>1. DOMAIN hq = DOMAIN hp
    BY DEF Changed
  <1>2. ASSUME NEW j \in DOMAIN hq, NEW g \in Dec!Fields(hq[j].type),
               <<j, g.num>> # <<n, num>>
        PROVE  FieldOK(h, hq, who, got, j, g)
    <2>1. j \in DOMAIN hp
      BY <1>1
    <2>2. hq[j].type = hp[j].type
      BY <2>1, Zenon DEF Changed
    <2>3. FieldOK(h, hp, who, got, j, g)
      BY <1>2, <2>1, <2>2, Zenon DEF FieldsOK
    <2>4. hq[j].val[g.num] = hp[j].val[g.num]
      <3>1. CASE j # n
        <4>1. hq[j] = hp[j]
          BY <2>1, <3>1, Zenon DEF Changed
        <4>. QED
          BY <4>1
      <3>2. CASE j = n
        <4>1. g.num # num
          BY <1>2, <3>2
        <4>2. g.num \in DOMAIN hp[n].val
          <5>1. hp[n].type \in DOMAIN ReaderSchema
                /\ DOMAIN hp[n].val = Dec!Numbers(hp[n].type)
            BY ObjectsAre
          <5>2. g \in Dec!Fields(hp[n].type)
            BY <2>2, <3>2
          <5>. QED
            BY <5>1, <5>2, ReaderFields
        <4>. QED
          BY <3>2, <4>1, <4>2, Zenon DEF Changed
      <3>. QED
        BY <3>1, <3>2
    <2>. QED
      BY <1>1, <2>3, <2>4, FieldKept
  <1>. QED
    BY <1>2, Zenon DEF FieldsOK

\* The field of the element that has been read is right too.
LEMMA AdvanceFields ==
    ASSUME NEW h, Readable(h), NEW hp, NEW who, NEW got,
           Objects(h, hp, who, got), NEW n \in DOMAIN hp,
           NEW i \in FieldsOf(h, who[n]),
           got[n][i] + 1 <= Len(Elems(h, who[n], i)),
           FieldsOK(h, hp, who, got, <<n, FieldOf(h, who[n], i).num>>),
           \A g \in Dec!Fields(hp[n].type) :
                g.num = FieldOf(h, who[n], i).num =>
                Shows(g, Elems(h, who[n], i), got[n][i] + 1, hp, who,
                      hp[n].val[g.num])
    PROVE  FieldsOK(h, hp, who, Advance(got, n, i), Nowhere)
  <1> DEFINE go == Advance(got, n, i)
             num == FieldOf(h, who[n], i).num
  <1>1. /\ DOMAIN go = DOMAIN got
        /\ \A j \in DOMAIN got : j # n => go[j] = got[j]
        /\ go[n][i] = got[n][i] + 1
        /\ \A j \in FieldsOf(h, who[n]) : j # i => go[n][j] = got[n][j]
    BY AdvanceIs
  <1>2. DOMAIN got = DOMAIN hp
    BY DEF Objects
  <1> HIDE DEF go
  <1>3. ASSUME NEW j \in DOMAIN hp, NEW g \in Dec!Fields(hp[j].type),
               <<j, g.num>> # <<n, num>>
        PROVE  FieldOK(h, hp, who, go, j, g)
    <2>1. FieldOK(h, hp, who, got, j, g)
      BY <1>3, Zenon DEF FieldsOK
    <2>2. ASSUME NEW k \in FieldsOf(h, who[j]),
                 FieldOf(h, who[j], k).num = g.num
          PROVE  go[j][k] = got[j][k]
      <3>1. CASE j # n
        BY <1>1, <1>2, <3>1
      <3>2. CASE j = n
        <4>1. k # i
          BY <1>3, <2>2, <3>2
        <4>. QED
          BY <1>1, <2>2, <3>2, <4>1
      <3>. QED
        BY <3>1, <3>2
    <2>. QED
      BY <2>1, <2>2, FieldKept
  <1>4. ASSUME NEW g \in Dec!Fields(hp[n].type), g.num = num
        PROVE  FieldOK(h, hp, who, go, n, g)
    <2> DEFINE m == who[n]
               w == hp[n].val[g.num]
    <2>1. Shows(g, Elems(h, m, i), go[n][i], hp, who, w)
      <3>1. Shows(g, Elems(h, m, i), got[n][i] + 1, hp, who, w)
        BY <1>4
      <3> HIDE DEF m, w
      <3>. QED
        BY <1>1, <3>1
    <2>2. \A k \in FieldsOf(h, m) : FieldOf(h, m, k).num = g.num => k = i
      BY <1>4, ObjectsAre, ReadableFields
    <2>3. \A k \in FieldsOf(h, m) :
            FieldOf(h, m, k).num = g.num =>
                Shows(g, Elems(h, m, k), go[n][k], hp, who, w)
      BY <2>1, <2>2, Zenon
    <2>4. ~ \A k \in FieldsOf(h, m) : FieldOf(h, m, k).num # g.num
      BY <1>4
    <2>. QED
      BY <2>3, <2>4, Zenon DEF FieldOK
  <1>5. ASSUME NEW j \in DOMAIN hp, NEW g \in Dec!Fields(hp[j].type)
        PROVE  FieldOK(h, hp, who, go, j, g)
    <2>1. CASE <<j, g.num>> # <<n, num>>
      BY <1>3, <2>1
    <2>2. CASE <<j, g.num>> = <<n, num>>
      BY <1>4, <2>2
    <2>. QED
      BY <2>1, <2>2
  <1>. QED
    BY <1>5, Zenon DEF FieldsOK, go

-----------------------------------------------------------------------------
(* An element is stored in the field g, that of the writer's field i.      *)

Stored(hp, hq, n, g, v) == Changed(hp, hq, n, g.num) /\ hq[n].val[g.num] = v

\* A field that is not repeated has one element at most.
LEMMA SingularElems ==
    ASSUME NEW h, NEW m, NEW i, ~ FieldOf(h, m, i).repeated
    PROVE  LET f == FieldOf(h, m, i)
               v == h[m].val[f.num]
           IN  \/ Enc!IsDefault(f, v) /\ Elems(h, m, i) = <<>>
               \/ ~ Enc!IsDefault(f, v) /\ Elems(h, m, i) = <<v>>
  BY Zenon DEF Elems, Enc!Encoded

LEMMA SingularLength ==
    ASSUME NEW h, NEW m, NEW i, ~ FieldOf(h, m, i).repeated
    PROVE  Len(Elems(h, m, i)) <= 1
  <1> DEFINE v == h[m].val[FieldOf(h, m, i).num]
  <1>1. Elems(h, m, i) = <<>> \/ Elems(h, m, i) = <<v>>
    BY SingularElems
  <1>2. Len(<<>>) = 0 /\ Len(<<v>>) = 1 /\ 0 <= 1 /\ 1 <= 1
    OBVIOUS
  <1>. QED
    BY <1>1, <1>2, Zenon

LEMMA FieldMatches ==
    ASSUME NEW h, Enc!SizableMessages(h), Readable(h), NEW hp, NEW who, NEW got,
           Objects(h, hp, who, got), NEW n \in DOMAIN hp,
           NEW i \in FieldsOf(h, who[n]), NEW g,
           IsField(h, hp, n, who[n], i, g)
    PROVE  /\ Fits(h, FieldOf(h, who[n], i), Elems(h, who[n], i), g)
           /\ g \in Dec!Fields(hp[n].type)
           /\ g.num = FieldOf(h, who[n], i).num
           /\ g.num \in DOMAIN hp[n].val
           /\ g.sub \in DOMAIN ReaderSchema
           /\ g.repeated \in BOOLEAN
           /\ g.type = FieldOf(h, who[n], i).type
           /\ ~ g.repeated => Len(Elems(h, who[n], i)) <= 1
  <1>1. g \in Dec!Fields(hp[n].type) /\ g.num = FieldOf(h, who[n], i).num
    BY DEF IsField
  <1>2. hp[n].type \in DOMAIN ReaderSchema /\ hp[n].type = h[who[n]].type
        /\ who[n] \in DOMAIN h /\ DOMAIN hp[n].val = Dec!Numbers(hp[n].type)
    BY ObjectsAre
  <1>3. Fits(h, FieldOf(h, who[n], i), Elems(h, who[n], i), g)
    BY <1>1, <1>2, ReadableFits
  <1>4. g.num \in Dec!Numbers(hp[n].type) /\ g.sub \in DOMAIN ReaderSchema
        /\ g.repeated \in BOOLEAN
    BY <1>1, <1>2, ReaderFields
  <1>5. g.type = FieldOf(h, who[n], i).type
        /\ g.repeated = FieldOf(h, who[n], i).repeated
    BY <1>3, Zenon DEF Fits
  <1>. QED
    BY <1>1, <1>2, <1>3, <1>4, <1>5, SingularLength

\* In short, for a message m of the writer.
LEMMA FieldAgrees ==
    ASSUME NEW h, Enc!SizableMessages(h), Readable(h), NEW hp, NEW who, NEW got,
           Objects(h, hp, who, got), NEW n \in DOMAIN hp, NEW m, m = who[n],
           NEW i \in FieldsOf(h, m), NEW g, IsField(h, hp, n, m, i, g)
    PROVE  /\ Fits(h, FieldOf(h, m, i), Elems(h, m, i), g)
           /\ g.type = FieldOf(h, m, i).type
  <1>1. /\ i \in FieldsOf(h, who[n])
        /\ IsField(h, hp, n, who[n], i, g)
    BY Zenon
  <1>2. /\ Fits(h, FieldOf(h, who[n], i), Elems(h, who[n], i), g)
        /\ g.type = FieldOf(h, who[n], i).type
    BY <1>1, FieldMatches
  <1>. QED
    BY <1>2, Zenon

\* What the field shows before and after.
LEMMA FieldShows ==
    ASSUME NEW h, NEW hp, NEW who, NEW got,
           FieldsOK(h, hp, who, got, Nowhere), Objects(h, hp, who, got),
           NEW n \in DOMAIN hp, NEW i \in FieldsOf(h, who[n]),
           NEW g, IsField(h, hp, n, who[n], i, g)
    PROVE  Shows(g, Elems(h, who[n], i), got[n][i], hp, who, hp[n].val[g.num])
  <1>1. n # 0
    BY ObjectsAre
  <1>2. <<n, g.num>> # Nowhere
    BY <1>1 DEF Nowhere
  <1>3. g \in Dec!Fields(hp[n].type) /\ FieldOf(h, who[n], i).num = g.num
    BY DEF IsField
  <1>4. FieldOK(h, hp, who, got, n, g)
    BY <1>2, <1>3, Zenon DEF FieldsOK
  <1>. QED
    BY <1>3, <1>4, Zenon DEF FieldOK

LEMMA AddedShows ==
    ASSUME NEW g, g.repeated \in BOOLEAN, NEW es, NEW k \in Nat,
           ~ g.repeated => k = 0,
           NEW hp, NEW who, NEW w, Shows(g, es, k, hp, who, w),
           NEW y, Matches(g, hp, who, es[k + 1], y)
    PROVE  Shows(g, es, k + 1, hp, who, Dec!Added(g, w, y))
  <1>1. CASE g.repeated
    <2> DEFINE v == Append(w, y)
    <2>1. IsSeq(w) /\ Len(w) = k
          /\ \A j \in 1 .. k : Matches(g, hp, who, es[j], w[j])
      BY <1>1, Zenon DEF Shows
    <2>2. /\ IsSeq(v) /\ Len(v) = Len(w) + 1
          /\ \A j \in 1 .. Len(w) : v[j] = w[j]
          /\ v[Len(w) + 1] = y
      BY <2>1, IsSeqAppend
    <2>3. Dec!Added(g, w, y) = v
      BY <1>1 DEF Dec!Added
    <2> HIDE DEF v
    <2>4. Len(v) = k + 1 /\ v[k + 1] = y /\ \A j \in 1 .. k : v[j] = w[j]
      BY <2>1, <2>2
    <2>5. ASSUME NEW j \in 1 .. (k + 1)
          PROVE  Matches(g, hp, who, es[j], v[j])
      <3>1. CASE j = k + 1
        BY <2>4, <3>1
      <3>2. CASE j # k + 1
        <4>1. j \in 1 .. k
          BY <3>2
        <4>2. Matches(g, hp, who, es[j], w[j]) /\ v[j] = w[j]
          BY <2>1, <2>4, <4>1
        <4>. QED
          BY <4>2
      <3>. QED
        BY <3>1, <3>2
    <2>. QED
      BY <1>1, <2>2, <2>3, <2>4, <2>5, Zenon DEF Shows
  <1>2. CASE ~ g.repeated
    <2>1. Dec!Added(g, w, y) = y /\ k = 0
      BY <1>2 DEF Dec!Added
    <2>2. k + 1 = 1 /\ 1 # 0
      BY <2>1
    <2>3. Matches(g, hp, who, es[1], y)
      BY <2>2
    <2>. QED
      BY <1>2, <2>1, <2>2, <2>3, Zenon DEF Shows
  <1>. QED
    BY <1>1, <1>2

StoredOK(h, hp, hq, who, got, n, i) ==
    /\ Objects(h, hq, who, Advance(got, n, i))
    /\ FieldsOK(h, hq, who, Advance(got, n, i), Nowhere)
    /\ DOMAIN hq = DOMAIN hp

LEMMA StoreAdvances ==
    ASSUME NEW h, Enc!SizableMessages(h), Readable(h), NEW hp, NEW who, NEW got,
           Objects(h, hp, who, got), FieldsOK(h, hp, who, got, Nowhere),
           NEW n \in DOMAIN hp, NEW i \in FieldsOf(h, who[n]),
           got[n][i] + 1 <= Len(Elems(h, who[n], i)),
           NEW g, IsField(h, hp, n, who[n], i, g), NEW y,
           Matches(g, hp, who, Elems(h, who[n], i)[got[n][i] + 1], y),
           NEW hq, Stored(hp, hq, n, g, Dec!Added(g, hp[n].val[g.num], y))
    PROVE  StoredOK(h, hp, hq, who, got, n, i)
  <1> DEFINE m == who[n]
             es == Elems(h, m, i)
             k == got[n][i]
             num == FieldOf(h, m, i).num
  <1>0. g \in Dec!Fields(hp[n].type) /\ g.num = num
    BY Zenon DEF IsField
  <1>1. Changed(hp, hq, n, num)
    <2>1. Changed(hp, hq, n, g.num)
      BY Zenon DEF Stored
    <2> HIDE DEF num
    <2>. QED
      BY <1>0, <2>1
  <1>2. DOMAIN hq = DOMAIN hp
    BY <1>1, Zenon DEF Changed
  <1>3. Objects(h, hq, who, got)
    BY <1>1, ChangedObjects
  <1>4. FieldsOK(h, hp, who, got, <<n, num>>)
    BY ButOne
  <1>5. FieldsOK(h, hq, who, got, <<n, num>>)
    BY <1>1, <1>4, ChangedFields
  <1>6. k \in Nat /\ (~ g.repeated => k = 0)
    <2>1. m \in DOMAIN h /\ got[n] \in Counts(h, m)
      BY ObjectsAre
    <2>2. k \in Nat /\ Len(es) \in Nat
      BY <2>1, CountOf
    <2>3. ~ g.repeated => Len(es) <= 1
      BY FieldMatches
    <2>4. k + 1 <= Len(es)
      OBVIOUS
    <2> HIDE DEF k, es
    <2>. QED
      BY <2>2, <2>3, <2>4
  <1>7. Shows(g, es, k, hp, who, hp[n].val[g.num])
    BY FieldShows
  <1>8. Shows(g, es, k + 1, hp, who, hq[n].val[g.num])
    <2>1. hq[n].val[g.num] = Dec!Added(g, hp[n].val[g.num], y)
      BY DEF Stored
    <2>2. g.repeated \in BOOLEAN
      BY FieldMatches
    <2>3. Matches(g, hp, who, es[k + 1], y)
      OBVIOUS
    <2> HIDE DEF k, es
    <2>4. Shows(g, es, k + 1, hp, who, Dec!Added(g, hp[n].val[g.num], y))
      BY <1>6, <1>7, <2>2, <2>3, AddedShows
    <2>. QED
      BY <2>1, <2>4
  <1>9. Shows(g, es, k + 1, hq, who, hq[n].val[g.num])
    <2> HIDE DEF k, es
    <2>1. k + 1 \in Nat
      BY <1>6
    <2>. QED
      BY <1>2, <1>8, <2>1, ShowsGrow
  <1>10. \A f \in Dec!Fields(hq[n].type) :
            f.num = num => Shows(f, es, k + 1, hq, who, hq[n].val[f.num])
    <2>1. ASSUME NEW f \in Dec!Fields(hq[n].type), f.num = num
          PROVE  f = g
      <3>1. hq[n].type = hp[n].type
        BY <1>1, Zenon DEF Changed
      <3>2. f \in Dec!Fields(hp[n].type) /\ f.num = g.num
        BY <1>0, <2>1, <3>1, Zenon
      <3>3. g \in Dec!Fields(hp[n].type) /\ hp[n].type \in DOMAIN ReaderSchema
        BY <1>0, ObjectsAre
      <3>. QED
        BY <3>2, <3>3, DistinctFields
    <2> HIDE DEF es, k, num
    <2>. QED
      BY <1>9, <2>1
  <1>11. n \in DOMAIN hq
    BY <1>2
  <1>12. Objects(h, hq, who, Advance(got, n, i))
    BY <1>3, <1>11, AdvanceObjects
  <1>13. FieldsOK(h, hq, who, Advance(got, n, i), Nowhere)
    BY <1>3, <1>5, <1>10, <1>11, AdvanceFields
  <1>. QED
    BY <1>2, <1>12, <1>13, Zenon DEF StoredOK

\* The same when the reader does not know the field.
LEMMA UnknownAdvances ==
    ASSUME NEW h, Enc!SizableMessages(h), Readable(h), NEW hp, NEW who, NEW got,
           Objects(h, hp, who, got), FieldsOK(h, hp, who, got, Nowhere),
           NEW n \in DOMAIN hp, NEW i \in FieldsOf(h, who[n]),
           got[n][i] + 1 <= Len(Elems(h, who[n], i)),
           IsUnknown(h, hp, n, who[n], i)
    PROVE  StoredOK(h, hp, hp, who, got, n, i)
  <1> DEFINE num == FieldOf(h, who[n], i).num
  <1>1. FieldsOK(h, hp, who, got, <<n, num>>)
    BY ButOne
  <1>2. \A g \in Dec!Fields(hp[n].type) : g.num # num
    BY DEF IsUnknown, Dec!Known, Dec!Fields
  <1>3. Objects(h, hp, who, Advance(got, n, i))
    BY AdvanceObjects
  <1>4. FieldsOK(h, hp, who, Advance(got, n, i), Nowhere)
    BY <1>1, <1>2, AdvanceFields
  <1>. QED
    BY <1>3, <1>4 DEF StoredOK

-----------------------------------------------------------------------------
(* A string is read, byte by byte.                                         *)

LEMMA MoveByte ==
    ASSUME NEW x \in Seq(Byte), NEW q \in Seq(Byte), q # <<>>
    PROVE  /\ Append(x, Head(q)) \in Seq(Byte)
           /\ Append(x, Head(q)) \o Tail(q) = x \o q
  <1> DEFINE b == <<Head(q)>>
             t == Tail(q)
  <1>1. q = b \o t /\ Head(q) \in Byte /\ t \in Seq(Byte)
    BY HeadAndTail
  <1>2. Append(x, Head(q)) \in Seq(Byte) /\ Append(x, Head(q)) = x \o b
    BY <1>1, AppendProperties, AppendIsConcat
  <1>3. b \in Seq(Byte)
    BY <1>1
  <1> HIDE DEF b, t
  <1>4. (x \o b) \o t = x \o (b \o t)
    <2>1. Associative(Byte)
      BY ConcatIsAssociative
    <2>2. x \in Seq(Byte) /\ b \in Seq(Byte) /\ t \in Seq(Byte)
      BY <1>1, <1>3, Zenon
    <2>. QED
      BY <2>1, <2>2, Zenon DEF Associative
  <1>5. Append(x, Head(q)) \o t = x \o q
    BY <1>1, <1>2, <1>4, Zenon
  <1>. QED
    BY <1>2, <1>5 DEF t

LEMMA IsSeqExcept ==
    ASSUME NEW s, IsSeq(s), NEW n \in 1 .. Len(s), NEW v
    PROVE  LET t == [s EXCEPT ![n] = v]
           IN  /\ IsSeq(t) /\ Len(t) = Len(s)
               /\ t[n] = v
               /\ \A j \in 1 .. Len(s) : j # n => t[j] = s[j]
  <1> DEFINE t == [s EXCEPT ![n] = v]
  <1>1. Len(s) \in Nat /\ DOMAIN s = 1 .. Len(s)
    BY IsSeqLen
  <1>2. DOMAIN t = 1 .. Len(s) /\ t[n] = v
        /\ \A j \in 1 .. Len(s) : j # n => t[j] = s[j]
    BY <1>1
  <1>3. t \in [1 .. Len(s) -> {t[j] : j \in 1 .. Len(s)}]
    BY <1>1
  <1> HIDE DEF t
  <1>4. IsSeq(t) /\ Len(t) = Len(s)
    BY <1>1, <1>3, IsSeqFunction
  <1>. QED
    BY <1>2, <1>4 DEF t

LEMMA BegunStarts ==
    ASSUME NEW g, g.repeated \in BOOLEAN, g.type = "string", NEW es,
           NEW k \in Nat, ~ g.repeated => k = 0, es[k + 1] \in Seq(Byte),
           NEW hp, NEW who, NEW w, Shows(g, es, k, hp, who, w)
    PROVE  Begun(g, es, k + 1, Dec!Added(g, w, <<>>), es[k + 1])
  <1> DEFINE q == es[k + 1]
  <1>1. q \in Seq(Byte) /\ <<>> \in Seq(Byte) /\ <<>> \o q = q
    <2>1. q \in Seq(Byte)
      OBVIOUS
    <2> HIDE DEF q
    <2>. QED
      BY <2>1, ConcatEmpty
  <1>2. CASE g.repeated
    <2> DEFINE v == Append(w, <<>>)
    <2>1. IsSeq(w) /\ Len(w) = k
          /\ \A j \in 1 .. k : Matches(g, hp, who, es[j], w[j])
      BY <1>2, Zenon DEF Shows
    <2>2. /\ IsSeq(v) /\ Len(v) = Len(w) + 1
          /\ \A j \in 1 .. Len(w) : v[j] = w[j]
          /\ v[Len(w) + 1] = <<>>
      BY <2>1, IsSeqAppend
    <2>3. Dec!Added(g, w, <<>>) = v
      BY <1>2 DEF Dec!Added
    <2> HIDE DEF v
    <2>4. Len(v) = k + 1 /\ v[k + 1] = <<>>
      BY <2>1, <2>2
    <2>5. \A j \in 1 .. k : w[j] = es[j]
      BY <2>1 DEF Matches
    <2>6. \A j \in 1 .. (k + 1 - 1) : v[j] = es[j]
      <3>1. k + 1 - 1 = k
        OBVIOUS
      <3>2. \A j \in 1 .. k : v[j] = es[j]
        <4>1. 1 .. Len(w) = 1 .. k
          BY <2>1
        <4>. QED
          BY <2>2, <2>5, <4>1, Zenon
      <3>. QED
        BY <3>1, <3>2, Zenon
    <2>7. v[k + 1] \in Seq(Byte) /\ v[k + 1] \o q = q
      BY <1>1, <2>4, Zenon
    <2>8. Begun(g, es, k + 1, v, q)
      <3>1. q = es[k + 1]
        OBVIOUS
      <3> HIDE DEF q
      <3>2. v[k + 1] \in Seq(Byte) /\ v[k + 1] \o q = es[k + 1]
        BY <2>7, <3>1, Zenon
      <3>. QED
        BY <1>2, <2>2, <2>4, <2>6, <3>2, SMT DEF Begun
    <2>. QED
      BY <2>3, <2>8, Zenon
  <1>3. CASE ~ g.repeated
    <2>1. Dec!Added(g, w, <<>>) = <<>> /\ k + 1 = 1
      BY <1>3 DEF Dec!Added
    <2>2. q = es[1]
      BY <2>1
    <2>. QED
      BY <1>1, <1>3, <2>1, <2>2, Zenon DEF Begun
  <1>. QED
    BY <1>2, <1>3

LEMMA BegunGoesOn ==
    ASSUME NEW g, g.repeated \in BOOLEAN, NEW es, NEW k \in Nat \ {0}, NEW w,
           NEW q \in Seq(Byte), q # <<>>, Begun(g, es, k, w, q)
    PROVE  Begun(g, es, k, Dec!Extended(g, w, Head(q)), Tail(q))
  <1>1. CASE g.repeated
    <2> DEFINE x == Append(w[k], Head(q))
               v == [w EXCEPT ![k] = x]
    <2>1. /\ IsSeq(w) /\ Len(w) = k
          /\ \A j \in 1 .. (k - 1) : w[j] = es[j]
          /\ w[k] \in Seq(Byte) /\ w[k] \o q = es[k]
      BY <1>1, Zenon DEF Begun
    <2>2. x \in Seq(Byte) /\ x \o Tail(q) = w[k] \o q
      BY <2>1, MoveByte
    <2>3. Dec!Extended(g, w, Head(q)) = v
      <3>1. Dec!Extended(g, w, Head(q)) =
                [w EXCEPT ![Len(w)] = Append(w[Len(w)], Head(q))]
        BY <1>1 DEF Dec!Extended
      <3>. QED
        BY <2>1, <3>1, Zenon
    <2>4. k \in 1 .. Len(w)
      BY <2>1
    <2> HIDE DEF x
    <2>5. /\ IsSeq(v) /\ Len(v) = Len(w) /\ v[k] = x
          /\ \A j \in 1 .. Len(w) : j # k => v[j] = w[j]
      <3>1. IsSeq(w)
        BY <2>1
      <3>. QED
        BY <2>4, <3>1, IsSeqExcept
    <2> HIDE DEF v
    <2>6. \A j \in 1 .. (k - 1) : v[j] = es[j]
      <3>1. \A j \in 1 .. (k - 1) : j \in 1 .. Len(w) /\ j # k
        BY <2>1
      <3>. QED
        BY <2>1, <2>5, <3>1, Zenon
    <2>7. v[k] \in Seq(Byte) /\ v[k] \o Tail(q) = es[k]
      BY <2>1, <2>2, <2>5, Zenon
    <2>8. Len(v) = k
      BY <2>1, <2>5
    <2>. QED
      BY <1>1, <2>3, <2>5, <2>6, <2>7, <2>8, Zenon DEF Begun
  <1>2. CASE ~ g.repeated
    <2>1. k = 1 /\ w \in Seq(Byte) /\ w \o q = es[1]
      BY <1>2, Zenon DEF Begun
    <2>2. Append(w, Head(q)) \in Seq(Byte) /\ Append(w, Head(q)) \o Tail(q) = w \o q
      BY <2>1, MoveByte
    <2>3. Dec!Extended(g, w, Head(q)) = Append(w, Head(q))
      BY <1>2 DEF Dec!Extended
    <2>. QED
      BY <1>2, <2>1, <2>2, <2>3, Zenon DEF Begun
  <1>. QED
    BY <1>1, <1>2

LEMMA BegunEnds ==
    ASSUME NEW g, g.repeated \in BOOLEAN, g.type = "string", NEW es,
           NEW k \in Nat \ {0}, NEW w, Begun(g, es, k, w, <<>>),
           NEW hp, NEW who
    PROVE  Shows(g, es, k, hp, who, w)
  <1>1. \A x \in Seq(Byte) : x \o <<>> = x
    BY ConcatEmpty, EmptySeq
  <1>2. \A e, y : Matches(g, hp, who, e, y) <=> y = e
    BY DEF Matches
  <1>3. CASE g.repeated
    <2>1. /\ IsSeq(w) /\ Len(w) = k
          /\ \A j \in 1 .. (k - 1) : w[j] = es[j]
          /\ w[k] \in Seq(Byte) /\ w[k] \o <<>> = es[k]
      BY <1>3, Zenon DEF Begun
    <2>2. w[k] = es[k]
      BY <1>1, <2>1, Zenon
    <2>3. \A j \in 1 .. k : j = k \/ j \in 1 .. (k - 1)
      OBVIOUS
    <2>4. \A j \in 1 .. k : w[j] = es[j]
      BY <2>1, <2>2, <2>3, Zenon
    <2>. QED
      BY <1>2, <1>3, <2>1, <2>4, Zenon DEF Shows
  <1>4. CASE ~ g.repeated
    <2>1. k = 1 /\ w \in Seq(Byte) /\ w \o <<>> = es[1]
      BY <1>4, Zenon DEF Begun
    <2>2. w = es[1] /\ k # 0
      BY <1>1, <2>1, Zenon
    <2>. QED
      BY <1>2, <1>4, <2>2, Zenon DEF Shows
  <1>. QED
    BY <1>3, <1>4

-----------------------------------------------------------------------------
(* The objects while a string is read, and when it has been.               *)

StringOK(h, hp, hq, who, got, n, i, g, q) ==
    /\ Objects(h, hq, who, got)
    /\ FieldsOK(h, hq, who, got, <<n, g.num>>)
    /\ DOMAIN hq = DOMAIN hp
    /\ hq[n].type = hp[n].type
    /\ Begun(g, Elems(h, who[n], i), got[n][i] + 1, hq[n].val[g.num], q)

LEMMA CountBefore ==
    ASSUME NEW h, Enc!SizableMessages(h), Readable(h), NEW hp, NEW who, NEW got,
           Objects(h, hp, who, got), NEW n \in DOMAIN hp,
           NEW i \in FieldsOf(h, who[n]),
           got[n][i] + 1 <= Len(Elems(h, who[n], i)),
           NEW g, IsField(h, hp, n, who[n], i, g)
    PROVE  /\ got[n][i] \in Nat
           /\ ~ g.repeated => got[n][i] = 0
           /\ got[n][i] + 1 \in DOMAIN Elems(h, who[n], i)
           /\ g.repeated \in BOOLEAN
  <1> DEFINE es == Elems(h, who[n], i)
             k == got[n][i]
  <1>1. who[n] \in DOMAIN h /\ got[n] \in Counts(h, who[n])
    BY ObjectsAre
  <1>2. k \in Nat /\ Len(es) \in Nat /\ k + 1 \in DOMAIN es
    BY <1>1, CountOf
  <1>3. (~ g.repeated => Len(es) <= 1) /\ g.repeated \in BOOLEAN
    BY FieldMatches
  <1>4. k + 1 <= Len(es)
    OBVIOUS
  <1> HIDE DEF k, es
  <1>5. ~ g.repeated => k = 0
    BY <1>2, <1>3, <1>4
  <1>. QED
    BY <1>2, <1>3, <1>5 DEF k, es

LEMMA StringStarts ==
    ASSUME NEW h, Enc!SizableMessages(h), Readable(h), NEW hp, NEW who, NEW got,
           Objects(h, hp, who, got), FieldsOK(h, hp, who, got, Nowhere),
           NEW n \in DOMAIN hp, NEW i \in FieldsOf(h, who[n]),
           got[n][i] + 1 <= Len(Elems(h, who[n], i)),
           NEW g, IsField(h, hp, n, who[n], i, g), g.type = "string",
           NEW q \in Seq(Byte), Elems(h, who[n], i)[got[n][i] + 1] = q,
           NEW hq, Stored(hp, hq, n, g, Dec!Added(g, hp[n].val[g.num], <<>>))
    PROVE  StringOK(h, hp, hq, who, got, n, i, g, q)
  <1> DEFINE es == Elems(h, who[n], i)
             k == got[n][i]
             w == hp[n].val[g.num]
  <1>1. Changed(hp, hq, n, g.num) /\ hq[n].val[g.num] = Dec!Added(g, w, <<>>)
    BY Zenon DEF Stored
  <1>2. DOMAIN hq = DOMAIN hp /\ hq[n].type = hp[n].type
    BY <1>1, Zenon DEF Changed
  <1>3. Objects(h, hq, who, got)
    BY <1>1, ChangedObjects
  <1>4. FieldsOK(h, hp, who, got, <<n, g.num>>)
    BY ButOne
  <1>5. FieldsOK(h, hq, who, got, <<n, g.num>>)
    BY <1>1, <1>4, ChangedFields
  <1>6. k \in Nat /\ (~ g.repeated => k = 0) /\ g.repeated \in BOOLEAN
    BY CountBefore
  <1>7. Shows(g, es, k, hp, who, w)
    BY FieldShows
  <1>8. es[k + 1] = q
    OBVIOUS
  <1>9. g.type = "string"
    OBVIOUS
  <1>10. Begun(g, es, k + 1, hq[n].val[g.num], q)
    <2> HIDE DEF es, k, w
    <2>1. es[k + 1] \in Seq(Byte)
      BY <1>8
    <2>2. Begun(g, es, k + 1, Dec!Added(g, w, <<>>), es[k + 1])
      BY <1>6, <1>7, <1>9, <2>1, BegunStarts
    <2>. QED
      BY <1>1, <1>8, <2>2, Zenon
  <1>. QED
    BY <1>2, <1>3, <1>5, <1>10, Zenon DEF StringOK

LEMMA StringGoesOn ==
    ASSUME NEW h, Enc!SizableMessages(h), Readable(h), NEW hp, NEW who, NEW got,
           Objects(h, hp, who, got), NEW n \in DOMAIN hp,
           NEW i \in FieldsOf(h, who[n]),
           got[n][i] + 1 <= Len(Elems(h, who[n], i)),
           NEW g, IsField(h, hp, n, who[n], i, g),
           FieldsOK(h, hp, who, got, <<n, g.num>>),
           NEW q \in Seq(Byte), q # <<>>,
           Begun(g, Elems(h, who[n], i), got[n][i] + 1, hp[n].val[g.num], q),
           NEW hq,
           Stored(hp, hq, n, g, Dec!Extended(g, hp[n].val[g.num], Head(q)))
    PROVE  StringOK(h, hp, hq, who, got, n, i, g, Tail(q))
  <1> DEFINE es == Elems(h, who[n], i)
             k == got[n][i]
             w == hp[n].val[g.num]
             v == Dec!Extended(g, w, Head(q))
  <1>1. Changed(hp, hq, n, g.num) /\ hq[n].val[g.num] = v
    BY Zenon DEF Stored
  <1>2. DOMAIN hq = DOMAIN hp /\ hq[n].type = hp[n].type
    BY <1>1, Zenon DEF Changed
  <1>3. Objects(h, hq, who, got)
    BY <1>1, ChangedObjects
  <1>4. FieldsOK(h, hq, who, got, <<n, g.num>>)
    BY <1>1, ChangedFields
  <1>5. k \in Nat /\ g.repeated \in BOOLEAN
    BY CountBefore
  <1>6. Begun(g, es, k + 1, w, q)
    OBVIOUS
  <1>7. Begun(g, es, k + 1, v, Tail(q))
    <2> HIDE DEF es, k, w
    <2>1. k + 1 \in Nat \ {0}
      BY <1>5
    <2>. QED
      BY <1>5, <1>6, <2>1, BegunGoesOn
  <1> HIDE DEF v
  <1>8. Begun(g, es, k + 1, hq[n].val[g.num], Tail(q))
    BY <1>1, <1>7, Zenon
  <1>. QED
    BY <1>2, <1>3, <1>4, <1>8, Zenon DEF StringOK

LEMMA StringEnds ==
    ASSUME NEW h, Enc!SizableMessages(h), Readable(h), NEW hp, NEW who, NEW got,
           Objects(h, hp, who, got), NEW n \in DOMAIN hp,
           NEW i \in FieldsOf(h, who[n]),
           got[n][i] + 1 <= Len(Elems(h, who[n], i)),
           NEW g, IsField(h, hp, n, who[n], i, g), g.type = "string",
           FieldsOK(h, hp, who, got, <<n, g.num>>),
           Begun(g, Elems(h, who[n], i), got[n][i] + 1, hp[n].val[g.num], <<>>)
    PROVE  StoredOK(h, hp, hp, who, got, n, i)
  <1> DEFINE es == Elems(h, who[n], i)
             k == got[n][i]
             num == FieldOf(h, who[n], i).num
  <1>1. k \in Nat /\ g.repeated \in BOOLEAN
    BY CountBefore
  <1>2. g \in Dec!Fields(hp[n].type) /\ g.num = num
    BY Zenon DEF IsField
  <1>3. hp[n].type \in DOMAIN ReaderSchema
    BY ObjectsAre
  <1>4. Begun(g, es, k + 1, hp[n].val[g.num], <<>>) /\ g.type = "string"
    OBVIOUS
  <1>5. Shows(g, es, k + 1, hp, who, hp[n].val[g.num])
    <2> HIDE DEF es, k
    <2>1. k + 1 \in Nat \ {0}
      BY <1>1
    <2>. QED
      BY <1>1, <1>4, <2>1, BegunEnds
  <1>6. \A f \in Dec!Fields(hp[n].type) :
            f.num = num => Shows(f, es, k + 1, hp, who, hp[n].val[f.num])
    <2>1. ASSUME NEW f \in Dec!Fields(hp[n].type), f.num = num
          PROVE  f = g
      <3>1. f.num = g.num
        BY <1>2, <2>1, Zenon
      <3>. QED
        BY <1>2, <1>3, <3>1, DistinctFields
    <2> HIDE DEF es, k, num
    <2>. QED
      BY <1>5, <2>1
  <1>7. FieldsOK(h, hp, who, got, <<n, num>>)
    <2>1. FieldsOK(h, hp, who, got, <<n, g.num>>)
      OBVIOUS
    <2> HIDE DEF num
    <2>. QED
      BY <1>2, <2>1, Zenon
  <1>8. Objects(h, hp, who, Advance(got, n, i))
    BY AdvanceObjects
  <1>9. FieldsOK(h, hp, who, Advance(got, n, i), Nowhere)
    BY <1>6, <1>7, AdvanceFields
  <1>. QED
    BY <1>8, <1>9, Zenon DEF StoredOK

-----------------------------------------------------------------------------
(* A new object, made of the message e.                                    *)

Grown(f, n, x) == [j \in 1 .. (n + 1) |-> IF j = n + 1 THEN x ELSE f[j]]

LEMMA GrownIs ==
    ASSUME NEW n \in Nat, NEW f, NEW x
    PROVE  /\ DOMAIN Grown(f, n, x) = 1 .. (n + 1)
           /\ Grown(f, n, x)[n + 1] = x
           /\ \A j \in 1 .. n : Grown(f, n, x)[j] = f[j]
  <1>1. n + 1 \in 1 .. (n + 1) /\ \A j \in 1 .. n : j \in 1 .. (n + 1) /\ j # n + 1
    OBVIOUS
  <1>. QED
    BY <1>1, Zenon DEF Grown

GrownOK(h, hp, hq, who, got, e) ==
    /\ Objects(h, hq, Grown(who, Len(hp), e), Grown(got, Len(hp), NoneDone(h, e)))
    /\ FieldsOK(h, hq, Grown(who, Len(hp), e), Grown(got, Len(hp), NoneDone(h, e)),
                Nowhere)

LEMMA NoneCounts ==
    ASSUME NEW h, Enc!SizableMessages(h), NEW m \in DOMAIN h
    PROVE  /\ NoneDone(h, m) \in Counts(h, m)
           /\ \A i \in FieldsOf(h, m) : NoneDone(h, m)[i] = 0
  <1>1. /\ NoneDone(h, m) \in [FieldsOf(h, m) -> Nat]
        /\ \A i \in FieldsOf(h, m) : NoneDone(h, m)[i] = 0
    BY DEF NoneDone
  <1>2. \A i \in FieldsOf(h, m) : 0 <= Len(Elems(h, m, i))
    <2>1. \A i \in FieldsOf(h, m) : Len(Elems(h, m, i)) \in Nat
      BY ElemsAreSeq
    <2>. QED
      BY <2>1
  <1>3. \A i \in FieldsOf(h, m) : NoneDone(h, m)[i] <= Len(Elems(h, m, i))
    BY <1>1, <1>2, Zenon
  <1>. QED
    BY <1>1, <1>3, Zenon DEF Counts

\* A new message has the default values.
LEMMA NewFieldOK ==
    ASSUME NEW h, Enc!SizableMessages(h), NEW hp, NEW who, NEW got, NEW n,
           who[n] \in DOMAIN h, got[n] = NoneDone(h, who[n]),
           NEW t \in DOMAIN ReaderSchema, hp[n] = Dec!NewMessage(t),
           NEW g \in Dec!Fields(t)
    PROVE  FieldOK(h, hp, who, got, n, g)
  <1> DEFINE m == who[n]
             w == hp[n].val[g.num]
  <1>1. w = Dec!DefaultValue(g)
    <2>1. Dec!NewMessage(t).val[g.num] = Dec!DefaultValue(g)
      BY NewMessageIs
    <2>. QED
      BY <2>1
  <1>2. \A i \in FieldsOf(h, m) : got[n][i] = 0
    BY NoneCounts
  <1>3. \A es : Shows(g, es, 0, hp, who, w)
    <2> HIDE DEF w
    <2>1. CASE g.repeated
      <3>1. w = <<>>
        BY <1>1, <2>1 DEF Dec!DefaultValue
      <3>2. IsSeq(<<>>) /\ Len(<<>>) = 0
        BY EmptySeq, IsSeqIn
      <3>3. \A j \in 1 .. 0 : FALSE
        OBVIOUS
      <3>. QED
        BY <2>1, <3>1, <3>2, <3>3, Zenon DEF Shows
    <2>2. CASE ~ g.repeated
      BY <1>1, <2>2, Zenon DEF Shows
    <2>. QED
      BY <2>1, <2>2
  <1>4. \A i \in FieldsOf(h, m) : Shows(g, Elems(h, m, i), got[n][i], hp, who, w)
    <2> HIDE DEF w, m
    <2>. QED
      BY <1>2, <1>3, Zenon
  <1>. QED
    BY <1>1, <1>4, Zenon DEF FieldOK

LEMMA ObjectsGrow ==
    ASSUME NEW h, Enc!SizableMessages(h), NEW hp, NEW who, NEW got,
           Objects(h, hp, who, got), FieldsOK(h, hp, who, got, Nowhere),
           NEW e \in DOMAIN h, h[e].type \in DOMAIN ReaderSchema
    PROVE  GrownOK(h, hp, Append(hp, Dec!NewMessage(h[e].type)), who, got, e)
  <1> DEFINE N == Len(hp)
             t == h[e].type
             x == Dec!NewMessage(t)
             hq == Append(hp, x)
             wo == Grown(who, N, e)
             go == Grown(got, N, NoneDone(h, e))
  <1>1. IsSeq(hp) /\ hp # <<>> /\ DOMAIN who = DOMAIN hp /\ DOMAIN got = DOMAIN hp
        /\ who[1] = 1
    BY DEF Objects
  <1>2. N \in Nat /\ DOMAIN hp = 1 .. N
    BY <1>1, IsSeqLen
  <1>3. 1 \in 1 .. N
    <2>1. N # 0
      <3>1. hp \in Seq({hp[i] : i \in DOMAIN hp})
        BY <1>1 DEF IsSeq, Enc!IsSeq
      <3>. QED
        BY <1>1, <3>1, EmptySeq
    <2>. QED
      BY <1>2, <2>1
  <1>4. /\ IsSeq(hq) /\ DOMAIN hq = 1 .. (N + 1) /\ Len(hq) = N + 1
        /\ \A j \in 1 .. N : hq[j] = hp[j]
        /\ hq[N + 1] = x
    BY <1>1, IsSeqAppend
  <1>5. /\ DOMAIN wo = 1 .. (N + 1) /\ wo[N + 1] = e
        /\ \A j \in 1 .. N : wo[j] = who[j]
    BY <1>2, GrownIs
  <1>6. /\ DOMAIN go = 1 .. (N + 1) /\ go[N + 1] = NoneDone(h, e)
        /\ \A j \in 1 .. N : go[j] = got[j]
    BY <1>2, GrownIs
  <1>7. /\ DOMAIN x = {"type", "val"} /\ x.type = t
        /\ DOMAIN x.val = Dec!Numbers(t)
    BY NewMessageIs
  <1>8. t \in DOMAIN ReaderSchema /\ t = h[e].type
    OBVIOUS
  <1> HIDE DEF hq, wo, go, x, t
  <1>9. \A j \in 1 .. (N + 1) : j = N + 1 \/ j \in 1 .. N
    <2> HIDE DEF N
    <2>. QED
      BY <1>2
  <1> HIDE DEF N
  <1>10. ASSUME NEW j \in DOMAIN hq
         PROVE  /\ wo[j] \in DOMAIN h
                /\ go[j] \in Counts(h, wo[j])
                /\ hq[j].type = h[wo[j]].type
                /\ hq[j].type \in DOMAIN ReaderSchema
                /\ DOMAIN hq[j] = {"type", "val"}
                /\ DOMAIN hq[j].val = Dec!Numbers(hq[j].type)
    <2>1. CASE j \in 1 .. N
      <3>1. j \in DOMAIN hp /\ hq[j] = hp[j] /\ wo[j] = who[j] /\ go[j] = got[j]
        BY <1>2, <1>4, <1>5, <1>6, <2>1
      <3>2. /\ who[j] \in DOMAIN h
            /\ got[j] \in Counts(h, who[j])
            /\ hp[j].type = h[who[j]].type
            /\ hp[j].type \in DOMAIN ReaderSchema
            /\ DOMAIN hp[j] = {"type", "val"}
            /\ DOMAIN hp[j].val = Dec!Numbers(hp[j].type)
        BY <3>1, ObjectsAre
      <3>. QED
        BY <3>1, <3>2
    <2>2. CASE j = N + 1
      <3>1. hq[j] = x /\ wo[j] = e /\ go[j] = NoneDone(h, e)
        BY <1>4, <1>5, <1>6, <2>2
      <3>2. NoneDone(h, e) \in Counts(h, e)
        BY NoneCounts
      <3>. QED
        BY <1>7, <1>8, <3>1, <3>2
    <2>. QED
      BY <1>4, <1>9, <2>1, <2>2, Zenon
  <1>11. hq # <<>>
    <2>1. 1 \in DOMAIN hq
      BY <1>2, <1>4
    <2>. QED
      BY <2>1
  <1>12. wo[1] = 1
    BY <1>1, <1>3, <1>5
  <1>13. DOMAIN wo = DOMAIN hq /\ DOMAIN go = DOMAIN hq
    BY <1>4, <1>5, <1>6
  <1>14. Objects(h, hq, wo, go)
    BY <1>4, <1>10, <1>11, <1>12, <1>13, Zenon DEF Objects
  <1>15. ASSUME NEW j \in DOMAIN hq, NEW g \in Dec!Fields(hq[j].type)
         PROVE  FieldOK(h, hq, wo, go, j, g)
    <2>1. CASE j \in 1 .. N
      <3>1. j \in DOMAIN hp /\ hq[j] = hp[j] /\ wo[j] = who[j] /\ go[j] = got[j]
        BY <1>2, <1>4, <1>5, <1>6, <2>1
      <3>2. FieldOK(h, hp, who, got, j, g)
        <4>1. j # 0
          BY <1>2, <2>1
        <4>2. <<j, g.num>> # Nowhere
          BY <4>1 DEF Nowhere
        <4>3. g \in Dec!Fields(hp[j].type)
          BY <3>1
        <4>. QED
          BY <3>1, <4>2, <4>3, Zenon DEF FieldsOK
      <3>3. \A k \in FieldsOf(h, who[j]) : got[j][k] \in Nat
        <4>1. who[j] \in DOMAIN h /\ got[j] \in Counts(h, who[j])
          BY <3>1, ObjectsAre
        <4>. QED
          BY <4>1, CountOf
      <3>4. DOMAIN hp \subseteq DOMAIN hq
        BY <1>2, <1>4
      <3>5. \A y \in DOMAIN hp : wo[y] = who[y]
        BY <1>2, <1>5
      <3> DEFINE m == who[j]
                 w == hp[j].val[g.num]
      <3>6. (\A i \in FieldsOf(h, m) : FieldOf(h, m, i).num # g.num) =>
                w = Dec!DefaultValue(g)
        BY <3>2, Zenon DEF FieldOK
      <3>7. ASSUME NEW i \in FieldsOf(h, m), FieldOf(h, m, i).num = g.num
            PROVE  Shows(g, Elems(h, m, i), got[j][i], hq, wo, w)
        <4>1. Shows(g, Elems(h, m, i), got[j][i], hp, who, w)
          BY <3>2, <3>7, Zenon DEF FieldOK
        <4>2. got[j][i] \in Nat
          BY <3>3
        <4> HIDE DEF w, m
        <4>. QED
          BY <3>4, <3>5, <4>1, <4>2, ShowsGrow
      <3>8. wo[j] = m /\ hq[j].val[g.num] = w /\ go[j] = got[j]
        BY <3>1
      <3> HIDE DEF w, m
      <3>. QED
        BY <3>6, <3>7, <3>8, Zenon DEF FieldOK
    <2>2. CASE j = N + 1
      <3>1. hq[j] = x /\ wo[j] = e /\ go[j] = NoneDone(h, e)
        BY <1>4, <1>5, <1>6, <2>2
      <3>2. g \in Dec!Fields(t)
        BY <1>7, <3>1
      <3>3. go[j] = NoneDone(h, wo[j]) /\ wo[j] \in DOMAIN h
            /\ hq[j] = Dec!NewMessage(t)
        BY <3>1 DEF x
      <3>. QED
        BY <1>8, <3>2, <3>3, NewFieldOK
    <2>. QED
      BY <1>4, <1>9, <2>1, <2>2, Zenon
  <1>16. FieldsOK(h, hq, wo, go, Nowhere)
    BY <1>15, Zenon DEF FieldsOK
  <1>. QED
    BY <1>14, <1>16, Zenon DEF GrownOK, hq, wo, go, N, x, t

-----------------------------------------------------------------------------
(* DecodeMessage enters a sub-message.                                     *)

LEMMA NoMerge ==
    ASSUME NEW h, Enc!SizableMessages(h), Readable(h), NEW hp, NEW who, NEW got,
           Objects(h, hp, who, got), FieldsOK(h, hp, who, got, Nowhere),
           NEW n \in DOMAIN hp, NEW i \in FieldsOf(h, who[n]),
           got[n][i] + 1 <= Len(Elems(h, who[n], i)),
           NEW g, IsField(h, hp, n, who[n], i, g), g.type = "message",
           ~ g.repeated
    PROVE  hp[n].val[g.num] = 0
  <1> DEFINE w == hp[n].val[g.num]
             es == Elems(h, who[n], i)
             k == got[n][i]
  <1>1. k = 0
    BY CountBefore
  <1>2. Shows(g, es, k, hp, who, w)
    BY FieldShows
  <1>3. g.type = "message" /\ ~ g.repeated
    OBVIOUS
  <1> HIDE DEF w, es, k
  <1>4. w = Dec!DefaultValue(g)
    BY <1>1, <1>2, <1>3, Zenon DEF Shows
  <1>5. Dec!DefaultValue(g) = 0
    BY <1>3 DEF Dec!DefaultValue
  <1>. QED
    BY <1>4, <1>5 DEF w

EnterOK(h, hp, hq, who, got, n, i, e) ==
    LET wo == Grown(who, Len(hp), e)
        go == Advance(Grown(got, Len(hp), NoneDone(h, e)), n, i)
    IN  /\ Objects(h, hq, wo, go)
        /\ FieldsOK(h, hq, wo, go, Nowhere)
        /\ DOMAIN hq = 1 .. (Len(hp) + 1)

\* Storing in an object, and then appending another.
LEMMA StoreThenAppend ==
    ASSUME NEW h, NEW hp, NEW who, NEW got, Objects(h, hp, who, got),
           NEW n \in DOMAIN hp, NEW g, g.num \in DOMAIN hp[n].val, NEW v, NEW x
    PROVE  Stored(Append(hp, x), Append(Dec!Assign(hp, n, g.num, v), x), n, g, v)
  <1> DEFINE N == Len(hp)
             hs == Dec!Assign(hp, n, g.num, v)
             hx == Append(hp, x)
             hq == Append(hs, x)
  <1>1. /\ IsSeq(hp) /\ N \in Nat /\ DOMAIN hp = 1 .. N /\ n \in 1 .. N
        /\ DOMAIN hp[n] = {"type", "val"}
    BY ObjectsAre
  <1>2. Changed(hp, hs, n, g.num) /\ hs[n].val[g.num] = v
    <2>1. IsSeq(hp) /\ n \in DOMAIN hp /\ DOMAIN hp[n] = {"type", "val"}
          /\ g.num \in DOMAIN hp[n].val
      BY <1>1
    <2> DEFINE num == g.num
    <2>2. num \in DOMAIN hp[n].val
      BY <2>1
    <2> HIDE DEF num, hs, hx, hq
    <2>3. /\ Changed(hp, Dec!Assign(hp, n, num, v), n, num)
          /\ Dec!Assign(hp, n, num, v)[n].val[num] = v
      BY <2>1, <2>2, AssignChanges
    <2>. QED
      BY <2>3, Zenon DEF num, hs
  <1>3. /\ IsSeq(hs) /\ Len(hs) = N
        /\ \A j \in 1 .. N : j # n => hs[j] = hp[j]
        /\ DOMAIN hs[n] = {"type", "val"}
        /\ hs[n].type = hp[n].type
        /\ DOMAIN hs[n].val = DOMAIN hp[n].val
        /\ \A k \in DOMAIN hp[n].val : k # g.num => hs[n].val[k] = hp[n].val[k]
    BY <1>1, <1>2, Zenon DEF Changed
  <1>4. /\ IsSeq(hx) /\ DOMAIN hx = 1 .. (N + 1) /\ Len(hx) = N + 1
        /\ \A j \in 1 .. N : hx[j] = hp[j]
        /\ hx[N + 1] = x
    BY <1>1, IsSeqAppend
  <1> HIDE DEF hs
  <1>5. /\ IsSeq(hq) /\ DOMAIN hq = 1 .. (Len(hs) + 1) /\ Len(hq) = Len(hs) + 1
        /\ \A j \in 1 .. Len(hs) : hq[j] = hs[j]
        /\ hq[Len(hs) + 1] = x
    <2>1. IsSeq(hs)
      BY <1>3
    <2>. QED
      BY <2>1, IsSeqAppend
  <1> HIDE DEF hx, hq
  <1>6. /\ IsSeq(hq) /\ DOMAIN hq = 1 .. (N + 1) /\ Len(hq) = N + 1
        /\ \A j \in 1 .. N : hq[j] = hs[j]
        /\ hq[N + 1] = x
    BY <1>3, <1>5, Zenon
  <1>7. hq[n] = hs[n] /\ hx[n] = hp[n]
    BY <1>1, <1>4, <1>6, Zenon
  <1>8. \A j \in 1 .. (N + 1) : j \in 1 .. N \/ j = N + 1
    <2>1. N \in Nat
      BY <1>1
    <2> HIDE DEF N
    <2>. QED
      BY <2>1
  <1>9. ASSUME NEW j \in DOMAIN hx, j # n
        PROVE  hq[j] = hx[j]
    <2>1. CASE j \in 1 .. N
      BY <1>3, <1>4, <1>6, <1>9, <2>1, Zenon
    <2>2. CASE j = N + 1
      BY <1>4, <1>6, <2>2, Zenon
    <2>. QED
      BY <1>4, <1>8, <2>1, <2>2, Zenon
  <1>10. /\ DOMAIN hq[n] = {"type", "val"}
         /\ hq[n].type = hx[n].type
         /\ DOMAIN hq[n].val = DOMAIN hx[n].val
         /\ \A k \in DOMAIN hx[n].val : k # g.num => hq[n].val[k] = hx[n].val[k]
    BY <1>3, <1>7, Zenon
  <1>11. DOMAIN hq = DOMAIN hx /\ Len(hq) = Len(hx)
    BY <1>4, <1>6, Zenon
  <1>12. Changed(hx, hq, n, g.num)
    BY <1>6, <1>9, <1>10, <1>11, Zenon DEF Changed
  <1>13. hq[n].val[g.num] = v
    BY <1>2, <1>7, Zenon
  <1>. QED
    BY <1>12, <1>13, Zenon DEF Stored, hx, hq, hs

LEMMA EnterAdvances ==
    ASSUME NEW h, Enc!SizableMessages(h), Readable(h), NEW hp, NEW who, NEW got,
           Objects(h, hp, who, got), FieldsOK(h, hp, who, got, Nowhere),
           NEW n \in DOMAIN hp, NEW i \in FieldsOf(h, who[n]),
           got[n][i] + 1 <= Len(Elems(h, who[n], i)),
           NEW g, IsField(h, hp, n, who[n], i, g), g.type = "message",
           NEW e \in DOMAIN h, Elems(h, who[n], i)[got[n][i] + 1] = e
    PROVE  EnterOK(h, hp,
                   Append(Dec!Store(hp, n, g, Len(hp) + 1), Dec!NewMessage(g.sub)),
                   who, got, n, i, e)
  <1> DEFINE N == Len(hp)
             x == Dec!NewMessage(g.sub)
             hx == Append(hp, x)
             wo == Grown(who, N, e)
             go == Grown(got, N, NoneDone(h, e))
             es == Elems(h, who[n], i)
             w == hp[n].val[g.num]
             v == Dec!Added(g, w, N + 1)
             hq == Append(Dec!Assign(hp, n, g.num, v), x)
  <1>0. g.type = "message" /\ es[got[n][i] + 1] = e /\ got[n][i] + 1 <= Len(es)
    OBVIOUS
  <1>1. g.num \in DOMAIN hp[n].val /\ g.sub \in DOMAIN ReaderSchema
        /\ Fits(h, FieldOf(h, who[n], i), es, g)
        /\ g.type = FieldOf(h, who[n], i).type
    <2>1. g.num \in DOMAIN hp[n].val /\ g.sub \in DOMAIN ReaderSchema
      BY FieldMatches
    <2>2. Fits(h, FieldOf(h, who[n], i), es, g)
      BY FieldMatches
    <2>3. g.type = FieldOf(h, who[n], i).type
      BY <2>2, Zenon DEF Fits
    <2>. QED
      BY <2>1, <2>2, <2>3
  <1>2. h[e].type = g.sub
    <2>1. got[n][i] + 1 \in DOMAIN es
      BY CountBefore
    <2>2. \A k \in DOMAIN es : h[es[k]].type = g.sub
      <3> HIDE DEF es
      <3>. QED
        BY <1>0, <1>1, Zenon DEF Fits
    <2> HIDE DEF es
    <2>. QED
      BY <1>0, <2>1, <2>2
  <1>3. GrownOK(h, hp, hx, who, got, e)
    <2>1. GrownOK(h, hp, Append(hp, Dec!NewMessage(h[e].type)), who, got, e)
      BY <1>1, <1>2, ObjectsGrow
    <2>. QED
      BY <1>2, <2>1, Zenon
  <1>4. Objects(h, hx, wo, go) /\ FieldsOK(h, hx, wo, go, Nowhere)
    BY <1>3, Zenon DEF GrownOK
  <1>5. /\ IsSeq(hp) /\ N \in Nat /\ DOMAIN hp = 1 .. N /\ n \in 1 .. N
    BY ObjectsAre
  <1>6. /\ DOMAIN hx = 1 .. (N + 1)
        /\ \A j \in 1 .. N : hx[j] = hp[j]
    BY <1>5, IsSeqAppend
  <1>7. wo[n] = who[n] /\ go[n] = got[n] /\ wo[N + 1] = e
    BY <1>5, GrownIs
  <1>8. n \in DOMAIN hx /\ hx[n] = hp[n] /\ N + 1 \in DOMAIN hx
    BY <1>5, <1>6
  <1>9. Stored(hx, hq, n, g, v)
    BY <1>1, StoreThenAppend
  <1>10. hq = Append(Dec!Store(hp, n, g, N + 1), x)
    BY Zenon DEF Dec!Store
  <1>11. IsField(h, hp, n, who[n], i, g) /\ i \in FieldsOf(h, who[n])
    OBVIOUS
  <1> HIDE DEF hx, wo, go, hq, x, es, N, w
  <1>12. Matches(g, hx, wo, es[go[n][i] + 1], N + 1)
    BY <1>0, <1>7, <1>8, Zenon DEF Matches
  <1>13. IsField(h, hx, n, wo[n], i, g) /\ i \in FieldsOf(h, wo[n])
    BY <1>7, <1>8, <1>11, Zenon DEF IsField
  <1>14. es = Elems(h, wo[n], i)
    BY <1>7, Zenon DEF es
  <1>15. go[n][i] + 1 <= Len(Elems(h, wo[n], i))
    BY <1>0, <1>7, <1>14, Zenon
  <1>16. Matches(g, hx, wo, Elems(h, wo[n], i)[go[n][i] + 1], N + 1)
    BY <1>12, <1>14, Zenon
  <1>17. Stored(hx, hq, n, g, Dec!Added(g, hx[n].val[g.num], N + 1))
    BY <1>8, <1>9, Zenon DEF w
  <1>18. StoredOK(h, hx, hq, wo, go, n, i)
    BY <1>4, <1>8, <1>13, <1>15, <1>16, <1>17, StoreAdvances
  <1>19. EnterOK(h, hp, hq, who, got, n, i, e)
    BY <1>6, <1>18, Zenon DEF StoredOK, EnterOK, wo, go, N
  <1>. QED
    BY <1>10, <1>19, Zenon DEF x, N

-----------------------------------------------------------------------------
(* The activations, when bytes are read, and calls and returns are made.   *)

BodyOf(h) == Body(h, 1)

LEMMA BodyOfTyped ==
    ASSUME NEW h, Enc!SizableMessages(h)
    PROVE  BodyOf(h) \in Seq(Byte) /\ Len(BodyOf(h)) \in Nat /\ 1 \in DOMAIN h
  <1>1. 1 \in DOMAIN h
    BY MessagesAreSeq
  <1>2. Body(h, 1) \in Seq(Byte) /\ Len(Body(h, 1)) = Sizes(h)[1]
        /\ Sizes(h)[1] \in Nat
    BY <1>1, BodyTyped
  <1>. QED
    BY <1>1, <1>2 DEF BodyOf

\* Where the innermost message ends.
EndOf(h, st) == EndAt(st, Len(BodyOf(h)), Len(st))

Around(h, st, who, got, a) ==
    Window(BodyOf(h), EndAt(st, Len(BodyOf(h)), a + 1), EndAt(st, Len(BodyOf(h)), a))
        = Left(h, who, got, st[a].msg)

LEMMA ActivationsAre ==
    ASSUME NEW h, Enc!SizableMessages(h), NEW hp, NEW st, NEW who, NEW got,
           NEW c, Activations(h, hp, st, who, got, c)
    PROVE  /\ IsSeq(st) /\ st # <<>>
           /\ st[1].msg = 1 /\ st[1].start = 0 /\ st[1].size = SIZE_MAX
           /\ c \in Nat /\ c <= EndOf(h, st)
           /\ \A a \in DOMAIN st :
                /\ st[a].msg \in DOMAIN hp
                /\ st[a].start \in Nat /\ st[a].size \in Nat
                /\ st[a].start <= c
                /\ EndAt(st, Len(BodyOf(h)), a) <= Len(BodyOf(h))
                /\ EndAt(st, Len(BodyOf(h)), a) \in Nat
           /\ \A a, b \in DOMAIN st :
                /\ st[a].msg = st[b].msg => a = b
                /\ a <= b => EndAt(st, Len(BodyOf(h)), b) <=
                             EndAt(st, Len(BodyOf(h)), a)
           /\ \A a \in 1 .. (Len(st) - 1) : Around(h, st, who, got, a)
           /\ Len(st) \in Nat \ {0} /\ DOMAIN st = 1 .. Len(st)
           /\ Len(st) \in DOMAIN st /\ 1 \in DOMAIN st
           /\ EndOf(h, st) \in Nat /\ EndOf(h, st) <= Len(BodyOf(h))
  <1> DEFINE L == Len(BodyOf(h))
  <1>1. /\ IsSeq(st) /\ st # <<>>
        /\ st[1].msg = 1 /\ st[1].start = 0 /\ st[1].size = SIZE_MAX
        /\ c \in Nat /\ c <= EndOf(h, st)
        /\ \A a \in DOMAIN st :
            /\ st[a].msg \in DOMAIN hp
            /\ st[a].start \in Nat /\ st[a].size \in Nat
            /\ st[a].start <= c
            /\ EndAt(st, L, a) <= L
        /\ \A a, b \in DOMAIN st :
            /\ st[a].msg = st[b].msg => a = b
            /\ a <= b => EndAt(st, L, b) <= EndAt(st, L, a)
        /\ \A a \in 1 .. (Len(st) - 1) : Around(h, st, who, got, a)
    BY Zenon DEF Activations, EndOf, BodyOf, Around
  <1>2. Len(st) \in Nat \ {0} /\ DOMAIN st = 1 .. Len(st)
    <2>1. Len(st) \in Nat /\ DOMAIN st = 1 .. Len(st)
      BY <1>1, IsSeqLen
    <2>2. st \in Seq({st[i] : i \in DOMAIN st})
      BY <1>1 DEF IsSeq, Enc!IsSeq
    <2>3. Len(st) # 0
      BY <1>1, <2>2, EmptySeq
    <2>. QED
      BY <2>1, <2>3
  <1>3. Len(st) \in DOMAIN st /\ 1 \in DOMAIN st
    BY <1>2
  <1>4. L \in Nat
    BY BodyOfTyped
  <1> HIDE DEF L
  <1>5. \A a \in DOMAIN st : EndAt(st, L, a) \in Nat
    <2>1. ASSUME NEW a \in DOMAIN st
          PROVE  EndAt(st, L, a) \in Nat
      <3>1. st[a].start + st[a].size \in Nat
        <4>1. st[a].start \in Nat /\ st[a].size \in Nat
          BY <1>1
        <4>. QED
          BY <4>1
      <3>. QED
        BY <1>4, <3>1, Zenon DEF EndAt
    <2>. QED
      BY <2>1
  <1>6. EndOf(h, st) \in Nat /\ EndOf(h, st) <= L
    BY <1>1, <1>3, <1>5, Zenon DEF EndOf, L
  <1>. QED
    BY <1>1, <1>2, <1>3, <1>5, <1>6, Zenon DEF L

\* The other way round.
LEMMA ActivationsIf ==
    ASSUME NEW h, NEW hp, NEW st, NEW who, NEW got, NEW c,
           IsSeq(st), st # <<>>,
           st[1].msg = 1, st[1].start = 0, st[1].size = SIZE_MAX,
           c \in Nat, c <= EndOf(h, st),
           \A a \in DOMAIN st :
                /\ st[a].msg \in DOMAIN hp
                /\ st[a].start \in Nat /\ st[a].size \in Nat
                /\ st[a].start <= c
                /\ EndAt(st, Len(BodyOf(h)), a) <= Len(BodyOf(h)),
           \A a, b \in DOMAIN st :
                /\ st[a].msg = st[b].msg => a = b
                /\ a <= b => EndAt(st, Len(BodyOf(h)), b) <=
                             EndAt(st, Len(BodyOf(h)), a),
           \A a \in 1 .. (Len(st) - 1) : Around(h, st, who, got, a)
    PROVE  Activations(h, hp, st, who, got, c)
  BY Zenon DEF Activations, EndOf, BodyOf, Around

TopOf(st) == st[Len(st)].msg

LEMMA ActivationsMove ==
    ASSUME NEW h, Enc!SizableMessages(h), NEW hp, NEW st, NEW who, NEW got,
           NEW c, Activations(h, hp, st, who, got, c),
           NEW cq \in Nat, c <= cq, cq <= EndOf(h, st),
           NEW hq, DOMAIN hp \subseteq DOMAIN hq, NEW wq, NEW gq,
           \A n \in DOMAIN hp :
                n # TopOf(st) => wq[n] = who[n] /\ gq[n] = got[n]
    PROVE  Activations(h, hq, st, wq, gq, cq)
  <1> DEFINE L == Len(BodyOf(h))
  <1>1. /\ IsSeq(st) /\ st # <<>>
        /\ st[1].msg = 1 /\ st[1].start = 0 /\ st[1].size = SIZE_MAX
        /\ c \in Nat
        /\ \A a \in DOMAIN st :
             /\ st[a].msg \in DOMAIN hp
             /\ st[a].start \in Nat /\ st[a].size \in Nat
             /\ st[a].start <= c
             /\ EndAt(st, L, a) <= L
        /\ \A a, b \in DOMAIN st :
             /\ st[a].msg = st[b].msg => a = b
             /\ a <= b => EndAt(st, L, b) <= EndAt(st, L, a)
        /\ \A a \in 1 .. (Len(st) - 1) : Around(h, st, who, got, a)
        /\ Len(st) \in Nat \ {0} /\ DOMAIN st = 1 .. Len(st)
        /\ Len(st) \in DOMAIN st
    BY ActivationsAre
  <1> HIDE DEF L
  <1>2. ASSUME NEW a \in DOMAIN st
        PROVE  st[a].msg \in DOMAIN hq /\ st[a].start <= cq
    <2>1. st[a].msg \in DOMAIN hp /\ st[a].start \in Nat /\ st[a].start <= c
      BY <1>1
    <2>2. st[a].start <= cq
      BY <1>1, <2>1
    <2>. QED
      BY <2>1, <2>2
  <1>3. ASSUME NEW a \in 1 .. (Len(st) - 1)
        PROVE  Around(h, st, wq, gq, a)
    <2>1. a \in DOMAIN st /\ a # Len(st)
      <3>1. Len(st) \in Nat \ {0} /\ DOMAIN st = 1 .. Len(st)
        BY <1>1, Zenon
      <3> DEFINE z == Len(st)
      <3>2. z \in Nat \ {0} /\ a \in 1 .. (z - 1)
        BY <3>1
      <3> HIDE DEF z
      <3>3. a \in 1 .. z /\ a # z
        BY <3>2
      <3>. QED
        BY <3>1, <3>3, Zenon DEF z
    <2>2. st[a].msg # TopOf(st)
      <3>1. a \in DOMAIN st /\ Len(st) \in DOMAIN st /\ a # Len(st)
        BY <1>1, <2>1
      <3>2. \A i, j \in DOMAIN st : st[i].msg = st[j].msg => i = j
        BY <1>1, Zenon
      <3>3. st[a].msg # st[Len(st)].msg
        BY <3>1, <3>2, Zenon
      <3>. QED
        BY <3>3, Zenon DEF TopOf
    <2>3. st[a].msg \in DOMAIN hp
      BY <1>1, <2>1
    <2>4. wq[st[a].msg] = who[st[a].msg] /\ gq[st[a].msg] = got[st[a].msg]
      BY <2>2, <2>3
    <2>5. Left(h, wq, gq, st[a].msg) = Left(h, who, got, st[a].msg)
      BY <2>4, Zenon DEF Left
    <2>6. Around(h, st, who, got, a)
      BY <1>1
    <2>. QED
      BY <2>5, <2>6, Zenon DEF Around
  <1>4. \A a \in DOMAIN st :
            /\ st[a].msg \in DOMAIN hq
            /\ st[a].start \in Nat /\ st[a].size \in Nat
            /\ st[a].start <= cq
            /\ EndAt(st, L, a) <= L
    BY <1>1, <1>2, Zenon
  <1>5. cq \in Nat /\ cq <= EndOf(h, st)
    OBVIOUS
  <1>. QED
    BY <1>1, <1>3, <1>4, <1>5, ActivationsIf, Zenon DEF L

\* A call of DecodeMessage for the object y, in the next s bytes.
Called(st, fr, tt) ==
    /\ IsSeq(tt) /\ DOMAIN tt = 1 .. (Len(st) + 1) /\ Len(tt) = Len(st) + 1
    /\ \A a \in DOMAIN st : tt[a] = st[a]
    /\ tt[Len(st) + 1] = fr

LEMMA AppendCalls ==
    ASSUME NEW st, IsSeq(st), NEW fr
    PROVE  Called(st, fr, Append(st, fr))
  <1>1. Len(st) \in Nat /\ DOMAIN st = 1 .. Len(st)
    BY IsSeqLen
  <1>2. /\ IsSeq(Append(st, fr))
        /\ Len(Append(st, fr)) = Len(st) + 1
        /\ DOMAIN Append(st, fr) = 1 .. (Len(st) + 1)
        /\ \A i \in 1 .. Len(st) : Append(st, fr)[i] = st[i]
        /\ Append(st, fr)[Len(st) + 1] = fr
    BY IsSeqAppend
  <1>. QED
    BY <1>1, <1>2, Zenon DEF Called

LEMMA EndsOfCalled ==
    ASSUME NEW st, Len(st) \in Nat \ {0}, DOMAIN st = 1 .. Len(st), NEW fr,
           NEW tt, Called(st, fr, tt), NEW L
    PROVE  /\ \A a \in DOMAIN st : EndAt(tt, L, a) = EndAt(st, L, a)
           /\ EndAt(tt, L, Len(st) + 1) = fr.start + fr.size
  <1>1. \A a \in DOMAIN st : tt[a] = st[a]
    BY Zenon DEF Called
  <1>2. tt[Len(st) + 1] = fr
    BY Zenon DEF Called
  <1>3. Len(st) + 1 # 1
    OBVIOUS
  <1>. QED
    BY <1>1, <1>2, <1>3, Zenon DEF EndAt

LEMMA ActivationsPush ==
    ASSUME NEW h, Enc!SizableMessages(h), NEW hp, NEW st, NEW who, NEW got,
           NEW c, Activations(h, hp, st, who, got, c),
           NEW y \in DOMAIN hp, \A a \in DOMAIN st : st[a].msg # y,
           NEW s \in Nat, c + s <= EndOf(h, st),
           Window(BodyOf(h), c + s, EndOf(h, st)) = Left(h, who, got, TopOf(st)),
           NEW fr, fr.msg = y, fr.start = c, fr.size = s
    PROVE  Activations(h, hp, Append(st, fr), who, got, c)
  <1> DEFINE L == Len(BodyOf(h))
             z == Len(st)
             tt == Append(st, fr)
  <1>1. /\ IsSeq(st) /\ st # <<>>
        /\ st[1].msg = 1 /\ st[1].start = 0 /\ st[1].size = SIZE_MAX
        /\ c \in Nat
        /\ \A a \in DOMAIN st :
             /\ st[a].msg \in DOMAIN hp
             /\ st[a].start \in Nat /\ st[a].size \in Nat
             /\ st[a].start <= c
             /\ EndAt(st, L, a) <= L
             /\ EndAt(st, L, a) \in Nat
        /\ \A a, b \in DOMAIN st :
             /\ st[a].msg = st[b].msg => a = b
             /\ a <= b => EndAt(st, L, b) <= EndAt(st, L, a)
        /\ \A a \in 1 .. (z - 1) : Around(h, st, who, got, a)
        /\ z \in Nat \ {0} /\ DOMAIN st = 1 .. z
        /\ z \in DOMAIN st /\ 1 \in DOMAIN st
        /\ EndOf(h, st) \in Nat /\ EndOf(h, st) <= L
    BY ActivationsAre
  <1>2. Called(st, fr, tt)
    BY <1>1, AppendCalls, Zenon
  <1> HIDE DEF L, tt
  <1>3. /\ \A a \in DOMAIN st : EndAt(tt, L, a) = EndAt(st, L, a)
        /\ EndAt(tt, L, z + 1) = fr.start + fr.size
    <2>1. Len(st) \in Nat \ {0} /\ DOMAIN st = 1 .. Len(st)
      BY <1>1, Zenon
    <2>2. fr = fr
      OBVIOUS
    <2>. QED
      BY <1>2, <2>1, EndsOfCalled
  <1>4. /\ IsSeq(tt) /\ DOMAIN tt = 1 .. (z + 1) /\ Len(tt) = z + 1
        /\ \A a \in DOMAIN st : tt[a] = st[a]
        /\ tt[z + 1] = fr
    BY <1>2, Zenon DEF Called
  <1>5. EndAt(tt, L, z + 1) = c + s /\ EndOf(h, tt) = c + s
    <2>1. EndAt(tt, L, z + 1) = c + s
      BY <1>3, Zenon
    <2>. QED
      BY <2>1, <1>4, Zenon DEF EndOf, L
  <1>6. EndOf(h, st) = EndAt(st, L, z)
    BY Zenon DEF EndOf, L
  <1>0. z \in Nat \ {0} /\ DOMAIN st = 1 .. z /\ c \in Nat /\ s \in Nat
        /\ c + s <= EndAt(st, L, z) /\ EndAt(st, L, z) \in Nat
        /\ EndAt(st, L, z) <= L
    BY <1>1, <1>6, Zenon
  <1> HIDE DEF z
  <1>7. \A a \in DOMAIN tt : a \in DOMAIN st \/ a = z + 1
    BY <1>0, <1>4
  <1>8. \A a \in DOMAIN tt :
            /\ tt[a].msg \in DOMAIN hp
            /\ tt[a].start \in Nat /\ tt[a].size \in Nat
            /\ tt[a].start <= c
            /\ EndAt(tt, L, a) <= L
    <2>1. ASSUME NEW a \in DOMAIN st
          PROVE  /\ tt[a].msg \in DOMAIN hp
                 /\ tt[a].start \in Nat /\ tt[a].size \in Nat
                 /\ tt[a].start <= c
                 /\ EndAt(tt, L, a) <= L
      BY <1>1, <1>3, <1>4, Zenon
    <2>2. c <= c /\ c + s <= L /\ c \in Nat /\ s \in Nat
      <3>1. L \in Nat
        BY BodyOfTyped DEF L
      <3>. QED
        BY <1>0, <3>1
    <2>3. /\ tt[z + 1].msg \in DOMAIN hp
          /\ tt[z + 1].start \in Nat /\ tt[z + 1].size \in Nat
          /\ tt[z + 1].start <= c
          /\ EndAt(tt, L, z + 1) <= L
      BY <1>4, <1>5, <2>2, Zenon
    <2>. QED
      BY <1>7, <2>1, <2>3, Zenon
  <1>9. \A a \in DOMAIN st : EndAt(tt, L, z + 1) <= EndAt(tt, L, a)
    <2>1. ASSUME NEW a \in DOMAIN st
          PROVE  EndAt(tt, L, z + 1) <= EndAt(tt, L, a)
      <3>1. z \in DOMAIN st /\ a <= z
        BY <1>0
      <3>2. EndAt(st, L, z) <= EndAt(st, L, a)
        BY <1>1, <3>1, Zenon
      <3>3. EndAt(st, L, a) \in Nat
        BY <1>1, Zenon
      <3>4. c + s <= EndAt(st, L, a)
        BY <1>0, <3>2, <3>3
      <3>. QED
        BY <1>3, <1>5, <3>4, Zenon
    <2>. QED
      BY <2>1
  <1>10. \A a, b \in DOMAIN tt :
            /\ tt[a].msg = tt[b].msg => a = b
            /\ a <= b => EndAt(tt, L, b) <= EndAt(tt, L, a)
    <2>1. ASSUME NEW a \in DOMAIN tt, NEW b \in DOMAIN tt
          PROVE  /\ tt[a].msg = tt[b].msg => a = b
                 /\ a <= b => EndAt(tt, L, b) <= EndAt(tt, L, a)
      <3>1. CASE a \in DOMAIN st /\ b \in DOMAIN st
        <4>1. \A p, q \in DOMAIN st :
                /\ st[p].msg = st[q].msg => p = q
                /\ p <= q => EndAt(st, L, q) <= EndAt(st, L, p)
          BY <1>1, Zenon
        <4>2. /\ tt[a] = st[a] /\ tt[b] = st[b]
              /\ EndAt(tt, L, a) = EndAt(st, L, a)
              /\ EndAt(tt, L, b) = EndAt(st, L, b)
          BY <1>3, <1>4, <3>1, Zenon
        <4>. QED
          BY <3>1, <4>1, <4>2, Zenon
      <3>2. CASE a \in DOMAIN st /\ b = z + 1
        <4>1. tt[a].msg # tt[b].msg
          BY <1>4, <3>2, Zenon
        <4>. QED
          BY <4>1, <1>9, <3>2, Zenon
      <3>3. CASE a = z + 1 /\ b \in DOMAIN st
        <4>1. tt[a].msg # tt[b].msg
          BY <1>4, <3>3, Zenon
        <4>2. ~ (a <= b)
          BY <1>0, <3>3
        <4>. QED
          BY <4>1, <4>2, Zenon
      <3>4. CASE a = z + 1 /\ b = z + 1
        <4>1. c + s <= c + s
          BY <1>0
        <4>. QED
          BY <4>1, <1>5, <3>4, Zenon
      <3>. QED
        BY <1>7, <3>1, <3>2, <3>3, <3>4, Zenon
    <2>. QED
      BY <2>1
  <1>11. \A a \in 1 .. (Len(tt) - 1) : Around(h, tt, who, got, a)
    <2>1. \A a \in 1 .. (Len(tt) - 1) : a \in DOMAIN st
      <3>1. (z + 1) - 1 = z
        BY <1>0
      <3>. QED
        BY <1>0, <1>4, <3>1, Zenon
    <2>2. ASSUME NEW a \in DOMAIN st
          PROVE  Around(h, tt, who, got, a)
      <3>1. CASE a = z
        <4>1. tt[a].msg = TopOf(st)
          BY <1>4, <3>1, Zenon DEF TopOf, z
        <4>2. Window(BodyOf(h), EndAt(tt, L, a + 1), EndAt(tt, L, a)) =
                Window(BodyOf(h), c + s, EndOf(h, st))
          BY <1>3, <1>5, <1>6, <3>1, Zenon
        <4>. QED
          BY <4>1, <4>2, Zenon DEF Around, L
      <3>2. CASE a # z
        <4>1. a \in 1 .. (z - 1) /\ a + 1 \in DOMAIN st
          BY <1>0, <3>2
        <4>2. Around(h, st, who, got, a)
          BY <1>1, <4>1, Zenon DEF z
        <4>3. EndAt(tt, L, a + 1) = EndAt(st, L, a + 1)
              /\ EndAt(tt, L, a) = EndAt(st, L, a) /\ tt[a] = st[a]
          BY <1>3, <1>4, <4>1, Zenon
        <4>. QED
          BY <4>2, <4>3, Zenon DEF Around, L
      <3>. QED
        BY <3>1, <3>2
    <2>. QED
      BY <2>1, <2>2, Zenon
  <1>12. tt # <<>> /\ tt[1].msg = 1 /\ tt[1].start = 0 /\ tt[1].size = SIZE_MAX
    <2>1. tt # <<>>
      <3>1. Len(tt) # 0
        BY <1>0, <1>4
      <3>2. Len(<<>>) = 0
        OBVIOUS
      <3>. QED
        BY <3>1, <3>2, Zenon
    <2>2. 1 \in DOMAIN st
      BY <1>1, Zenon
    <2>. QED
      BY <1>1, <1>4, <2>1, <2>2, Zenon
  <1>13. c \in Nat /\ c <= EndOf(h, tt)
    <2>1. c <= c + s
      BY <1>0
    <2>. QED
      BY <1>0, <1>5, <2>1, Zenon
  <1>14. Activations(h, hp, tt, who, got, c)
    BY <1>4, <1>8, <1>10, <1>11, <1>12, <1>13, ActivationsIf, Zenon DEF L
  <1>. QED
    BY <1>14, Zenon DEF tt

\* A call of DecodeMessage returns.
ReturnedTo(st, tt) ==
    /\ IsSeq(tt) /\ DOMAIN tt = 1 .. (Len(st) - 1) /\ Len(tt) = Len(st) - 1
    /\ \A a \in DOMAIN tt : tt[a] = st[a]

LEMMA FrontReturns ==
    ASSUME NEW st, IsSeq(st), Len(st) # 0
    PROVE  ReturnedTo(st, SubSeq(st, 1, Len(st) - 1))
  <1> DEFINE t == SubSeq(st, 1, Len(st) - 1)
  <1>1. /\ IsSeq(t)
        /\ Len(t) = Len(st) - 1
        /\ DOMAIN t = 1 .. Len(st) - 1
        /\ \A i \in 1 .. Len(st) - 1 : t[i] = st[i]
    BY IsSeqFront
  <1>. QED
    BY <1>1, Zenon DEF ReturnedTo

PopOK(h, hp, st, who, got, c, tt) ==
    /\ Activations(h, hp, tt, who, got, c)
    /\ Window(BodyOf(h), c, EndOf(h, tt)) = Left(h, who, got, TopOf(tt))
    /\ \A n : OnStack(st, n) <=> OnStack(tt, n) \/ n = TopOf(st)
    /\ ~ OnStack(tt, TopOf(st))

LEMMA ActivationsPop ==
    ASSUME NEW h, Enc!SizableMessages(h), NEW hp, NEW st, NEW who, NEW got,
           NEW c, Activations(h, hp, st, who, got, c),
           Len(st) # 1, c = EndOf(h, st)
    PROVE  PopOK(h, hp, st, who, got, c, SubSeq(st, 1, Len(st) - 1))
  <1> DEFINE L == Len(BodyOf(h))
             z == Len(st)
             tt == SubSeq(st, 1, Len(st) - 1)
  <1>1. /\ IsSeq(st) /\ st # <<>>
        /\ st[1].msg = 1 /\ st[1].start = 0 /\ st[1].size = SIZE_MAX
        /\ c \in Nat
        /\ \A a \in DOMAIN st :
             /\ st[a].msg \in DOMAIN hp
             /\ st[a].start \in Nat /\ st[a].size \in Nat
             /\ st[a].start <= c
             /\ EndAt(st, L, a) <= L
             /\ EndAt(st, L, a) \in Nat
        /\ \A a, b \in DOMAIN st :
             /\ st[a].msg = st[b].msg => a = b
             /\ a <= b => EndAt(st, L, b) <= EndAt(st, L, a)
        /\ \A a \in 1 .. (z - 1) : Around(h, st, who, got, a)
        /\ z \in Nat \ {0} /\ DOMAIN st = 1 .. z
    BY ActivationsAre
  <1>2. ReturnedTo(st, tt)
    <2>1. IsSeq(st) /\ Len(st) # 0
      BY <1>1
    <2>. QED
      BY <2>1, FrontReturns
  <1> HIDE DEF L, tt
  <1>3. /\ IsSeq(tt) /\ DOMAIN tt = 1 .. (z - 1) /\ Len(tt) = z - 1
        /\ \A a \in DOMAIN tt : tt[a] = st[a]
    BY <1>2, Zenon DEF ReturnedTo
  <1>4. EndAt(st, L, z) = c
    BY Zenon DEF EndOf, L
  <1>5. z # 1
    OBVIOUS
  <1>0. z \in Nat \ {0} /\ DOMAIN st = 1 .. z /\ c \in Nat
    BY <1>1, Zenon
  <1> HIDE DEF z
  <1>6. /\ DOMAIN tt \subseteq DOMAIN st
        /\ z - 1 \in DOMAIN tt /\ 1 \in DOMAIN tt
        /\ z - 1 \in DOMAIN st /\ z \in DOMAIN st
        /\ (z - 1) + 1 = z /\ z - 1 <= z
        /\ \A a \in DOMAIN st : a \in DOMAIN tt \/ a = z
        /\ z \notin DOMAIN tt
    BY <1>0, <1>3, <1>5
  <1>7. \A a \in DOMAIN tt : EndAt(tt, L, a) = EndAt(st, L, a)
    BY <1>3, Zenon DEF EndAt
  <1>8. EndOf(h, tt) = EndAt(st, L, z - 1)
    BY <1>3, <1>6, <1>7, Zenon DEF EndOf, L
  <1>9. TopOf(tt) = st[z - 1].msg
    BY <1>3, <1>6, Zenon DEF TopOf
  <1>10. c <= EndOf(h, tt)
    <2>1. \A a, b \in DOMAIN st : a <= b => EndAt(st, L, b) <= EndAt(st, L, a)
      BY <1>1, Zenon
    <2>2. EndAt(st, L, z) <= EndAt(st, L, z - 1)
      BY <1>6, <2>1, Zenon
    <2>. QED
      BY <1>4, <1>8, <2>2, Zenon
  <1>11. \A a \in DOMAIN tt :
            /\ tt[a].msg \in DOMAIN hp
            /\ tt[a].start \in Nat /\ tt[a].size \in Nat
            /\ tt[a].start <= c
            /\ EndAt(tt, L, a) <= L
    BY <1>1, <1>3, <1>6, <1>7, Zenon
  <1>12. \A a, b \in DOMAIN tt :
            /\ tt[a].msg = tt[b].msg => a = b
            /\ a <= b => EndAt(tt, L, b) <= EndAt(tt, L, a)
    <2>1. \A a, b \in DOMAIN st : st[a].msg = st[b].msg => a = b
      BY <1>1, Zenon
    <2>2. \A a, b \in DOMAIN st : a <= b => EndAt(st, L, b) <= EndAt(st, L, a)
      BY <1>1, Zenon
    <2>3. ASSUME NEW a \in DOMAIN tt, NEW b \in DOMAIN tt
          PROVE  /\ tt[a].msg = tt[b].msg => a = b
                 /\ a <= b => EndAt(tt, L, b) <= EndAt(tt, L, a)
      <3>1. a \in DOMAIN st /\ b \in DOMAIN st
        BY <1>6, Zenon
      <3>2. tt[a] = st[a] /\ tt[b] = st[b]
        BY <1>3, Zenon
      <3>3. EndAt(tt, L, a) = EndAt(st, L, a) /\ EndAt(tt, L, b) = EndAt(st, L, b)
        BY <1>7, Zenon
      <3>. QED
        BY <2>1, <2>2, <3>1, <3>2, <3>3, Zenon
    <2>. QED
      BY <2>3, Zenon
  <1>13. \A a \in 1 .. (Len(tt) - 1) : Around(h, tt, who, got, a)
    <2>1. \A a \in 1 .. ((z - 1) - 1) :
            a \in DOMAIN tt /\ a + 1 \in DOMAIN tt /\ a \in 1 .. (z - 1)
      BY <1>0, <1>3
    <2>2. ASSUME NEW a \in 1 .. ((z - 1) - 1)
          PROVE  Around(h, tt, who, got, a)
      <3>1. a \in DOMAIN tt /\ a + 1 \in DOMAIN tt /\ a \in 1 .. (z - 1)
        BY <2>1
      <3>2. Around(h, st, who, got, a)
        BY <1>1, <3>1, Zenon DEF z
      <3>3. EndAt(tt, L, a + 1) = EndAt(st, L, a + 1)
            /\ EndAt(tt, L, a) = EndAt(st, L, a) /\ tt[a] = st[a]
        BY <1>3, <1>7, <3>1, Zenon
      <3>. QED
        BY <3>2, <3>3, Zenon DEF Around, L
    <2>. QED
      BY <1>3, <2>2, Zenon
  <1>14. tt # <<>> /\ tt[1].msg = 1 /\ tt[1].start = 0 /\ tt[1].size = SIZE_MAX
    <2>1. tt # <<>>
      BY <1>6
    <2>. QED
      BY <1>1, <1>3, <1>6, <2>1, Zenon
  <1>15. Activations(h, hp, tt, who, got, c)
    BY <1>0, <1>3, <1>10, <1>11, <1>12, <1>13, <1>14, ActivationsIf, Zenon DEF L
  <1>16. Window(BodyOf(h), c, EndOf(h, tt)) = Left(h, who, got, TopOf(tt))
    <2>1. z - 1 \in 1 .. (z - 1)
      BY <1>3, <1>6, Zenon
    <2>2. Around(h, st, who, got, z - 1)
      BY <1>1, <2>1, Zenon DEF z
    <2>3. Window(BodyOf(h), EndAt(st, L, z), EndAt(st, L, z - 1))
            = Left(h, who, got, st[z - 1].msg)
      BY <1>6, <2>2, Zenon DEF Around, L
    <2>. QED
      BY <1>4, <1>8, <1>9, <2>3, Zenon
  <1>17. TopOf(st) = st[z].msg
    BY Zenon DEF TopOf, z
  <1>18. \A n : OnStack(st, n) <=> OnStack(tt, n) \/ n = TopOf(st)
    BY <1>3, <1>6, <1>17, Zenon DEF OnStack
  <1>19. ~ OnStack(tt, TopOf(st))
    <2>1. ASSUME NEW a \in DOMAIN tt, tt[a].msg = TopOf(st)
          PROVE  FALSE
      <3>1. a \in DOMAIN st /\ st[a].msg = st[z].msg
        BY <1>3, <1>6, <1>17, <2>1, Zenon
      <3>. QED
        BY <1>1, <1>6, <2>1, <3>1, Zenon
    <2>. QED
      BY <2>1, Zenon DEF OnStack
  <1>20. PopOK(h, hp, st, who, got, c, tt)
    BY <1>15, <1>16, <1>18, <1>19, Zenon DEF PopOK
  <1>. QED
    BY <1>20, Zenon DEF tt

-----------------------------------------------------------------------------
(* The bytes of a number.                                                  *)

\* It has been read: win are the bytes of m that follow it.
NumberDone(h, m, d, i, win, w) ==
    /\ i \in FieldsOf(h, m) /\ d[i] + 1 <= Len(Elems(h, m, i))
    /\ Numbered(h, m, i, d[i] + 1, w)
    /\ win = Pay(h, m, i, d[i] + 1) \o Rest(h, m, Further(d, i))

\* What its next byte b leaves.
NumberReads(h, m, d, i, win, call, b) ==
    /\ ~ Overflows(call, b)
    /\ ~ Ends(call, b) => AtNumber(h, m, d, i, win, Feed(call, b))
    /\ Ends(call, b) => NumberDone(h, m, d, i, win, Feed(call, b).acc)

LEMMA RestTyped ==
    ASSUME NEW h, Enc!SizableMessages(h), NEW m \in DOMAIN h, NEW d
    PROVE  Rest(h, m, d) \in Seq(Byte)
  BY FieldsToComeTyped

HeadOf(s, c, e, x, y) ==
    /\ c + 1 <= e
    /\ s[c + 1] = Head(x)
    /\ Window(s, c + 1, e) = Tail(x) \o y
    /\ Head(x) \in Byte
    /\ Tail(x) \in Seq(Byte)

Ordered(s, c, e) == c \in Nat /\ e \in Nat /\ c <= e /\ e <= Len(s)

LEMMA WindowHeadOf ==
    ASSUME NEW s \in Seq(Byte), NEW c, NEW e, Ordered(s, c, e),
           NEW x \in Seq(Byte), x # <<>>, NEW y \in Seq(Byte),
           Window(s, c, e) = x \o y
    PROVE  HeadOf(s, c, e, x, y)
  <1>0. c \in Nat /\ e \in Nat /\ c <= e /\ e <= Len(s)
    BY Zenon DEF Ordered
  <1>1. /\ x \o y = <<Head(x)>> \o (Tail(x) \o y)
        /\ Head(x) \in Byte
        /\ Tail(x) \in Seq(Byte)
        /\ Tail(x) \o y \in Seq(Byte)
    BY ConsConcat
  <1> DEFINE b == Head(x)
             z == Tail(x) \o y
  <1>2. Window(s, c, e) = <<b>> \o z /\ b \in Byte /\ z \in Seq(Byte)
    BY <1>1
  <1> HIDE DEF b, z
  <1>3. BeginsWith(s, c, e, b, z)
    BY <1>0, <1>2, WindowCons
  <1>. QED
    BY <1>1, <1>3, Zenon DEF b, z, BeginsWith, HeadOf

LEMMA NumberNext ==
    ASSUME NEW h, Enc!SizableMessages(h), NEW m \in DOMAIN h, NEW d, NEW i,
           NEW s \in Seq(Byte), NEW c, NEW e, Ordered(s, c, e),
           NEW call, AtNumber(h, m, d, i, Window(s, c, e), call)
    PROVE  /\ c + 1 <= e
           /\ s[c + 1] \in Byte
           /\ NumberReads(h, m, d, i, Window(s, c + 1, e), call, s[c + 1])
  <1> DEFINE p == Pay(h, m, i, d[i] + 1)
             y == p \o Rest(h, m, Further(d, i))
  <1>1. PICK r, w :
            /\ Numbered(h, m, i, d[i] + 1, w)
            /\ Reading(call, r, w)
            /\ Window(s, c, e) = r \o y
    BY Zenon DEF AtNumber
  <1>2. /\ i \in FieldsOf(h, m) /\ d[i] + 1 <= Len(Elems(h, m, i))
        /\ call \in ReadCalls
    BY Zenon DEF AtNumber
  <1>3. w \in 0 .. (U64 - 1) /\ p \in Seq(Byte)
    BY <1>1, Zenon DEF Numbered
  <1>4. y \in Seq(Byte)
    BY <1>3, RestTyped, ConcatEmpty, Zenon
  <1> HIDE DEF y, p
  <1>5. /\ r \in Seq(Byte) /\ r # <<>>
        /\ Feed(call, Head(r)) \in ReadCalls
        /\ ~ Overflows(call, Head(r))
        /\ Ends(call, Head(r)) <=> Tail(r) = <<>>
        /\ Ends(call, Head(r)) => Feed(call, Head(r)).acc = w
        /\ ~ Ends(call, Head(r)) => Reading(Feed(call, Head(r)), Tail(r), w)
    BY <1>1, <1>2, <1>3, ReadingNext
  <1>6. /\ c + 1 <= e
        /\ s[c + 1] = Head(r)
        /\ Window(s, c + 1, e) = Tail(r) \o y
        /\ Head(r) \in Byte
        /\ Tail(r) \in Seq(Byte)
    <2>1. r \in Seq(Byte) /\ r # <<>> /\ y \in Seq(Byte)
          /\ Window(s, c, e) = r \o y
      BY <1>1, <1>4, <1>5, Zenon
    <2>2. HeadOf(s, c, e, r, y)
      BY <2>1, WindowHeadOf
    <2>. QED
      BY <2>2, Zenon DEF HeadOf
  <1> DEFINE b == Head(r)
             z == Tail(r)
             win == Window(s, c + 1, e)
  <1> HIDE DEF b, z, win
  <1>7. ASSUME ~ Ends(call, b)
        PROVE  AtNumber(h, m, d, i, win, Feed(call, b))
    <2>1. Reading(Feed(call, b), z, w) /\ win = z \o y
          /\ Feed(call, b) \in ReadCalls
      BY <1>5, <1>6, <1>7, Zenon DEF b, z, win
    <2>. QED
      BY <1>1, <1>2, <2>1, Zenon DEF AtNumber, y, p
  <1>8. ASSUME Ends(call, b)
        PROVE  NumberDone(h, m, d, i, win, Feed(call, b).acc)
    <2>1. z = <<>> /\ Feed(call, b).acc = w /\ win = z \o y
      BY <1>5, <1>6, <1>8, Zenon DEF b, z, win
    <2>2. <<>> \o y = y
      BY <1>4, ConcatEmpty
    <2>3. win = y
      BY <2>1, <2>2, Zenon
    <2>. QED
      BY <1>1, <1>2, <2>1, <2>3, Zenon DEF NumberDone, y, p
  <1>9. NumberReads(h, m, d, i, win, call, b)
    BY <1>5, <1>7, <1>8, Zenon DEF NumberReads, b
  <1>. QED
    BY <1>6, <1>9, Zenon DEF b, win

\* And the bytes of a payload.
PayloadReads(h, m, d, i, win, call, q) ==
    /\ call.left = Len(q) /\ Len(q) \in Nat \ {0}
    /\ call.left = 1 <=> Tail(q) = <<>>
    /\ call.left = 1 => win = Rest(h, m, Further(d, i))
    /\ call.left # 1 => AtPayload(h, m, d, i, win, NewFixed(call.left - 1), Tail(q))

LEMMA PayloadNext ==
    ASSUME NEW h, Enc!SizableMessages(h), NEW m \in DOMAIN h, NEW d, NEW i,
           NEW s \in Seq(Byte), NEW c, NEW e, Ordered(s, c, e),
           NEW call, NEW q, AtPayload(h, m, d, i, Window(s, c, e), call, q)
    PROVE  /\ c + 1 <= e
           /\ s[c + 1] = Head(q) /\ Head(q) \in Byte
           /\ PayloadReads(h, m, d, i, Window(s, c + 1, e), call, q)
  <1> DEFINE y == Rest(h, m, Further(d, i))
             win == Window(s, c + 1, e)
  <1>1. /\ i \in FieldsOf(h, m) /\ d[i] + 1 <= Len(Elems(h, m, i))
        /\ q \in Seq(Byte) /\ q # <<>>
        /\ call = NewFixed(Len(q))
        /\ Window(s, c, e) = q \o y
    BY Zenon DEF AtPayload
  <1>2. y \in Seq(Byte)
    BY RestTyped
  <1> HIDE DEF y
  <1>3. /\ c + 1 <= e
        /\ s[c + 1] = Head(q)
        /\ win = Tail(q) \o y
        /\ Head(q) \in Byte
        /\ Tail(q) \in Seq(Byte)
    <2>1. q \in Seq(Byte) /\ q # <<>> /\ y \in Seq(Byte)
          /\ Window(s, c, e) = q \o y
      BY <1>1, <1>2, Zenon
    <2>2. HeadOf(s, c, e, q, y)
      BY <2>1, WindowHeadOf
    <2>. QED
      BY <2>2, Zenon DEF HeadOf, win
  <1> HIDE DEF win
  <1>4. Len(Tail(q)) = Len(q) - 1
    BY <1>1, HeadAndTail
  <1>5. Len(q) \in Nat \ {0} /\ (Len(q) = 1 <=> Tail(q) = <<>>)
    <2>1. Len(q) \in Nat /\ Len(q) # 0
      BY <1>1
    <2>2. Tail(q) = <<>> <=> Len(Tail(q)) = 0
      BY <1>3, EmptySeq
    <2>. QED
      BY <1>4, <2>1, <2>2
  <1>6. call.left = Len(q)
    BY <1>1 DEF NewFixed
  <1>7. Tail(q) = <<>> => win = y
    <2>1. <<>> \o y = y
      BY <1>2, ConcatEmpty
    <2>. QED
      BY <1>3, <2>1, Zenon
  <1>8. ASSUME Tail(q) # <<>>
        PROVE  AtPayload(h, m, d, i, win, NewFixed(call.left - 1), Tail(q))
    <2>1. NewFixed(call.left - 1) = NewFixed(Len(Tail(q)))
      BY <1>4, <1>6, Zenon
    <2>. QED
      BY <1>1, <1>3, <1>8, <2>1, Zenon DEF AtPayload, y
  <1>9. PayloadReads(h, m, d, i, win, call, q)
    BY <1>5, <1>6, <1>7, <1>8, Zenon DEF PayloadReads, y
  <1>. QED
    BY <1>3, <1>9, Zenon DEF win

=============================================================================
