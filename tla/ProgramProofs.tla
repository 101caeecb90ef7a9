--------------------------- MODULE ProgramProofs ---------------------------
(***************************************************************************)
(* What holds of every program that is built from what the generator       *)
(* writes, whatever the request: nothing of it is missing, its headers     *)
(* compile, and its Descriptors and Reflections are created once, complete *)
(* and in agreement.  The first part is about requests and the generator:  *)
(* it prints everything that their .proto files declare, in an order that  *)
(* the C++ compiler accepts.  The second is about the lazy objects of the  *)
(* program that has been linked.                                           *)
(***************************************************************************)
EXTENDS Program, Induction

-----------------------------------------------------------------------------
(* Sequences. *)

LEMMA IsSequence ==
    ASSUME NEW s, Gen!IsSeq(s)
    PROVE  /\ Len(s) \in Nat /\ DOMAIN s = 1 .. Len(s)
           /\ s = <<>> <=> Len(s) = 0
           /\ \A i \in 1 .. Len(s) : s[i] \in Gen!Range(s)
           /\ \A x : x \in Gen!Range(s) <=> \E i \in 1 .. Len(s) : s[i] = x
<1>1. s \in Seq(Gen!Range(s))
  BY DEF Gen!IsSeq
<1>2. Len(s) \in Nat /\ DOMAIN s = 1 .. Len(s) /\ (s = <<>> <=> Len(s) = 0)
  BY <1>1
<1>. QED
  BY <1>2 DEF Gen!Range

LEMMA IndexOf ==
    ASSUME NEW s, Gen!IsSeq(s), NEW x \in Gen!Range(s)
    PROVE  \E i \in 1 .. Len(s) : s[i] = x
  BY IsSequence

LEMMA SequenceOf ==
    ASSUME NEW S, NEW s \in Seq(S)
    PROVE  Gen!IsSeq(s) /\ Gen!Range(s) \subseteq S
<1>1. \A i \in 1 .. Len(s) : s[i] \in Gen!Range(s) /\ s[i] \in S
  BY DEF Gen!Range
<1>2. s \in Seq(Gen!Range(s))
  BY <1>1
<1>. QED
  BY <1>1, <1>2 DEF Gen!IsSeq, Gen!Range

LEMMA Empty ==
    Gen!IsSeq(<<>>) /\ Gen!Range(<<>>) = {}
<1>1. Gen!Range(<<>>) = {}
  BY DEF Gen!Range
<1>. QED
  BY <1>1 DEF Gen!IsSeq

LEMMA Appended ==
    ASSUME NEW s, Gen!IsSeq(s), NEW x
    PROVE  /\ Gen!IsSeq(Append(s, x))
           /\ Len(Append(s, x)) = Len(s) + 1
           /\ Append(s, x)[Len(s) + 1] = x
           /\ \A i \in 1 .. Len(s) : Append(s, x)[i] = s[i]
           /\ Gen!Range(Append(s, x)) = Gen!Range(s) \cup {x}
<1>. DEFINE S == Gen!Range(s) \cup {x}
<1>1. s \in Seq(S) /\ x \in S
  <2>1. s \in Seq(Gen!Range(s))
    BY DEF Gen!IsSeq
  <2>. QED
    BY <2>1
<1>2. \A y \in S : y = x \/ \E i \in 1 .. Len(s) : s[i] = y
  BY IsSequence
<1>. HIDE DEF S
<1>3. /\ Append(s, x) \in Seq(S) /\ Len(Append(s, x)) = Len(s) + 1
      /\ Append(s, x)[Len(s) + 1] = x
      /\ \A i \in 1 .. Len(s) : Append(s, x)[i] = s[i]
  BY <1>1
<1>4. Gen!IsSeq(Append(s, x)) /\ Gen!Range(Append(s, x)) \subseteq S
  BY <1>3, SequenceOf
<1>5. Len(s) \in Nat
  BY <1>1
<1>6. ASSUME NEW y \in S PROVE y \in Gen!Range(Append(s, x))
  <2>1. \E i \in 1 .. Len(Append(s, x)) : Append(s, x)[i] = y
    BY <1>2, <1>3, <1>5
  <2>. QED
    BY <1>4, <2>1, IsSequence
<1>7. Gen!Range(Append(s, x)) = S
  BY <1>4, <1>6
<1>. QED
  BY <1>3, <1>4, <1>7 DEF S

LEMMA TailOf ==
    ASSUME NEW s, Gen!IsSeq(s), s # <<>>
    PROVE  /\ Gen!IsSeq(Tail(s)) /\ Len(Tail(s)) = Len(s) - 1
           /\ Head(s) = s[1]
           /\ \A i \in 1 .. Len(Tail(s)) : Tail(s)[i] = s[i + 1]
           /\ Gen!Range(s) = {Head(s)} \cup Gen!Range(Tail(s))
<1>1. s \in Seq(Gen!Range(s))
  BY DEF Gen!IsSeq
<1>2. /\ Tail(s) \in Seq(Gen!Range(s)) /\ Len(Tail(s)) = Len(s) - 1
      /\ Head(s) = s[1] /\ Len(s) \in Nat \ {0}
      /\ \A i \in 1 .. Len(Tail(s)) : Tail(s)[i] = s[i + 1]
  BY <1>1
<1>3. Gen!IsSeq(Tail(s)) /\ Gen!Range(Tail(s)) \subseteq Gen!Range(s)
  BY <1>2, SequenceOf
<1>4. Head(s) \in Gen!Range(s)
  BY <1>2, IsSequence
<1>5. ASSUME NEW x \in Gen!Range(s), x # Head(s)
      PROVE  x \in Gen!Range(Tail(s))
  <2>1. PICK i \in 1 .. Len(s) : s[i] = x
    BY IsSequence
  <2>2. i # 1
    BY <1>2, <1>5, <2>1
  <2>3. i - 1 \in 1 .. Len(Tail(s)) /\ (i - 1) + 1 = i
    BY <1>2, <2>1, <2>2
  <2>4. Tail(s)[i - 1] = x
    BY <1>2, <2>1, <2>3
  <2>. QED
    BY <1>3, <2>3, <2>4, IsSequence
<1>. QED
  BY <1>2, <1>3, <1>4, <1>5

WithLast(s, x) == [s EXCEPT ![Len(s)] = x]

LEMMA LastReplaced ==
    ASSUME NEW s, Gen!IsSeq(s), s # <<>>, NEW x
    PROVE  /\ Gen!IsSeq(WithLast(s, x)) /\ Len(WithLast(s, x)) = Len(s)
           /\ WithLast(s, x)[Len(s)] = x
           /\ \A i \in 1 .. Len(s) : i # Len(s) => WithLast(s, x)[i] = s[i]
<1>. DEFINE S == Gen!Range(s) \cup {x}
            t == WithLast(s, x)
<1>1. s \in Seq(S) /\ x \in S
  <2>1. s \in Seq(Gen!Range(s))
    BY DEF Gen!IsSeq
  <2>. QED
    BY <2>1
<1>. HIDE DEF S
<1>2. Len(s) \in Nat \ {0}
  BY <1>1
<1>3. /\ t \in Seq(S) /\ Len(t) = Len(s) /\ t[Len(s)] = x
      /\ \A i \in 1 .. Len(s) : i # Len(s) => t[i] = s[i]
  BY <1>1, <1>2 DEF WithLast
<1>. QED
  BY <1>3, SequenceOf

LEMMA LastRemoved ==
    ASSUME NEW s, Gen!IsSeq(s), s # <<>>
    PROVE  /\ Gen!IsSeq(Front(s)) /\ Len(Front(s)) = Len(s) - 1
           /\ \A i \in 1 .. Len(s) - 1 : Front(s)[i] = s[i]
<1>. DEFINE n == Len(s) - 1
            S == Gen!Range(s)
<1>1. s \in Seq(S)
  BY DEF Gen!IsSeq
<1>. HIDE DEF S
<1>2. n \in Nat /\ n <= Len(s)
  BY <1>1
<1>. HIDE DEF n
<1>3. SubSeq(s, 1, n) \in Seq(S)
  BY <1>1, <1>2
<1>4. Len(SubSeq(s, 1, n)) = n
  BY <1>1, <1>2
<1>5. \A i \in 1 .. n : SubSeq(s, 1, n)[i] = s[i]
  BY <1>1, <1>2
<1>6. Front(s) = SubSeq(s, 1, n)
  BY DEF n, Front
<1>. QED
  BY <1>3, <1>4, <1>5, <1>6, SequenceOf DEF n

-----------------------------------------------------------------------------
(* Requests. *)

LEMMA Messages ==
    ASSUME NEW r, Gen!WellFormed(r)
    PROVE  /\ Len(r.msg) \in Nat /\ DOMAIN r.msg = 1 .. Len(r.msg)
           /\ \A m \in DOMAIN r.msg :
                /\ Gen!Declares(r, r.msg[m].nested)
                /\ Gen!IsSeq(r.msg[m].enums) /\ Gen!IsSeq(r.msg[m].fields)
                /\ \A n \in Gen!Range(r.msg[m].nested) : m < n
           /\ \A f \in DOMAIN r.file :
                Gen!Declares(r, r.file[f].messages) /\ Gen!IsSeq(r.file[f].enums)
<1>1. Gen!IsSeq(r.msg)
  BY DEF Gen!WellFormed
<1>2. Len(r.msg) \in Nat /\ DOMAIN r.msg = 1 .. Len(r.msg)
  BY <1>1, IsSequence
<1>. QED
  BY <1>2 DEF Gen!WellFormed

LEMMA Declared ==
    ASSUME NEW r, NEW s, Gen!Declares(r, s)
    PROVE  Gen!IsSeq(s) /\ Gen!Range(s) \subseteq DOMAIN r.msg
  BY SequenceOf DEF Gen!Declares

LEMMA OnePlace ==
    ASSUME NEW r, Gen!WellFormed(r), NEW m \in DOMAIN r.msg
    PROVE  \/ /\ Gen!Outer(r, m) = {}
              /\ \E f \in DOMAIN r.file : \A g \in DOMAIN r.file :
                    m \in Gen!Range(r.file[g].messages) <=> g = f
           \/ /\ \A g \in DOMAIN r.file : m \notin Gen!Range(r.file[g].messages)
              /\ \E p \in DOMAIN r.msg : Gen!Outer(r, m) = {p}
<1>. DEFINE files == {f \in DOMAIN r.file : m \in Gen!Range(r.file[f].messages)}
<1>1. \/ Gen!Outer(r, m) = {} /\ \E f \in DOMAIN r.file : files = {f}
      \/ files = {} /\ \E p \in DOMAIN r.msg : Gen!Outer(r, m) = {p}
  BY DEF Gen!WellFormed
<1>. QED
  BY <1>1

Parent(r, m) == CHOOSE p \in Gen!Outer(r, m) : TRUE

LEMMA ParentIs ==
    ASSUME NEW r, Gen!WellFormed(r), NEW m \in DOMAIN r.msg,
           Gen!Outer(r, m) # {}
    PROVE  /\ Parent(r, m) \in DOMAIN r.msg
           /\ m \in Gen!Range(r.msg[Parent(r, m)].nested)
           /\ Parent(r, m) < m
<1>1. Parent(r, m) \in Gen!Outer(r, m)
  BY DEF Parent
<1>. QED
  BY <1>1, Messages DEF Gen!Outer

LEMMA NestedIn ==
    ASSUME NEW r, Gen!WellFormed(r), NEW p \in DOMAIN r.msg,
           NEW m \in Gen!Range(r.msg[p].nested)
    PROVE  /\ m \in DOMAIN r.msg /\ p < m
           /\ Gen!Outer(r, m) # {} /\ Parent(r, m) = p
<1>1. m \in DOMAIN r.msg /\ p < m
  BY Messages, Declared
<1>2. p \in Gen!Outer(r, m)
  BY <1>1 DEF Gen!Outer
<1>3. \E q : Gen!Outer(r, m) = {q}
  BY <1>1, <1>2, OnePlace
<1>. QED
  BY <1>1, <1>2, <1>3 DEF Parent

LEMMA OnTop ==
    ASSUME NEW r, Gen!WellFormed(r), NEW f \in DOMAIN r.file,
           NEW m \in Gen!Range(r.file[f].messages)
    PROVE  m \in DOMAIN r.msg /\ Gen!Outer(r, m) = {}
<1>1. m \in DOMAIN r.msg
  BY Messages, Declared
<1>. QED
  BY <1>1, OnePlace

-----------------------------------------------------------------------------
(* The recursive definition of Chain. *)

ChainBody(r, g, m) ==
    IF Gen!Outer(r, m) = {} THEN <<m>>
    ELSE Append(g[CHOOSE p \in Gen!Outer(r, m) : TRUE], m)

Upto(r, k) == {m \in DOMAIN r.msg : m <= k}

\* g is the function Chain, up to the message k.
ChainsUpto(r, g, k) == g = [m \in Upto(r, k) |-> ChainBody(r, g, m)]

IsChains(r, g) == g = [m \in DOMAIN r.msg |-> ChainBody(r, g, m)]

ChainsWith(r, g, k) ==
    [m \in Upto(r, k) |-> IF m = k THEN ChainBody(r, g, m) ELSE g[m]]

LEMMA NextChain ==
    ASSUME NEW r, Gen!WellFormed(r), NEW k \in Nat, NEW g, ChainsUpto(r, g, k)
    PROVE  ChainsUpto(r, ChainsWith(r, g, k + 1), k + 1)
<1>. DEFINE h == ChainsWith(r, g, k + 1)
<1>1. DOMAIN r.msg \subseteq Nat
  BY Messages
<1>2. ASSUME NEW m \in Upto(r, k)
      PROVE  m \in Upto(r, k + 1) /\ h[m] = g[m]
  <2>1. m \in Upto(r, k + 1) /\ m # k + 1
    BY <1>1 DEF Upto
  <2>. QED
    BY <2>1 DEF ChainsWith
<1>3. ASSUME NEW m \in Upto(r, k + 1)
      PROVE  h[m] = IF m = k + 1 THEN ChainBody(r, g, m) ELSE g[m]
  BY <1>3 DEF ChainsWith
<1>4. ASSUME NEW m \in Upto(r, k + 1)
      PROVE  ChainBody(r, h, m) = ChainBody(r, g, m)
  <2>1. CASE Gen!Outer(r, m) = {}
    BY <2>1 DEF ChainBody
  <2>2. CASE Gen!Outer(r, m) # {}
    <3>1. m \in DOMAIN r.msg /\ m <= k + 1 /\ m \in Nat
      BY <1>1 DEF Upto
    <3>2. Parent(r, m) \in DOMAIN r.msg /\ Parent(r, m) < m
      BY <2>2, <3>1, ParentIs
    <3>3. Parent(r, m) \in Upto(r, k)
      BY <1>1, <3>1, <3>2 DEF Upto
    <3>4. h[Parent(r, m)] = g[Parent(r, m)]
      BY <1>2, <3>3
    <3>. QED
      BY <3>4, Zenon DEF ChainBody, Parent
  <2>. QED
    BY <2>1, <2>2
<1>5. ASSUME NEW m \in Upto(r, k + 1)
      PROVE  h[m] = ChainBody(r, h, m)
  <2>1. CASE m = k + 1
    BY <1>3, <1>4, <2>1
  <2>2. CASE m # k + 1
    <3>1. m \in Upto(r, k)
      BY <1>1, <2>2 DEF Upto
    <3>2. g[m] = ChainBody(r, g, m)
      BY <3>1, Zenon DEF ChainsUpto
    <3>. QED
      BY <1>3, <1>4, <2>2, <3>2
  <2>. QED
    BY <2>1, <2>2
<1>6. h = [m \in Upto(r, k + 1) |-> h[m]]
  BY DEF ChainsWith
<1>. QED
  BY <1>5, <1>6, Zenon DEF ChainsUpto

LEMMA ChainsExist ==
    ASSUME NEW r, Gen!WellFormed(r)
    PROVE  \E g : IsChains(r, g)
<1>. DEFINE T == {k \in Nat : \E g : ChainsUpto(r, g, k)}
<1>1. Len(r.msg) \in Nat /\ DOMAIN r.msg = 1 .. Len(r.msg)
  BY Messages
<1>2. 0 \in T
  <2>1. Upto(r, 0) = {}
    BY <1>1 DEF Upto
  <2>. DEFINE none == [m \in {} |-> 0]
  <2>2. none = [m \in Upto(r, 0) |-> ChainBody(r, none, m)]
    BY <2>1
  <2>3. ChainsUpto(r, none, 0)
    BY <2>2, Zenon DEF ChainsUpto
  <2>. QED
    BY <2>3
<1>3. ASSUME NEW k \in Nat, k \in T
      PROVE  k + 1 \in T
  BY <1>3, NextChain
<1>4. Len(r.msg) \in T
  <2>. HIDE DEF T
  <2>. QED
    BY <1>1, <1>2, <1>3, SimpleInduction
<1>5. PICK g : ChainsUpto(r, g, Len(r.msg))
  BY <1>4
<1>6. Upto(r, Len(r.msg)) = DOMAIN r.msg
  BY <1>1 DEF Upto
<1>. QED
  BY <1>5, <1>6, Zenon DEF ChainsUpto, IsChains

LEMMA ChainAt ==
    ASSUME NEW r, Gen!WellFormed(r), NEW m \in DOMAIN r.msg
    PROVE  Gen!Chain(r)[m] = IF Gen!Outer(r, m) = {} THEN <<m>>
                             ELSE Append(Gen!Chain(r)[Parent(r, m)], m)
<1>1. Gen!Chain(r) = CHOOSE g : IsChains(r, g)
  BY Zenon DEF Gen!Chain, IsChains, ChainBody
<1>2. IsChains(r, Gen!Chain(r))
  BY <1>1, ChainsExist, Zenon
<1>. QED
  BY <1>2, Zenon DEF IsChains, ChainBody, Parent

\* A chain goes from a top-level message down to m, and the chain of each
\* message on it is its beginning.
ChainOK(r, m) ==
    LET c == Gen!Chain(r)[m]
    IN  /\ c \in Seq(DOMAIN r.msg) /\ Len(c) \in Nat \ {0} /\ c[Len(c)] = m
        /\ Gen!Outer(r, c[1]) = {}
        /\ \A i \in 1 .. Len(c) : c[i] <= m
        /\ \A i \in 1 .. Len(c) - 1 : c[i + 1] \in Gen!Range(r.msg[c[i]].nested)
        /\ \A i \in 1 .. Len(c) :
            /\ Len(Gen!Chain(r)[c[i]]) = i
            /\ \A j \in 1 .. i : Gen!Chain(r)[c[i]][j] = c[j]

LEMMA ChainOfTop ==
    ASSUME NEW r, Gen!WellFormed(r), NEW m \in DOMAIN r.msg,
           Gen!Outer(r, m) = {}
    PROVE  Gen!Chain(r)[m] = <<m>> /\ ChainOK(r, m)
<1>1. Gen!Chain(r)[m] = <<m>>
  BY ChainAt
<1>2. m \in Nat
  BY Messages
<1>. DEFINE c == Gen!Chain(r)[m]
<1>3. c \in Seq(DOMAIN r.msg) /\ Len(c) = 1 /\ c[1] = m
  <2>1. \A S : m \in S =>
            <<m>> \in Seq(S) /\ Len(<<m>>) = 1 /\ <<m>>[1] = m
    OBVIOUS
  <2>. QED
    BY <1>1, <2>1, Zenon
<1>. HIDE DEF c
<1>4. \A i \in 1 .. Len(c) : i = 1 /\ c[i] = m /\ 1 .. i = {1}
  BY <1>3
<1>5. \A i \in 1 .. Len(c) :
        /\ Len(Gen!Chain(r)[c[i]]) = i
        /\ \A j \in 1 .. i : Gen!Chain(r)[c[i]][j] = c[j]
  BY <1>3, <1>4 DEF c
<1>6. 1 .. Len(c) - 1 = {}
  BY <1>3
<1>. QED
  BY <1>1, <1>2, <1>3, <1>4, <1>5, <1>6 DEF ChainOK, c

LEMMA ChainGrows ==
    ASSUME NEW r, Gen!WellFormed(r), NEW m \in DOMAIN r.msg,
           Gen!Outer(r, m) # {}, ChainOK(r, Parent(r, m))
    PROVE  ChainOK(r, m)
<1>. DEFINE p == Parent(r, m)
            b == Gen!Chain(r)[p]
            c == Gen!Chain(r)[m]
            n == Len(b)
<1>1. p \in DOMAIN r.msg /\ m \in Gen!Range(r.msg[p].nested) /\ p < m
  BY ParentIs
<1>2. m \in Nat /\ p \in Nat /\ DOMAIN r.msg \subseteq Nat
  BY <1>1, Messages
<1>3. c = Append(b, m)
  BY ChainAt
<1>4. /\ b \in Seq(DOMAIN r.msg) /\ n \in Nat \ {0} /\ b[n] = p
      /\ Gen!Outer(r, b[1]) = {}
      /\ \A i \in 1 .. n : b[i] <= p
      /\ \A i \in 1 .. n - 1 : b[i + 1] \in Gen!Range(r.msg[b[i]].nested)
      /\ \A i \in 1 .. n :
            /\ Len(Gen!Chain(r)[b[i]]) = i
            /\ \A j \in 1 .. i : Gen!Chain(r)[b[i]][j] = b[j]
  BY DEF ChainOK
<1>. HIDE DEF b, c, p
<1>5. /\ c \in Seq(DOMAIN r.msg) /\ Len(c) = n + 1 /\ c[n + 1] = m
      /\ \A i \in 1 .. n : c[i] = b[i]
  BY <1>3, <1>4
<1>6. Gen!Outer(r, c[1]) = {}
  BY <1>4, <1>5
<1>7. ASSUME NEW i \in 1 .. n + 1 PROVE c[i] <= m
  <2>1. CASE i = n + 1
    BY <1>2, <1>5, <2>1
  <2>2. CASE i # n + 1
    <3>1. i \in 1 .. n
      BY <1>4, <2>2
    <3>2. c[i] <= p /\ c[i] \in Nat
      BY <1>2, <1>4, <1>5, <3>1
    <3>. QED
      BY <1>1, <1>2, <3>2
  <2>. QED
    BY <2>1, <2>2
<1>8. ASSUME NEW i \in 1 .. n PROVE c[i + 1] \in Gen!Range(r.msg[c[i]].nested)
  <2>1. CASE i = n
    BY <1>1, <1>4, <1>5, <2>1
  <2>2. CASE i # n
    <3>1. i \in 1 .. n - 1 /\ i + 1 \in 1 .. n
      BY <1>4, <2>2
    <3>. QED
      BY <1>4, <1>5, <3>1
  <2>. QED
    BY <2>1, <2>2
<1>9. ASSUME NEW i \in 1 .. n + 1
      PROVE  /\ Len(Gen!Chain(r)[c[i]]) = i
             /\ \A j \in 1 .. i : Gen!Chain(r)[c[i]][j] = c[j]
  <2>1. CASE i = n + 1
    BY <1>5, <2>1 DEF c
  <2>2. CASE i # n + 1
    <3>1. i \in 1 .. n /\ 1 .. i \subseteq 1 .. n
      BY <1>4, <2>2
    <3>. QED
      BY <1>4, <1>5, <3>1
  <2>. QED
    BY <2>1, <2>2
<1>10. Len(c) \in Nat \ {0} /\ Len(c) - 1 = n
  BY <1>4, <1>5
<1>. QED
  BY <1>5, <1>6, <1>7, <1>8, <1>9, <1>10 DEF ChainOK, c

LEMMA Chains ==
    ASSUME NEW r, Gen!WellFormed(r), NEW m \in DOMAIN r.msg
    PROVE  ChainOK(r, m)
<1>. DEFINE T == {n \in Nat : n \in DOMAIN r.msg => ChainOK(r, n)}
<1>1. ASSUME NEW n \in Nat, \A k \in Nat : k < n => k \in T
      PROVE  n \in T
  <2>1. SUFFICES ASSUME n \in DOMAIN r.msg PROVE ChainOK(r, n)
    OBVIOUS
  <2>2. CASE Gen!Outer(r, n) = {}
    BY <2>1, <2>2, ChainOfTop
  <2>3. CASE Gen!Outer(r, n) # {}
    <3>1. Parent(r, n) \in DOMAIN r.msg /\ Parent(r, n) < n
      BY <2>1, <2>3, ParentIs
    <3>2. Parent(r, n) \in Nat
      BY <3>1, Messages
    <3>3. ChainOK(r, Parent(r, n))
      BY <1>1, <3>1, <3>2
    <3>. QED
      BY <2>1, <2>3, <3>3, ChainGrows
  <2>. QED
    BY <2>2, <2>3
<1>. HIDE DEF T
<1>2. \A n \in Nat : n \in T
  BY <1>1, StrongInduction
<1>3. m \in Nat
  BY Messages
<1>. QED
  BY <1>2, <1>3 DEF T

-----------------------------------------------------------------------------
(* What the proofs use of chains. *)

\* a is m, or m is nested in it.
Around(r, a, m) == a \in Gen!Range(Gen!Chain(r)[m])

LEMMA AroundItself ==
    ASSUME NEW r, Gen!WellFormed(r), NEW m \in DOMAIN r.msg
    PROVE  Around(r, m, m)
<1>1. /\ Gen!Chain(r)[m] \in Seq(DOMAIN r.msg)
      /\ Len(Gen!Chain(r)[m]) \in Nat \ {0}
      /\ Gen!Chain(r)[m][Len(Gen!Chain(r)[m])] = m
  BY Chains, Zenon DEF ChainOK
<1>. QED
  BY <1>1 DEF Around, Gen!Range

\* At which depth a is in the chain of m, and what is above it.
LEMMA AroundAt ==
    ASSUME NEW r, Gen!WellFormed(r), NEW m \in DOMAIN r.msg,
           NEW a, Around(r, a, m)
    PROVE  LET b == Gen!Chain(r)[a]
               c == Gen!Chain(r)[m]
           IN  /\ a \in DOMAIN r.msg /\ a <= m
               /\ Len(b) \in 1 .. Len(c) /\ Len(c) \in Nat
               /\ c[Len(b)] = a /\ b[Len(b)] = a
               /\ \A j \in 1 .. Len(b) : b[j] = c[j]
<1>. DEFINE c == Gen!Chain(r)[m]
<1>1. /\ c \in Seq(DOMAIN r.msg) /\ Len(c) \in Nat \ {0} /\ c[Len(c)] = m
      /\ \A i \in 1 .. Len(c) : c[i] <= m
      /\ \A i \in 1 .. Len(c) :
            /\ Len(Gen!Chain(r)[c[i]]) = i
            /\ \A j \in 1 .. i : Gen!Chain(r)[c[i]][j] = c[j]
  BY Chains, Zenon DEF ChainOK
<1>. HIDE DEF c
<1>2. PICK i \in 1 .. Len(c) : c[i] = a
  <2>1. a \in Gen!Range(c)
    BY DEF Around, c
  <2>. QED
    BY <1>1, <2>1 DEF Gen!Range
<1>3. a \in DOMAIN r.msg /\ a <= m
  BY <1>1, <1>2
<1>4. /\ Len(Gen!Chain(r)[a]) = i
      /\ \A j \in 1 .. i : Gen!Chain(r)[a][j] = c[j]
  BY <1>1, <1>2
<1>5. i \in 1 .. i
  BY <1>1
<1>. QED
  BY <1>1, <1>2, <1>3, <1>4, <1>5 DEF c

\* Two messages around one at the same depth are the same.
LEMMA AroundSame ==
    ASSUME NEW r, Gen!WellFormed(r), NEW m \in DOMAIN r.msg,
           NEW a, Around(r, a, m), NEW b, Around(r, b, m),
           Len(Gen!Chain(r)[a]) = Len(Gen!Chain(r)[b])
    PROVE  a = b
<1>1. Gen!Chain(r)[m][Len(Gen!Chain(r)[a])] = a
  BY AroundAt
<1>2. Gen!Chain(r)[m][Len(Gen!Chain(r)[b])] = b
  BY AroundAt
<1>. QED
  BY <1>1, <1>2

LEMMA AroundTransitive ==
    ASSUME NEW r, Gen!WellFormed(r), NEW m \in DOMAIN r.msg,
           NEW b, Around(r, b, m), NEW a, Around(r, a, b)
    PROVE  Around(r, a, m)
<1>. DEFINE c == Gen!Chain(r)[m]
            d == Gen!Chain(r)[b]
            e == Gen!Chain(r)[a]
<1>1. /\ b \in DOMAIN r.msg /\ Len(d) \in 1 .. Len(c) /\ Len(c) \in Nat
      /\ \A j \in 1 .. Len(d) : d[j] = c[j]
  BY AroundAt
<1>2. Len(e) \in 1 .. Len(d) /\ d[Len(e)] = a
  BY <1>1, AroundAt
<1>3. c \in Seq(DOMAIN r.msg)
  BY Chains DEF ChainOK
<1>. HIDE DEF c, d, e
<1>4. Len(e) \in 1 .. Len(c) /\ c[Len(e)] = a
  BY <1>1, <1>2
<1>. QED
  BY <1>3, <1>4 DEF Around, Gen!Range, c

\* Between a message and one that is nested in it there is one that is nested
\* in it directly.
LEMMA NextOnChain ==
    ASSUME NEW r, Gen!WellFormed(r), NEW m \in DOMAIN r.msg,
           NEW a, Around(r, a, m), a # m
    PROVE  \E b \in Gen!Range(r.msg[a].nested) : Around(r, b, m)
<1>. DEFINE c == Gen!Chain(r)[m]
            i == Len(Gen!Chain(r)[a])
<1>1. i \in 1 .. Len(c) /\ Len(c) \in Nat /\ c[i] = a
  BY AroundAt
<1>2. /\ c \in Seq(DOMAIN r.msg) /\ c[Len(c)] = m
      /\ \A j \in 1 .. Len(c) - 1 : c[j + 1] \in Gen!Range(r.msg[c[j]].nested)
  BY Chains, Zenon DEF ChainOK
<1>. HIDE DEF c, i
<1>3. i \in 1 .. Len(c) - 1 /\ i + 1 \in 1 .. Len(c)
  BY <1>1, <1>2
<1>4. c[i + 1] \in Gen!Range(r.msg[a].nested)
  BY <1>1, <1>2, <1>3
<1>5. c[i + 1] \in Gen!Range(c)
  BY <1>2, <1>3 DEF Gen!Range
<1>. QED
  BY <1>4, <1>5 DEF Around, c

LEMMA ChainOfNested ==
    ASSUME NEW r, Gen!WellFormed(r), NEW p \in DOMAIN r.msg,
           NEW m \in Gen!Range(r.msg[p].nested)
    PROVE  Gen!Chain(r)[m] = Append(Gen!Chain(r)[p], m)
  BY NestedIn, ChainAt

\* A message is in the file in which the outermost message around it is.
LEMMA FileIs ==
    ASSUME NEW r, Gen!WellFormed(r), NEW m \in DOMAIN r.msg
    PROVE  /\ Gen!FileOf(r, m) \in DOMAIN r.file
           /\ Gen!Chain(r)[m][1] \in Gen!Range(r.file[Gen!FileOf(r, m)].messages)
           /\ \A f \in DOMAIN r.file :
                Gen!Chain(r)[m][1] \in Gen!Range(r.file[f].messages)
                    => f = Gen!FileOf(r, m)
<1>. DEFINE t == Gen!Chain(r)[m][1]
<1>1. t \in DOMAIN r.msg /\ Gen!Outer(r, t) = {}
  <2>1. /\ Gen!Chain(r)[m] \in Seq(DOMAIN r.msg)
        /\ Len(Gen!Chain(r)[m]) \in Nat \ {0} /\ Gen!Outer(r, t) = {}
    BY Chains, Zenon DEF ChainOK
  <2>. QED
    BY <2>1
<1>2. PICK f \in DOMAIN r.file : \A g \in DOMAIN r.file :
        t \in Gen!Range(r.file[g].messages) <=> g = f
  <2>1. ~ \E p : Gen!Outer(r, t) = {p}
    BY <1>1
  <2>. QED
    BY <1>1, <2>1, OnePlace
<1>3. Gen!FileOf(r, m) \in DOMAIN r.file
      /\ t \in Gen!Range(r.file[Gen!FileOf(r, m)].messages)
  <2>1. \E g \in DOMAIN r.file : t \in Gen!Range(r.file[g].messages)
    BY <1>2
  <2>. QED
    BY <2>1, Zenon DEF Gen!FileOf
<1>. QED
  BY <1>2, <1>3

LEMMA FileOfAround ==
    ASSUME NEW r, Gen!WellFormed(r), NEW m \in DOMAIN r.msg,
           NEW a, Around(r, a, m)
    PROVE  Gen!FileOf(r, a) = Gen!FileOf(r, m)
<1>1. a \in DOMAIN r.msg /\ Gen!Chain(r)[a][1] = Gen!Chain(r)[m][1]
  <2>. DEFINE b == Gen!Chain(r)[a]
  <2>1. /\ a \in DOMAIN r.msg /\ Len(b) \in 1 .. Len(Gen!Chain(r)[m])
        /\ \A j \in 1 .. Len(b) : b[j] = Gen!Chain(r)[m][j]
    BY AroundAt
  <2>2. 1 \in 1 .. Len(b)
    BY <2>1
  <2>. QED
    BY <2>1, <2>2
<1>. QED
  BY <1>1, FileIs

-----------------------------------------------------------------------------
(* The traversal.  r is the request, f the file that is being generated, o *)
(* the activations, p the package and h the printer.                       *)

\* What is printed for a message, in terms of the request.
ClassOf(r, m) ==
    LET path == Gen!Path(r, m)
        nested == r.msg[m].nested
        enums == r.msg[m].enums
    IN  [name |-> Gen!FullName(path),
         typedefs |-> [i \in DOMAIN nested |->
                          Gen!FullName(Append(path, r.msg[nested[i]].name))]
                      \o [i \in DOMAIN enums |->
                          Gen!FullName(Append(path, enums[i].name))],
         members |-> [i \in DOMAIN r.msg[m].fields |->
                          Gen!Member(r.msg[m].fields[i])]]

SourceOf(r, m) == Gen!Source(Gen!Path(r, m), r.msg[m])

EnumPrinted(h, path, e) == Gen!EnumDefinition(path, e) \in Gen!Range(h.enums)

Printed(r, m, h) ==
    /\ Gen!FullName(Gen!Path(r, m)) \in Gen!Range(h.prototypes)
    /\ ClassOf(r, m) \in Gen!Range(h.definitions)
    /\ SourceOf(r, m) \in Gen!Range(h.source)
    /\ \A e \in Gen!Range(r.msg[m].enums) : EnumPrinted(h, Gen!Path(r, m), e)

\* The declaration of n ends before the one of m does.
Ends(r, n, m) == Around(r, m, n) \/ (n < m /\ ~ Around(r, n, m))

\* The definitions d are of messages of the file, and the one at k follows
\* those of the messages of which the declarations end before.
DefinedAt(r, f, d, k) ==
    \E m \in DOMAIN r.msg :
        /\ Gen!FileOf(r, m) = f /\ d[k] = ClassOf(r, m)
        /\ \A n \in DOMAIN r.msg : Gen!FileOf(r, n) = f /\ Ends(r, n, m) =>
            \E i \in 1 .. k : d[i] = ClassOf(r, n)

Sound(r, f, h) ==
    /\ DOMAIN h = {"includes", "prototypes", "enums", "definitions", "source"}
    /\ Gen!IsSeq(h.prototypes) /\ Gen!IsSeq(h.enums)
    /\ Gen!IsSeq(h.definitions) /\ Gen!IsSeq(h.source)
    /\ \A k \in 1 .. Len(h.definitions) : DefinedAt(r, f, h.definitions, k)
    /\ \A x \in Gen!Range(h.source) : \E m \in DOMAIN r.msg : x = SourceOf(r, m)

\* The list that the activation a at depth i visits, and what it is at.
Whole(r, f, a, i) == IF i = 1 THEN r.file[f].messages ELSE r.msg[a.msg].nested

Active(r, f, a, i) ==
    /\ DOMAIN a = {"msg", "nested", "enums"}
    /\ Gen!Declares(r, a.nested) /\ Gen!IsSeq(a.enums)
    /\ Gen!Range(a.nested) \subseteq Gen!Range(Whole(r, f, a, i))
    /\ i > 1 => /\ a.msg \in DOMAIN r.msg /\ Gen!FileOf(r, a.msg) = f
                /\ Len(Gen!Chain(r)[a.msg]) = i - 1

\* The activation above a is that of b, which was in front of what is left.
Took(r, f, a, i, b) ==
    /\ b \in Gen!Range(Whole(r, f, a, i))
    /\ \A c \in Gen!Range(a.nested) : Gen!Precedes(r, b, c)

Stacked(r, f, o) ==
    /\ Gen!IsSeq(o) /\ o # <<>>
    /\ \A i \in 1 .. Len(o) : Active(r, f, o[i], i)
    /\ \A i \in 1 .. Len(o) - 1 : Took(r, f, o[i], i, o[i + 1].msg)
    /\ \A j \in 2 .. Len(o) : \A i \in 2 .. j : Around(r, o[i].msg, o[j].msg)

PackageOf(r, o) ==
    IF Len(o) = 1 THEN <<>> ELSE Gen!Path(r, o[Len(o)].msg)

\* A message that is not printed is being visited, with some enums printed, or
\* it is still to be visited, or one around it is.
Visiting(r, o, h, m) ==
    \E i \in 2 .. Len(o) :
        /\ o[i].msg = m
        /\ \A e \in Gen!Range(r.msg[m].enums) :
            e \in Gen!Range(o[i].enums) \/ EnumPrinted(h, Gen!Path(r, m), e)

Pending(r, o, m) ==
    \E i \in 1 .. Len(o) : \E c \in Gen!Range(o[i].nested) : Around(r, c, m)

Covered(r, o, h, m) ==
    Printed(r, m, h) \/ Visiting(r, o, h, m) \/ Pending(r, o, m)

Traversal(r, f, o, p, h) ==
    /\ Stacked(r, f, o) /\ p = PackageOf(r, o) /\ Sound(r, f, h)
    /\ \A m \in DOMAIN r.msg : Gen!FileOf(r, m) = f => Covered(r, o, h, m)
    /\ \A e \in Gen!Range(r.file[f].enums) :
        e \in Gen!Range(o[1].enums) \/ EnumPrinted(h, <<>>, e)

\* All of the file is printed.
Complete(r, f, h) ==
    /\ Sound(r, f, h)
    /\ \A m \in DOMAIN r.msg : Gen!FileOf(r, m) = f => Printed(r, m, h)
    /\ \A e \in Gen!Range(r.file[f].enums) : EnumPrinted(h, <<>>, e)

-----------------------------------------------------------------------------
(* The beginning of a file. *)

LEMMA NothingPrinted ==
    ASSUME NEW r, NEW f, NEW file
    PROVE  Sound(r, f, Gen!NewFilePrinter(file))
<1>. DEFINE h == Gen!NewFilePrinter(file)
<1>1. /\ DOMAIN h = {"includes", "prototypes", "enums", "definitions", "source"}
      /\ h.prototypes = <<>> /\ h.enums = <<>> /\ h.definitions = <<>>
      /\ h.source = <<>>
  BY DEF Gen!NewFilePrinter
<1>. HIDE DEF h
<1>2. Len(h.definitions) = 0
  BY <1>1
<1>3. Sound(r, f, h)
  BY <1>1, <1>2, Empty DEF Sound
<1>. QED
  BY <1>3 DEF h

LEMMA FileStarted ==
    ASSUME NEW r, Gen!WellFormed(r), NEW f \in DOMAIN r.file
    PROVE  Traversal(r, f, <<[msg |-> 0, nested |-> r.file[f].messages,
                              enums |-> r.file[f].enums]>>,
                     <<>>, Gen!NewFilePrinter(r.file[f]))
<1>. DEFINE a == [msg |-> 0, nested |-> r.file[f].messages,
                  enums |-> r.file[f].enums]
            o == <<a>>
            h == Gen!NewFilePrinter(r.file[f])
<1>1. /\ Gen!Declares(r, r.file[f].messages) /\ Gen!IsSeq(r.file[f].enums)
  BY Messages
<1>2. Active(r, f, a, 1)
  BY <1>1 DEF Active, Whole
<1>3. Len(o) = 1 /\ o[1] = a /\ Gen!IsSeq(o) /\ o # <<>>
  <2>. HIDE DEF a
  <2>1. o = Append(<<>>, a) /\ Len(<<>>) = 0 /\ o # <<>>
    OBVIOUS
  <2>. HIDE DEF o
  <2>2. /\ Gen!IsSeq(Append(<<>>, a)) /\ Len(Append(<<>>, a)) = Len(<<>>) + 1
        /\ Append(<<>>, a)[Len(<<>>) + 1] = a
    BY Appended, Empty
  <2>. QED
    BY <2>1, <2>2
<1>9. a.nested = r.file[f].messages /\ a.enums = r.file[f].enums
  OBVIOUS
<1>. HIDE DEF a, o, h
<1>4. Stacked(r, f, o)
  BY <1>2, <1>3 DEF Stacked
<1>5. ASSUME NEW m \in DOMAIN r.msg, Gen!FileOf(r, m) = f
      PROVE  Covered(r, o, h, m)
  <2>. DEFINE t == Gen!Chain(r)[m][1]
  <2>1. t \in Gen!Range(r.file[f].messages)
    BY <1>5, FileIs
  <2>2. Around(r, t, m)
    <3>1. /\ Gen!Chain(r)[m] \in Seq(DOMAIN r.msg)
          /\ Len(Gen!Chain(r)[m]) \in Nat \ {0}
      BY Chains, Zenon DEF ChainOK
    <3>. QED
      BY <3>1 DEF Around, Gen!Range
  <2>3. o[1].nested = r.file[f].messages /\ 1 \in 1 .. Len(o)
    BY <1>3, <1>9
  <2>. HIDE DEF t
  <2>. QED
    BY <2>1, <2>2, <2>3 DEF Covered, Pending
<1>6. o[1].enums = r.file[f].enums /\ <<>> = PackageOf(r, o)
  BY <1>3, <1>9 DEF PackageOf
<1>7. Sound(r, f, h)
  BY NothingPrinted DEF h
<1>8. Traversal(r, f, o, <<>>, h)
  BY <1>4, <1>5, <1>6, <1>7 DEF Traversal
<1>. QED
  BY <1>8 DEF o, a, h

-----------------------------------------------------------------------------
(* Enums, and the end of a file. *)

LEMMA StackTop ==
    ASSUME NEW r, NEW f, NEW o, Stacked(r, f, o)
    PROVE  /\ Len(o) \in Nat \ {0} /\ Len(o) \in 1 .. Len(o)
           /\ Active(r, f, o[Len(o)], Len(o))
<1>1. Len(o) \in Nat \ {0}
  BY IsSequence DEF Stacked
<1>. QED
  BY <1>1 DEF Stacked

\* A change of the top activation, which leaves less to do.
LEMMA StackChanged ==
    ASSUME NEW r, NEW f, NEW o, Stacked(r, f, o), NEW a,
           Active(r, f, a, Len(o)), a.msg = o[Len(o)].msg,
           Gen!Range(a.nested) \subseteq Gen!Range(o[Len(o)].nested)
    PROVE  LET q == WithLast(o, a)
           IN  /\ Stacked(r, f, q) /\ Len(q) = Len(o) /\ q[Len(o)] = a
               /\ \A i \in 1 .. Len(o) : i # Len(o) => q[i] = o[i]
               /\ \A i \in 1 .. Len(o) : q[i].msg = o[i].msg
<1>. DEFINE q == WithLast(o, a)
<1>1. Gen!IsSeq(o) /\ o # <<>> /\ Len(o) \in Nat \ {0}
  BY StackTop DEF Stacked
<1>2. /\ Gen!IsSeq(q) /\ Len(q) = Len(o) /\ q[Len(o)] = a
      /\ \A i \in 1 .. Len(o) : i # Len(o) => q[i] = o[i]
  BY <1>1, LastReplaced
<1>. HIDE DEF q
<1>3. \A i \in 1 .. Len(o) : q[i].msg = o[i].msg
  BY <1>2
<1>4. \A i \in 1 .. Len(q) : Active(r, f, q[i], i)
  BY <1>2 DEF Stacked
<1>5. ASSUME NEW i \in 1 .. Len(q) - 1
      PROVE  Took(r, f, q[i], i, q[i + 1].msg)
  <2>1. i \in 1 .. Len(o) - 1 /\ i \in 1 .. Len(o) /\ i # Len(o)
        /\ i + 1 \in 1 .. Len(o)
    BY <1>1, <1>2
  <2>2. q[i] = o[i] /\ q[i + 1].msg = o[i + 1].msg
    BY <1>2, <1>3, <2>1
  <2>. QED
    BY <2>1, <2>2 DEF Stacked
<1>6. \A j \in 2 .. Len(q) : \A i \in 2 .. j : Around(r, q[i].msg, q[j].msg)
  <2>1. ASSUME NEW j \in 2 .. Len(q), NEW i \in 2 .. j
        PROVE  Around(r, q[i].msg, q[j].msg)
    <3>1. i \in 1 .. Len(o) /\ j \in 1 .. Len(o) /\ j \in 2 .. Len(o)
      BY <1>1, <1>2
    <3>. QED
      BY <1>3, <3>1 DEF Stacked
  <2>. QED
    BY <2>1
<1>7. q # <<>>
  BY <1>1, <1>2, IsSequence
<1>8. Stacked(r, f, q)
  BY <1>2, <1>4, <1>5, <1>6, <1>7 DEF Stacked
<1>. QED
  BY <1>2, <1>3, <1>8 DEF q

LEMMA EnumAdded ==
    ASSUME NEW r, Gen!WellFormed(r), NEW f \in DOMAIN r.file, NEW o, NEW p, NEW h,
           Traversal(r, f, o, p, h), o[Len(o)].enums # <<>>
    PROVE  Traversal(r, f,
              WithLast(o, [o[Len(o)] EXCEPT !.enums = Tail(@)]), p,
              [h EXCEPT !.enums =
                  Append(@, Gen!EnumDefinition(p, Head(o[Len(o)].enums)))])
<1>. DEFINE n == Len(o)
            a == o[n]
            b == [a EXCEPT !.enums = Tail(@)]
            e == Head(a.enums)
            x == Gen!EnumDefinition(p, e)
            q == WithLast(o, b)
            g == [h EXCEPT !.enums = Append(@, x)]
<1>1. Stacked(r, f, o) /\ p = PackageOf(r, o) /\ Sound(r, f, h)
  BY DEF Traversal
<1>2. n \in Nat \ {0} /\ n \in 1 .. n /\ Active(r, f, a, n)
  BY <1>1, StackTop
<1>3. DOMAIN a = {"msg", "nested", "enums"} /\ Gen!IsSeq(a.enums)
  BY <1>2, Zenon DEF Active
<1>4. b.msg = a.msg /\ b.nested = a.nested /\ b.enums = Tail(a.enums)
      /\ DOMAIN b = {"msg", "nested", "enums"}
  BY <1>3
<1>5. /\ Gen!IsSeq(b.enums) /\ e \in Gen!Range(a.enums)
      /\ Gen!Range(a.enums) = {e} \cup Gen!Range(b.enums)
  BY <1>3, <1>4, TailOf
<1>. HIDE DEF b
<1>6. Active(r, f, b, n)
  BY <1>2, <1>4, <1>5 DEF Active, Whole
<1>7. /\ Stacked(r, f, q) /\ Len(q) = n /\ q[n] = b
      /\ \A i \in 1 .. n : i # n => q[i] = o[i]
      /\ \A i \in 1 .. n : q[i].msg = o[i].msg
  BY <1>1, <1>4, <1>6, StackChanged
<1>. HIDE DEF q
<1>8. \A i \in 1 .. n : q[i].nested = o[i].nested
  BY <1>4, <1>7
<1>9. /\ DOMAIN g = DOMAIN h
      /\ g.prototypes = h.prototypes /\ g.definitions = h.definitions
      /\ g.source = h.source /\ g.enums = Append(h.enums, x)
  BY <1>1 DEF Sound
<1>. HIDE DEF x, g
<1>10. Gen!IsSeq(g.enums)
       /\ Gen!Range(g.enums) = Gen!Range(h.enums) \cup {x}
  <2>1. Gen!IsSeq(h.enums)
    BY <1>1 DEF Sound
  <2>. QED
    BY <1>9, <2>1, Appended
<1>11. Sound(r, f, g)
  BY <1>1, <1>9, <1>10 DEF Sound
<1>12. \A path, d : EnumPrinted(h, path, d) => EnumPrinted(g, path, d)
  BY <1>10 DEF EnumPrinted
<1>13. EnumPrinted(g, p, e)
  BY <1>10 DEF EnumPrinted, x
<1>14. PackageOf(r, q) = PackageOf(r, o)
  BY <1>2, <1>7 DEF PackageOf
<1>. HIDE DEF n, a, e
<1>15. ASSUME NEW m \in DOMAIN r.msg, Gen!FileOf(r, m) = f
       PROVE  Covered(r, q, g, m)
  <2>1. CASE Printed(r, m, h)
    BY <1>9, <1>12, <2>1 DEF Covered, Printed
  <2>2. CASE Visiting(r, o, h, m)
    <3>1. PICK i \in 2 .. n :
            /\ o[i].msg = m
            /\ \A d \in Gen!Range(r.msg[m].enums) :
                d \in Gen!Range(o[i].enums) \/ EnumPrinted(h, Gen!Path(r, m), d)
      BY <2>2 DEF Visiting, n
    <3>2. i \in 1 .. n /\ q[i].msg = m
      BY <1>2, <1>7, <3>1
    <3>3. ASSUME NEW d \in Gen!Range(r.msg[m].enums)
          PROVE  d \in Gen!Range(q[i].enums)
                 \/ EnumPrinted(g, Gen!Path(r, m), d)
      <4>1. CASE i # n
        BY <1>7, <1>12, <3>1, <3>2, <4>1
      <4>2. CASE i = n /\ d = e
        <5>1. p = Gen!Path(r, m)
          BY <1>1, <1>2, <3>1, <4>2 DEF PackageOf, n
        <5>. QED
          BY <1>13, <4>2, <5>1
      <4>3. CASE i = n /\ d # e
        <5>1. d \in Gen!Range(a.enums) \/ EnumPrinted(h, Gen!Path(r, m), d)
          BY <3>1, <4>3 DEF a
        <5>. QED
          BY <1>5, <1>7, <1>12, <4>3, <5>1
      <4>. QED
        BY <4>1, <4>2, <4>3
    <3>4. Visiting(r, q, g, m)
      BY <1>7, <3>1, <3>2, <3>3 DEF Visiting
    <3>. QED
      BY <3>4 DEF Covered
  <2>3. CASE Pending(r, o, m)
    <3>1. Pending(r, q, m)
      BY <1>7, <1>8, <2>3 DEF Pending, n
    <3>. QED
      BY <3>1 DEF Covered
  <2>4. Covered(r, o, h, m)
    BY <1>15 DEF Traversal
  <2>. QED
    BY <2>1, <2>2, <2>3, <2>4 DEF Covered
<1>16. ASSUME NEW d \in Gen!Range(r.file[f].enums)
       PROVE  d \in Gen!Range(q[1].enums) \/ EnumPrinted(g, <<>>, d)
  <2>1. d \in Gen!Range(o[1].enums) \/ EnumPrinted(h, <<>>, d)
    BY DEF Traversal
  <2>2. CASE n # 1
    <3>1. q[1] = o[1]
      BY <1>2, <1>7, <2>2
    <3>. QED
      BY <1>12, <2>1, <3>1
  <2>3. CASE n = 1
    <3>1. p = <<>> /\ o[1] = a /\ q[1] = b
      BY <1>1, <1>7, <2>3 DEF PackageOf, n, a
    <3>. QED
      BY <1>5, <1>12, <1>13, <2>1, <3>1
  <2>. QED
    BY <2>2, <2>3
<1>17. Traversal(r, f, q, p, g)
  BY <1>1, <1>7, <1>11, <1>14, <1>15, <1>16 DEF Traversal
<1>. QED
  BY <1>17 DEF q, g, b, x, a, e, n

LEMMA FileDone ==
    ASSUME NEW r, NEW f, NEW o, NEW p, NEW h, Traversal(r, f, o, p, h),
           Len(o) = 1, o[1].nested = <<>>, o[1].enums = <<>>
    PROVE  Complete(r, f, h)
<1>1. ASSUME NEW m \in DOMAIN r.msg, Gen!FileOf(r, m) = f
      PROVE  Printed(r, m, h)
  <2>1. ~ Visiting(r, o, h, m)
    BY DEF Visiting
  <2>2. ~ Pending(r, o, m)
    BY Empty DEF Pending
  <2>. QED
    BY <1>1, <2>1, <2>2 DEF Traversal, Covered
<1>2. \A e \in Gen!Range(r.file[f].enums) : EnumPrinted(h, <<>>, e)
  BY Empty DEF Traversal
<1>. QED
  BY <1>1, <1>2 DEF Complete, Traversal

-----------------------------------------------------------------------------
(* The beginning of a message. *)

LEMMA DeclaresTail ==
    ASSUME NEW r, NEW s, Gen!Declares(r, s), s # <<>>
    PROVE  /\ Gen!Declares(r, Tail(s)) /\ Head(s) \in Gen!Range(s)
           /\ Gen!Range(s) = {Head(s)} \cup Gen!Range(Tail(s))
           /\ \A c \in Gen!Range(Tail(s)) : Gen!Precedes(r, Head(s), c)
<1>1. Gen!IsSeq(s)
  BY Declared
<1>2. /\ Gen!IsSeq(Tail(s)) /\ Len(Tail(s)) = Len(s) - 1
      /\ Head(s) = s[1]
      /\ \A i \in 1 .. Len(Tail(s)) : Tail(s)[i] = s[i + 1]
      /\ Gen!Range(s) = {Head(s)} \cup Gen!Range(Tail(s))
  BY <1>1, TailOf
<1>3. Len(s) \in Nat \ {0} /\ DOMAIN s = 1 .. Len(s)
      /\ DOMAIN Tail(s) = 1 .. Len(Tail(s))
  BY <1>1, <1>2, IsSequence
<1>4. Tail(s) \in Seq(DOMAIN r.msg)
  BY DEF Gen!Declares
<1>5. \A i, j \in 1 .. Len(s) : i < j => Gen!Precedes(r, s[i], s[j])
  BY <1>3 DEF Gen!Declares
<1>6. ASSUME NEW i \in 1 .. Len(Tail(s)), NEW j \in 1 .. Len(Tail(s)), i < j
      PROVE  Gen!Precedes(r, Tail(s)[i], Tail(s)[j])
  <2>1. i + 1 \in 1 .. Len(s) /\ j + 1 \in 1 .. Len(s) /\ i + 1 < j + 1
    BY <1>2, <1>3, <1>6
  <2>. QED
    BY <1>2, <1>5, <2>1
<1>7. ASSUME NEW c \in Gen!Range(Tail(s))
      PROVE  Gen!Precedes(r, Head(s), c)
  <2>1. PICK i \in 1 .. Len(Tail(s)) : Tail(s)[i] = c
    BY <1>2, IndexOf
  <2>2. 1 \in 1 .. Len(s) /\ i + 1 \in 1 .. Len(s) /\ 1 < i + 1
    BY <1>2, <1>3, <2>1
  <2>. QED
    BY <1>2, <1>5, <2>1, <2>2
<1>. QED
  BY <1>2, <1>3, <1>4, <1>6, <1>7 DEF Gen!Declares

\* What is in the list that an activation visits.
LEMMA InWhole ==
    ASSUME NEW r, Gen!WellFormed(r), NEW f \in DOMAIN r.file, NEW a,
           NEW n \in Nat \ {0}, Active(r, f, a, n),
           NEW m \in Gen!Range(Whole(r, f, a, n))
    PROVE  /\ m \in DOMAIN r.msg /\ Gen!FileOf(r, m) = f
           /\ Len(Gen!Chain(r)[m]) = n
           /\ n > 1 => Around(r, a.msg, m)
           /\ Gen!Path(r, m) = Append(IF n = 1 THEN <<>>
                                      ELSE Gen!Path(r, a.msg), r.msg[m].name)
<1>1. CASE n = 1
  <2>1. m \in Gen!Range(r.file[f].messages)
    BY <1>1 DEF Whole
  <2>2. m \in DOMAIN r.msg /\ Gen!Chain(r)[m] = <<m>>
    <3>1. m \in DOMAIN r.msg /\ Gen!Outer(r, m) = {}
      BY <2>1, OnTop
    <3>. QED
      BY <3>1, ChainOfTop
  <2>3. Gen!FileOf(r, m) = f
    BY <2>1, <2>2, FileIs
  <2>4. Gen!Path(r, m) = <<r.msg[m].name>>
    BY <2>2 DEF Gen!Path
  <2>. QED
    BY <1>1, <2>2, <2>3, <2>4
<1>2. CASE n # 1
  <2>. DEFINE p == a.msg
              c == Gen!Chain(r)[p]
  <2>1. m \in Gen!Range(r.msg[p].nested)
    BY <1>2 DEF Whole
  <2>2. p \in DOMAIN r.msg /\ Gen!FileOf(r, p) = f /\ Len(c) = n - 1
    BY <1>2 DEF Active
  <2>3. m \in DOMAIN r.msg /\ Gen!Chain(r)[m] = Append(c, m)
    BY <2>1, <2>2, NestedIn, ChainOfNested
  <2>4. c \in Seq(DOMAIN r.msg) /\ c[n - 1] = p
    <3>1. c \in Seq(DOMAIN r.msg) /\ c[Len(c)] = p
      BY <2>2, Chains, Zenon DEF ChainOK
    <3>. QED
      BY <2>2, <3>1
  <2>. HIDE DEF c, p
  <2>5. /\ Len(Append(c, m)) = n /\ Append(c, m)[n] = m
        /\ \A i \in 1 .. n - 1 : Append(c, m)[i] = c[i]
        /\ DOMAIN Append(c, m) = 1 .. n /\ DOMAIN c = 1 .. n - 1
    BY <2>2, <2>4
  <2>6. Around(r, p, m)
    <3>1. n - 1 \in 1 .. n
      BY <1>2
    <3>2. Append(c, m)[n - 1] = p
      BY <1>2, <2>4, <2>5
    <3>. QED
      BY <2>3, <2>5, <3>1, <3>2 DEF Around, Gen!Range
  <2>7. Gen!FileOf(r, m) = f
    BY <2>2, <2>3, <2>6, FileOfAround
  <2>8. Gen!Path(r, m) = Append(Gen!Path(r, p), r.msg[m].name)
    <3>1. Gen!Path(r, m) = [i \in 1 .. n |-> r.msg[Append(c, m)[i]].name]
      BY <2>3, <2>5 DEF Gen!Path
    <3>2. Gen!Path(r, p) = [i \in 1 .. n - 1 |-> r.msg[c[i]].name]
      BY <2>5 DEF Gen!Path, c
    <3>. DEFINE N == {r.msg[i].name : i \in DOMAIN r.msg}
    <3>3. Gen!Path(r, m) \in Seq(N) /\ Len(Gen!Path(r, m)) = n
      BY <2>3, <2>4, <2>5, <3>1
    <3>4. Gen!Path(r, p) \in Seq(N) /\ Len(Gen!Path(r, p)) = n - 1
      BY <1>2, <2>2, <2>4, <2>5, <3>2
    <3>5. r.msg[m].name \in N
      BY <2>3
    <3>. HIDE DEF N
    <3>6. \A i \in 1 .. n - 1 : Gen!Path(r, m)[i] = Gen!Path(r, p)[i]
      BY <2>5, <3>1, <3>2
    <3>7. Gen!Path(r, m)[n] = r.msg[m].name
      BY <2>5, <3>1
    <3>. QED
      BY <3>3, <3>4, <3>5, <3>6, <3>7
  <2>. QED
    BY <1>2, <2>3, <2>5, <2>6, <2>7, <2>8 DEF p
<1>. QED
  BY <1>1, <1>2

\* A new activation on top.
LEMMA StackGrows ==
    ASSUME NEW r, Gen!WellFormed(r), NEW f \in DOMAIN r.file, NEW o,
           Stacked(r, f, o), NEW b, Active(r, f, b, Len(o) + 1),
           Took(r, f, o[Len(o)], Len(o), b.msg)
    PROVE  LET q == Append(o, b)
           IN  /\ Stacked(r, f, q) /\ Len(q) = Len(o) + 1 /\ q[Len(o) + 1] = b
               /\ \A i \in 1 .. Len(o) : q[i] = o[i]
<1>. DEFINE q == Append(o, b)
            n == Len(o)
<1>1. n \in Nat \ {0} /\ Gen!IsSeq(o) /\ Active(r, f, o[n], n)
  BY StackTop DEF Stacked
<1>2. /\ Gen!IsSeq(q) /\ Len(q) = n + 1 /\ q[n + 1] = b
      /\ \A i \in 1 .. n : q[i] = o[i]
  BY <1>1, Appended
<1>. HIDE DEF q, n
<1>3. q # <<>>
  BY <1>1, <1>2, IsSequence
<1>4. ASSUME NEW i \in 1 .. n + 1 PROVE Active(r, f, q[i], i)
  <2>1. CASE i = n + 1
    BY <1>2, <2>1 DEF n
  <2>2. CASE i # n + 1
    <3>1. i \in 1 .. n
      BY <1>1, <2>2
    <3>. QED
      BY <1>2, <3>1 DEF Stacked, n
  <2>. QED
    BY <2>1, <2>2
<1>5. ASSUME NEW i \in 1 .. n PROVE Took(r, f, q[i], i, q[i + 1].msg)
  <2>1. CASE i = n
    BY <1>2, <2>1 DEF n
  <2>2. CASE i # n
    <3>1. i \in 1 .. n - 1 /\ i + 1 \in 1 .. n
      BY <1>1, <2>2
    <3>. QED
      BY <1>2, <3>1 DEF Stacked, n
  <2>. QED
    BY <2>1, <2>2
<1>6. b.msg \in DOMAIN r.msg /\ (n > 1 => Around(r, o[n].msg, b.msg))
  <2>1. b.msg \in Gen!Range(Whole(r, f, o[n], n))
    BY DEF Took, n
  <2>. QED
    BY <1>1, <2>1, InWhole
<1>7. ASSUME NEW j \in 2 .. n + 1, NEW i \in 2 .. j
      PROVE  Around(r, q[i].msg, q[j].msg)
  <2>1. CASE j # n + 1
    <3>1. j \in 2 .. n /\ j \in 1 .. n /\ i \in 1 .. n
      BY <1>1, <2>1
    <3>. QED
      BY <1>2, <3>1 DEF Stacked, n
  <2>2. CASE j = n + 1 /\ i = n + 1
    BY <1>2, <1>6, <2>2, AroundItself
  <2>3. CASE j = n + 1 /\ i # n + 1
    <3>1. n \in 2 .. n /\ i \in 2 .. n /\ i \in 1 .. n /\ n > 1
      BY <1>1, <2>3
    <3>2. Around(r, o[i].msg, o[n].msg)
      BY <3>1 DEF Stacked, n
    <3>3. Around(r, o[i].msg, b.msg)
      BY <1>6, <3>1, <3>2, AroundTransitive
    <3>. QED
      BY <1>2, <2>3, <3>1, <3>3
  <2>. QED
    BY <2>1, <2>2, <2>3
<1>8. Len(q) = n + 1 /\ Len(q) - 1 = n
  BY <1>1, <1>2
<1>9. Stacked(r, f, q)
  <2>1. /\ \A i \in 1 .. Len(q) : Active(r, f, q[i], i)
        /\ \A i \in 1 .. Len(q) - 1 : Took(r, f, q[i], i, q[i + 1].msg)
    BY <1>4, <1>5, <1>8
  <2>2. \A j \in 2 .. Len(q) : \A i \in 2 .. j : Around(r, q[i].msg, q[j].msg)
    BY <1>7, <1>8
  <2>. QED
    BY <1>2, <1>3, <2>1, <2>2, Zenon DEF Stacked
<1>. QED
  BY <1>2, <1>9 DEF q, n

Activation(r, m) == [msg |-> m, nested |-> r.msg[m].nested,
                     enums |-> r.msg[m].enums]

LEMMA MessageEntered ==
    ASSUME NEW r, Gen!WellFormed(r), NEW f \in DOMAIN r.file, NEW o, NEW p, NEW h,
           Traversal(r, f, o, p, h), o[Len(o)].nested # <<>>
    PROVE  LET m == Head(o[Len(o)].nested)
           IN  Traversal(r, f,
                  Append(WithLast(o, [o[Len(o)] EXCEPT !.nested = Tail(@)]),
                         Activation(r, m)),
                  Append(p, r.msg[m].name), h)
<1>. DEFINE n == Len(o)
            a == o[n]
            m == Head(a.nested)
            b == [a EXCEPT !.nested = Tail(@)]
            c == Activation(r, m)
            k == WithLast(o, b)
            q == Append(k, c)
<1>1. Stacked(r, f, o) /\ p = PackageOf(r, o) /\ Sound(r, f, h)
  BY DEF Traversal
<1>2. n \in Nat \ {0} /\ n \in 1 .. n /\ Active(r, f, a, n)
  BY <1>1, StackTop
<1>3. /\ DOMAIN a = {"msg", "nested", "enums"} /\ Gen!Declares(r, a.nested)
      /\ Gen!Range(a.nested) \subseteq Gen!Range(Whole(r, f, a, n))
  BY <1>2, Zenon DEF Active
<1>4. b.msg = a.msg /\ b.enums = a.enums /\ b.nested = Tail(a.nested)
      /\ DOMAIN b = {"msg", "nested", "enums"}
  BY <1>3
<1>5. /\ Gen!Declares(r, b.nested) /\ m \in Gen!Range(a.nested)
      /\ Gen!Range(a.nested) = {m} \cup Gen!Range(b.nested)
      /\ \A x \in Gen!Range(b.nested) : Gen!Precedes(r, m, x)
  BY <1>3, <1>4, DeclaresTail
<1>6. /\ m \in DOMAIN r.msg /\ Gen!FileOf(r, m) = f
      /\ Len(Gen!Chain(r)[m]) = n
      /\ Gen!Path(r, m) = Append(p, r.msg[m].name)
  <2>1. m \in Gen!Range(Whole(r, f, a, n))
    BY <1>3, <1>5
  <2>. HIDE DEF m, a
  <2>2. p = IF n = 1 THEN <<>> ELSE Gen!Path(r, a.msg)
    BY <1>1 DEF PackageOf, a
  <2>3. /\ m \in DOMAIN r.msg /\ Gen!FileOf(r, m) = f
        /\ Len(Gen!Chain(r)[m]) = n
        /\ Gen!Path(r, m) = Append(IF n = 1 THEN <<>> ELSE Gen!Path(r, a.msg),
                                   r.msg[m].name)
    <3>. HIDE DEF n
    <3>. QED
      BY <1>2, <2>1, InWhole
  <2>. QED
    BY <2>2, <2>3
<1>7. c.msg = m /\ c.nested = r.msg[m].nested /\ c.enums = r.msg[m].enums
      /\ DOMAIN c = {"msg", "nested", "enums"}
  BY DEF Activation
<1>. HIDE DEF b, c
<1>8. Active(r, f, b, n)
  BY <1>2, <1>4, <1>5 DEF Active, Whole
<1>9. /\ Stacked(r, f, k) /\ Len(k) = n /\ k[n] = b
      /\ \A i \in 1 .. n : i # n => k[i] = o[i]
  <2>1. b.msg = o[Len(o)].msg
    BY <1>4
  <2>2. Gen!Range(b.nested) \subseteq Gen!Range(o[Len(o)].nested)
    BY <1>5
  <2>. QED
    BY <1>1, <1>8, <2>1, <2>2, StackChanged
<1>10. Active(r, f, c, n + 1)
  <2>. HIDE DEF n, m
  <2>1. n + 1 # 1 /\ n + 1 - 1 = n
    BY <1>2
  <2>2. Gen!Declares(r, c.nested) /\ Gen!IsSeq(c.enums)
    BY <1>6, <1>7, Messages
  <2>3. Gen!Range(c.nested) \subseteq Gen!Range(Whole(r, f, c, n + 1))
    BY <1>7, <2>1 DEF Whole
  <2>4. Len(Gen!Chain(r)[c.msg]) = n + 1 - 1
    BY <1>6, <1>7, <2>1
  <2>. QED
    BY <1>6, <1>7, <2>2, <2>3, <2>4 DEF Active
<1>11. Took(r, f, b, n, m)
  BY <1>3, <1>4, <1>5 DEF Took, Whole
<1>. HIDE DEF k
<1>12. /\ Stacked(r, f, q) /\ Len(q) = n + 1 /\ q[n + 1] = c
       /\ \A i \in 1 .. n : q[i] = k[i]
  BY <1>7, <1>9, <1>10, <1>11, StackGrows
<1>. HIDE DEF q, m, a, n
<1>13. PackageOf(r, q) = Append(p, r.msg[m].name)
  <2>1. Len(q) # 1
    BY <1>2, <1>12
  <2>. QED
    BY <1>6, <1>7, <1>12, <2>1 DEF PackageOf
<1>14. q[n] = b /\ \A i \in 1 .. n : i # n => q[i] = o[i]
  BY <1>2, <1>9, <1>12
<1>15. \A i \in 1 .. n : q[i].msg = o[i].msg /\ q[i].enums = o[i].enums
  BY <1>4, <1>14 DEF a
<1>16. ASSUME NEW x \in DOMAIN r.msg, Gen!FileOf(r, x) = f
       PROVE  Covered(r, q, h, x)
  <2>1. CASE Printed(r, x, h)
    BY <2>1 DEF Covered
  <2>2. CASE Visiting(r, o, h, x)
    <3>1. PICK i \in 2 .. n :
            /\ o[i].msg = x
            /\ \A e \in Gen!Range(r.msg[x].enums) :
                e \in Gen!Range(o[i].enums) \/ EnumPrinted(h, Gen!Path(r, x), e)
      BY <2>2 DEF Visiting, n
    <3>2. i \in 1 .. n /\ i \in 2 .. Len(q)
      BY <1>2, <1>12, <3>1
    <3>3. Visiting(r, q, h, x)
      BY <1>15, <3>1, <3>2 DEF Visiting
    <3>. QED
      BY <3>3 DEF Covered
  <2>3. ASSUME NEW i \in 1 .. n, NEW d \in Gen!Range(o[i].nested), Around(r, d, x)
        PROVE  Covered(r, q, h, x)
    <3>1. i \in 1 .. Len(q) /\ n + 1 \in 1 .. Len(q) /\ n + 1 \in 2 .. Len(q)
      BY <1>2, <1>12
    <3>2. CASE i # n
      <4>1. d \in Gen!Range(q[i].nested)
        BY <1>14, <3>2
      <4>. QED
        BY <2>3, <3>1, <4>1 DEF Covered, Pending
    <3>3. CASE i = n /\ d # m
      <4>1. d \in Gen!Range(q[i].nested)
        BY <1>5, <1>14, <3>3 DEF a
      <4>. QED
        BY <2>3, <3>1, <4>1 DEF Covered, Pending
    <3>4. CASE d = m /\ x = m
      <4>1. \A e \in Gen!Range(r.msg[x].enums) : e \in Gen!Range(q[n + 1].enums)
        BY <1>7, <1>12, <3>4
      <4>2. Visiting(r, q, h, x)
        BY <1>7, <1>12, <3>1, <3>4, <4>1 DEF Visiting
      <4>. QED
        BY <4>2 DEF Covered
    <3>5. CASE d = m /\ x # m
      <4>1. PICK y \in Gen!Range(r.msg[m].nested) : Around(r, y, x)
        BY <2>3, <3>5, NextOnChain
      <4>2. y \in Gen!Range(q[n + 1].nested)
        BY <1>7, <1>12, <4>1
      <4>. QED
        BY <3>1, <4>1, <4>2 DEF Covered, Pending
    <3>. QED
      BY <3>2, <3>3, <3>4, <3>5
  <2>4. CASE Pending(r, o, x)
    BY <2>3, <2>4 DEF Pending, n
  <2>5. Covered(r, o, h, x)
    BY <1>16 DEF Traversal
  <2>. QED
    BY <2>1, <2>2, <2>4, <2>5 DEF Covered
<1>17. q[1].enums = o[1].enums
  BY <1>2, <1>15
<1>18. Traversal(r, f, q, Append(p, r.msg[m].name), h)
  BY <1>1, <1>12, <1>13, <1>16, <1>17 DEF Traversal
<1>. QED
  BY <1>18 DEF q, k, c, b, m, a, n

-----------------------------------------------------------------------------
(* The end of a message. *)

LEMMA FrontOfAppend ==
    ASSUME NEW s, Gen!IsSeq(s), NEW x
    PROVE  Front(Append(s, x)) = s
<1>. DEFINE S == Gen!Range(s) \cup {x}
            t == Append(s, x)
<1>1. s \in Seq(S) /\ x \in S
  <2>1. s \in Seq(Gen!Range(s))
    BY DEF Gen!IsSeq
  <2>. QED
    BY <2>1
<1>. HIDE DEF S
<1>2. t \in Seq(S) /\ Len(t) = Len(s) + 1 /\ Len(s) \in Nat
      /\ \A i \in 1 .. Len(s) : t[i] = s[i]
  BY <1>1
<1>. HIDE DEF t
<1>3. Front(t) = SubSeq(t, 1, Len(s))
  BY <1>2 DEF Front
<1>4. /\ SubSeq(t, 1, Len(s)) \in Seq(S)
      /\ Len(SubSeq(t, 1, Len(s))) = Len(s)
      /\ \A i \in 1 .. Len(s) : SubSeq(t, 1, Len(s))[i] = t[i]
  BY <1>2
<1>5. SubSeq(t, 1, Len(s)) = s
  BY <1>1, <1>2, <1>4
<1>. QED
  BY <1>3, <1>5 DEF t

LEMMA PathIsSequence ==
    ASSUME NEW r, Gen!WellFormed(r), NEW m \in DOMAIN r.msg
    PROVE  Gen!IsSeq(Gen!Path(r, m))
<1>. DEFINE c == Gen!Chain(r)[m]
            N == {r.msg[i].name : i \in DOMAIN r.msg}
<1>1. c \in Seq(DOMAIN r.msg)
  BY Chains DEF ChainOK
<1>. HIDE DEF c
<1>2. Len(c) \in Nat /\ DOMAIN c = 1 .. Len(c)
      /\ \A i \in 1 .. Len(c) : r.msg[c[i]].name \in N
  BY <1>1
<1>. HIDE DEF N
<1>3. [i \in 1 .. Len(c) |-> r.msg[c[i]].name] \in Seq(N)
  BY <1>2
<1>4. Gen!Path(r, m) = [i \in 1 .. Len(c) |-> r.msg[c[i]].name]
  BY <1>2 DEF Gen!Path, c
<1>. QED
  BY <1>3, <1>4, SequenceOf

\* When a message is over, those of which the declarations end before are
\* printed.
LEMMA EndedBefore ==
    ASSUME NEW r, Gen!WellFormed(r), NEW f \in DOMAIN r.file, NEW o, NEW p, NEW h,
           Traversal(r, f, o, p, h), Len(o) # 1, o[Len(o)].nested = <<>>,
           NEW x \in DOMAIN r.msg, Gen!FileOf(r, x) = f,
           Ends(r, x, o[Len(o)].msg)
    PROVE  x = o[Len(o)].msg \/ Printed(r, x, h)
<1>. DEFINE n == Len(o)
            m == o[n].msg
<1>1. Stacked(r, f, o)
  BY DEF Traversal
<1>2. n \in Nat \ {0} /\ n > 1 /\ Active(r, f, o[n], n)
  <2>1. n \in Nat \ {0} /\ n # 1 /\ Active(r, f, o[n], n)
    BY <1>1, StackTop
  <2>. HIDE DEF n
  <2>. QED
    BY <2>1
<1>3. m \in DOMAIN r.msg
  BY <1>2 DEF Active
<1>4. DOMAIN r.msg \subseteq Nat
  BY Messages
<1>5. \A i \in 2 .. n : Around(r, o[i].msg, m)
  <2>1. n \in 2 .. n
    BY <1>2
  <2>. QED
    BY <1>1, <2>1 DEF Stacked
<1>6. Ends(r, x, m) /\ o[n].nested = <<>>
  OBVIOUS
<1>7. CASE Visiting(r, o, h, x)
  <2>1. Around(r, x, m)
    BY <1>5, <1>7 DEF Visiting, n
  <2>. HIDE DEF m, n
  <2>2. Around(r, m, x)
    BY <1>6, <2>1 DEF Ends
  <2>3. x <= m /\ m <= x
    BY <1>3, <2>1, <2>2, AroundAt
  <2>. QED
    BY <1>3, <1>4, <2>3 DEF m, n
<1>8. CASE Pending(r, o, x)
  <2>0. PICK i \in 1 .. n : \E c \in Gen!Range(o[i].nested) : Around(r, c, x)
    BY <1>8 DEF Pending, n
  <2>1. PICK c \in Gen!Range(o[i].nested) : Around(r, c, x)
    BY <2>0
  <2>. DEFINE b == o[i + 1].msg
  <2>. HIDE DEF m, n
  <2>2. i # n
    BY <1>6, <2>1, Empty
  <2>3. i \in 1 .. n - 1 /\ i + 1 \in 2 .. n /\ i + 1 \in 1 .. n /\ i + 1 > 1
        /\ i \in Nat \ {0} /\ i + 1 - 1 = i
    BY <1>2, <2>2
  <2>4. Took(r, f, o[i], i, b)
    BY <1>1, <2>3 DEF Stacked, n
  <2>5. Active(r, f, o[i], i) /\ Active(r, f, o[i + 1], i + 1)
    BY <1>1, <2>3 DEF Stacked, n
  <2>6. Around(r, b, m)
    BY <1>5, <2>3
  <2>7. m < c
    BY <1>3, <2>1, <2>4, <2>6 DEF Took, Gen!Precedes, Around
  <2>8. c \in DOMAIN r.msg /\ c <= x
    BY <2>1, AroundAt
  <2>9. Around(r, m, x)
    <3>1. ~ (x < m)
      BY <1>3, <1>4, <2>7, <2>8
    <3>. QED
      BY <1>6, <3>1 DEF Ends
  <2>10. Around(r, b, x)
    BY <2>6, <2>9, AroundTransitive
  <2>11. Len(Gen!Chain(r)[b]) = i
    BY <2>3, <2>5 DEF Active
  <2>12. c \in Gen!Range(Whole(r, f, o[i], i))
    BY <2>1, <2>5 DEF Active
  <2>13. Len(Gen!Chain(r)[c]) = i
    BY <2>3, <2>5, <2>12, InWhole
  <2>14. b = c
    <3>1. Len(Gen!Chain(r)[b]) = Len(Gen!Chain(r)[c])
      BY <2>11, <2>13
    <3>. HIDE DEF b
    <3>. QED
      BY <2>1, <2>10, <3>1, AroundSame
  <2>15. b <= m
    BY <1>3, <2>6, AroundAt
  <2>. QED
    BY <1>3, <1>4, <2>7, <2>8, <2>14, <2>15
<1>9. Covered(r, o, h, x)
  BY DEF Traversal
<1>. QED
  BY <1>7, <1>8, <1>9 DEF Covered

LEMMA StackShrinks ==
    ASSUME NEW r, NEW f, NEW o, Stacked(r, f, o), Len(o) # 1
    PROVE  /\ Stacked(r, f, Front(o)) /\ Len(Front(o)) = Len(o) - 1
           /\ \A i \in 1 .. Len(o) - 1 : Front(o)[i] = o[i]
<1>. DEFINE q == Front(o)
            n == Len(o)
<1>1. n \in Nat \ {0, 1} /\ Gen!IsSeq(o) /\ o # <<>>
  BY StackTop DEF Stacked
<1>2. /\ Gen!IsSeq(q) /\ Len(q) = n - 1
      /\ \A i \in 1 .. n - 1 : q[i] = o[i]
  BY <1>1, LastRemoved
<1>. HIDE DEF q
<1>3. q # <<>>
  BY <1>1, <1>2, IsSequence
<1>. HIDE DEF n
<1>4. ASSUME NEW i \in 1 .. Len(q) PROVE Active(r, f, q[i], i)
  <2>1. i \in 1 .. n /\ q[i] = o[i]
    BY <1>1, <1>2
  <2>. QED
    BY <2>1 DEF Stacked, n
<1>5. ASSUME NEW i \in 1 .. Len(q) - 1
      PROVE  Took(r, f, q[i], i, q[i + 1].msg)
  <2>1. i \in 1 .. n - 1 /\ q[i] = o[i] /\ q[i + 1] = o[i + 1]
    BY <1>1, <1>2
  <2>. QED
    BY <2>1 DEF Stacked, n
<1>6. ASSUME NEW j \in 2 .. Len(q), NEW i \in 2 .. j
      PROVE  Around(r, q[i].msg, q[j].msg)
  <2>1. j \in 2 .. n /\ q[i] = o[i] /\ q[j] = o[j]
    BY <1>1, <1>2
  <2>. QED
    BY <2>1 DEF Stacked, n
<1>7. Stacked(r, f, q)
  BY <1>2, <1>3, <1>4, <1>5, <1>6, Zenon DEF Stacked
<1>. QED
  BY <1>2, <1>7 DEF q, n

\* What FinishMessage adds.
With(r, h, p, m) ==
    [h EXCEPT !.prototypes = Append(@, Gen!FullName(p)),
              !.source = Append(@, Gen!Source(p, r.msg[m])),
              !.definitions = Append(@, ClassOf(r, m))]

LEMMA MessageAdded ==
    ASSUME NEW r, NEW f, NEW h, Sound(r, f, h),
           NEW m \in DOMAIN r.msg, Gen!FileOf(r, m) = f,
           \A n \in DOMAIN r.msg : Gen!FileOf(r, n) = f /\ Ends(r, n, m) =>
                n = m \/ Printed(r, n, h)
    PROVE  LET g == With(r, h, Gen!Path(r, m), m)
           IN  /\ Sound(r, f, g)
               /\ \A n \in DOMAIN r.msg : Printed(r, n, h) => Printed(r, n, g)
               /\ (\A e \in Gen!Range(r.msg[m].enums) :
                    EnumPrinted(h, Gen!Path(r, m), e)) => Printed(r, m, g)
               /\ g.enums = h.enums
<1>. DEFINE path == Gen!Path(r, m)
            g == With(r, h, path, m)
            k == Len(h.definitions)
<1>1. /\ DOMAIN h = {"includes", "prototypes", "enums", "definitions", "source"}
      /\ Gen!IsSeq(h.prototypes) /\ Gen!IsSeq(h.enums)
      /\ Gen!IsSeq(h.definitions) /\ Gen!IsSeq(h.source)
  BY DEF Sound
<1>2. /\ DOMAIN g = DOMAIN h /\ g.enums = h.enums
      /\ g.prototypes = Append(h.prototypes, Gen!FullName(path))
      /\ g.source = Append(h.source, SourceOf(r, m))
      /\ g.definitions = Append(h.definitions, ClassOf(r, m))
  BY <1>1 DEF With, SourceOf
<1>. HIDE DEF g, path
<1>3. /\ Gen!IsSeq(g.prototypes)
      /\ Gen!Range(g.prototypes)
            = Gen!Range(h.prototypes) \cup {Gen!FullName(path)}
  BY <1>1, <1>2, Appended
<1>4. /\ Gen!IsSeq(g.source)
      /\ Gen!Range(g.source) = Gen!Range(h.source) \cup {SourceOf(r, m)}
  BY <1>1, <1>2, Appended
<1>5. /\ Gen!IsSeq(g.definitions) /\ Len(g.definitions) = k + 1
      /\ g.definitions[k + 1] = ClassOf(r, m)
      /\ \A i \in 1 .. k : g.definitions[i] = h.definitions[i]
      /\ Gen!Range(g.definitions) = Gen!Range(h.definitions) \cup {ClassOf(r, m)}
  BY <1>1, <1>2, Appended
<1>6. k \in Nat
  BY <1>1, IsSequence
<1>7. ASSUME NEW n \in DOMAIN r.msg, Printed(r, n, h)
      PROVE  Printed(r, n, g)
  BY <1>2, <1>3, <1>4, <1>5, <1>7 DEF Printed, EnumPrinted
<1>8. ASSUME \A e \in Gen!Range(r.msg[m].enums) : EnumPrinted(h, path, e)
      PROVE  Printed(r, m, g)
  BY <1>2, <1>3, <1>4, <1>5, <1>8 DEF Printed, EnumPrinted, path
<1>9. ASSUME NEW i \in 1 .. k
      PROVE  DefinedAt(r, f, g.definitions, i)
  <2>. HIDE DEF k
  <2>1. DefinedAt(r, f, h.definitions, i)
    BY DEF Sound, k
  <2>2. \A j \in 1 .. i : g.definitions[j] = h.definitions[j]
    <3>1. \A j \in 1 .. i : j \in 1 .. k
      BY <1>6
    <3>. QED
      BY <1>5, <3>1
  <2>3. g.definitions[i] = h.definitions[i]
    BY <1>5
  <2>. QED
    BY <2>1, <2>2, <2>3 DEF DefinedAt
<1>10. DefinedAt(r, f, g.definitions, k + 1)
  <2>1. ASSUME NEW n \in DOMAIN r.msg, Gen!FileOf(r, n) = f, Ends(r, n, m)
        PROVE  \E i \in 1 .. k + 1 : g.definitions[i] = ClassOf(r, n)
    <3>1. CASE n = m
      <4>1. k + 1 \in 1 .. k + 1
        BY <1>6
      <4>. QED
        BY <1>5, <3>1, <4>1
    <3>2. CASE Printed(r, n, h)
      <4>1. ClassOf(r, n) \in Gen!Range(h.definitions)
        BY <3>2 DEF Printed
      <4>2. PICK i \in 1 .. k : h.definitions[i] = ClassOf(r, n)
        BY <1>1, <4>1, IndexOf
      <4>3. i \in 1 .. k + 1
        BY <1>6
      <4>. QED
        BY <1>5, <4>2, <4>3
    <3>. QED
      BY <2>1, <3>1, <3>2
  <2>. QED
    BY <1>5, <2>1 DEF DefinedAt
<1>11. \A i \in 1 .. Len(g.definitions) : DefinedAt(r, f, g.definitions, i)
  <2>1. \A i \in 1 .. k + 1 : i \in 1 .. k \/ i = k + 1
    BY <1>6
  <2>. QED
    BY <1>5, <1>9, <1>10, <2>1
<1>12. \A x \in Gen!Range(g.source) : \E n \in DOMAIN r.msg : x = SourceOf(r, n)
  BY <1>4 DEF Sound
<1>13. Sound(r, f, g)
  BY <1>1, <1>2, <1>3, <1>4, <1>5, <1>11, <1>12, Zenon DEF Sound
<1>. QED
  BY <1>2, <1>7, <1>8, <1>13 DEF g, path

LEMMA MessageDone ==
    ASSUME NEW r, Gen!WellFormed(r), NEW f \in DOMAIN r.file, NEW o, NEW p, NEW h,
           Traversal(r, f, o, p, h), Len(o) # 1,
           o[Len(o)].nested = <<>>, o[Len(o)].enums = <<>>
    PROVE  /\ Traversal(r, f, Front(o), Front(p), With(r, h, p, o[Len(o)].msg))
           /\ p = Gen!Path(r, o[Len(o)].msg) /\ o[Len(o)].msg \in DOMAIN r.msg
<1>. DEFINE n == Len(o)
            m == o[n].msg
            q == Front(o)
            g == With(r, h, p, m)
<1>1. Stacked(r, f, o) /\ p = PackageOf(r, o) /\ Sound(r, f, h)
  BY DEF Traversal
<1>2. n \in Nat \ {0} /\ n > 1 /\ n # 1 /\ Active(r, f, o[n], n)
  <2>1. n \in Nat \ {0} /\ n # 1 /\ Active(r, f, o[n], n)
    BY <1>1, StackTop
  <2>. HIDE DEF n
  <2>. QED
    BY <2>1
<1>3. m \in DOMAIN r.msg /\ Gen!FileOf(r, m) = f /\ p = Gen!Path(r, m)
  BY <1>1, <1>2 DEF Active, PackageOf
<1>4. /\ Stacked(r, f, q) /\ Len(q) = n - 1
      /\ \A i \in 1 .. n - 1 : q[i] = o[i]
  <2>1. Stacked(r, f, o) /\ Len(o) # 1
    BY <1>1
  <2>2. Stacked(r, f, Front(o))
    BY <2>1, StackShrinks
  <2>3. Len(Front(o)) = Len(o) - 1
    BY <2>1, StackShrinks
  <2>4. \A i \in 1 .. Len(o) - 1 : Front(o)[i] = o[i]
    <3>1. Gen!IsSeq(o) /\ o # <<>>
      BY <2>1 DEF Stacked
    <3>. QED
      BY <3>1, LastRemoved
  <2>. QED
    BY <2>2, <2>3, <2>4
<1>5. \A x \in DOMAIN r.msg : Gen!FileOf(r, x) = f /\ Ends(r, x, m) =>
        x = m \/ Printed(r, x, h)
  BY EndedBefore
<1>6. o[n].nested = <<>> /\ o[n].enums = <<>>
  OBVIOUS
<1>. HIDE DEF q, m
<1>7. /\ Sound(r, f, g) /\ g.enums = h.enums
      /\ \A x \in DOMAIN r.msg : Printed(r, x, h) => Printed(r, x, g)
      /\ (\A e \in Gen!Range(r.msg[m].enums) :
            EnumPrinted(h, Gen!Path(r, m), e)) => Printed(r, m, g)
  BY <1>1, <1>3, <1>5, MessageAdded
<1>. HIDE DEF g, n
<1>8. Front(p) = PackageOf(r, q)
  <2>. DEFINE k == n - 1
              a == o[k]
              s == IF k = 1 THEN <<>> ELSE Gen!Path(r, a.msg)
  <2>1. k \in Nat \ {0} /\ k \in 1 .. n - 1 /\ k \in 1 .. n /\ k + 1 = n
    BY <1>2
  <2>. HIDE DEF k
  <2>2. Active(r, f, a, k) /\ Took(r, f, a, k, m)
    BY <1>1, <2>1 DEF Stacked, k, m, n
  <2>3. m \in Gen!Range(Whole(r, f, a, k))
    BY <2>2 DEF Took
  <2>4. Gen!Path(r, m) = Append(s, r.msg[m].name)
    <3>. HIDE DEF a
    <3>. QED
      BY <2>1, <2>2, <2>3, InWhole
  <2>5. Gen!IsSeq(s)
    <3>1. CASE k = 1
      BY <3>1, Empty
    <3>2. CASE k # 1
      <4>1. a.msg \in DOMAIN r.msg
        BY <2>1, <2>2, <3>2 DEF Active
      <4>. QED
        BY <3>2, <4>1, PathIsSequence
    <3>. QED
      BY <3>1, <3>2
  <2>6. PackageOf(r, q) = s
    <3>1. q[k] = a /\ Len(q) = k
      BY <1>4, <2>1 DEF k
    <3>. QED
      BY <3>1 DEF PackageOf
  <2>. HIDE DEF s
  <2>. QED
    BY <1>3, <2>4, <2>5, <2>6, FrontOfAppend
<1>9. ASSUME NEW x \in DOMAIN r.msg, Gen!FileOf(r, x) = f
      PROVE  Covered(r, q, g, x)
  <2>1. CASE Printed(r, x, h)
    BY <1>7, <2>1 DEF Covered
  <2>2. CASE Visiting(r, o, h, x)
    <3>1. PICK i \in 2 .. n :
            /\ o[i].msg = x
            /\ \A e \in Gen!Range(r.msg[x].enums) :
                e \in Gen!Range(o[i].enums) \/ EnumPrinted(h, Gen!Path(r, x), e)
      BY <2>2 DEF Visiting, n
    <3>2. CASE i = n
      <4>1. x = m
        BY <3>1, <3>2 DEF m
      <4>2. \A e \in Gen!Range(r.msg[m].enums) : EnumPrinted(h, Gen!Path(r, m), e)
        BY <1>6, <3>1, <3>2, <4>1, Empty
      <4>. QED
        BY <1>7, <4>1, <4>2 DEF Covered
    <3>3. CASE i # n
      <4>1. i \in 2 .. Len(q) /\ i \in 1 .. n - 1
        BY <1>2, <1>4, <3>3
      <4>2. q[i] = o[i]
        BY <1>4, <4>1
      <4>3. \A e \in Gen!Range(r.msg[x].enums) :
                e \in Gen!Range(q[i].enums) \/ EnumPrinted(g, Gen!Path(r, x), e)
        BY <1>7, <3>1, <4>2 DEF EnumPrinted
      <4>4. Visiting(r, q, g, x)
        BY <3>1, <4>1, <4>2, <4>3 DEF Visiting
      <4>. QED
        BY <4>4 DEF Covered
    <3>. QED
      BY <3>2, <3>3
  <2>3. CASE Pending(r, o, x)
    <3>1. PICK i \in 1 .. n : \E c \in Gen!Range(o[i].nested) : Around(r, c, x)
      BY <2>3 DEF Pending, n
    <3>2. i # n
      BY <1>6, <3>1, Empty
    <3>3. i \in 1 .. Len(q) /\ i \in 1 .. n - 1
      BY <1>2, <1>4, <3>2
    <3>4. q[i] = o[i]
      BY <1>4, <3>3
    <3>5. Pending(r, q, x)
      BY <3>1, <3>3, <3>4 DEF Pending
    <3>. QED
      BY <3>5 DEF Covered
  <2>4. Covered(r, o, h, x)
    BY <1>9 DEF Traversal
  <2>. QED
    BY <2>1, <2>2, <2>3, <2>4 DEF Covered
<1>10. \A e \in Gen!Range(r.file[f].enums) :
        e \in Gen!Range(q[1].enums) \/ EnumPrinted(g, <<>>, e)
  <2>1. q[1] = o[1]
    BY <1>2, <1>4
  <2>2. \A e \in Gen!Range(r.file[f].enums) :
        e \in Gen!Range(o[1].enums) \/ EnumPrinted(h, <<>>, e)
    BY DEF Traversal
  <2>. QED
    BY <1>7, <2>1, <2>2 DEF EnumPrinted
<1>11. Traversal(r, f, q, Front(p), g)
  BY <1>4, <1>7, <1>8, <1>9, <1>10 DEF Traversal
<1>. QED
  BY <1>3, <1>11 DEF q, g, m, n

-----------------------------------------------------------------------------
(* The invariant of the generator. *)

FilesLeft ==
    /\ queue \in Seq(DOMAIN req.file)
    /\ status = "written" => queue = <<>>
    /\ \A f \in Gen!Range(req.generate) :
        f \in Gen!Range(queue) \/ \E i \in 1 .. Len(resp) : resp[i].file = f

FileOpen ==
    open # <<>> =>
        queue # <<>> /\ Traversal(req, Head(queue), open, pkg, printer)

FilesComplete ==
    /\ Gen!IsSeq(resp)
    /\ \A i \in 1 .. Len(resp) : Complete(req, resp[i].file, resp[i].content)

GenInv == req \in Requests /\ FilesLeft /\ FileOpen /\ FilesComplete

LEMMA RequestIs ==
    ASSUME req \in Requests
    PROVE  Gen!WellFormed(req)
  BY ProgramAssumption

LEMMA GenStarts ==
    ASSUME Gen!Init
    PROVE  GenInv
<1>1. /\ req \in Requests /\ queue = req.generate /\ open = <<>>
      /\ resp = <<>> /\ status = "running"
  BY DEF Gen!Init
<1>2. req.generate \in Seq(DOMAIN req.file)
  BY <1>1, RequestIs DEF Gen!WellFormed
<1>3. FilesLeft
  BY <1>1, <1>2 DEF FilesLeft
<1>4. FilesComplete
  <2>1. Len(resp) = 0
    BY <1>1
  <2>. QED
    BY <1>1, <2>1, Empty DEF FilesComplete
<1>. QED
  BY <1>1, <1>3, <1>4 DEF GenInv, FileOpen

LEMMA QueueHead ==
    ASSUME FilesLeft, queue # <<>>
    PROVE  /\ Head(queue) \in DOMAIN req.file
           /\ Tail(queue) \in Seq(DOMAIN req.file)
           /\ Gen!Range(queue) = {Head(queue)} \cup Gen!Range(Tail(queue))
<1>1. queue \in Seq(DOMAIN req.file)
  BY DEF FilesLeft
<1>2. Gen!IsSeq(queue)
  BY <1>1, SequenceOf
<1>. QED
  BY <1>1, <1>2, TailOf

\* The steps within a file.
LEMMA FileStep ==
    ASSUME GenInv, UNCHANGED <<req, queue, resp, status>>, queue # <<>>,
           Traversal(req, Head(queue), open', pkg', printer')
    PROVE  GenInv'
<1>1. FilesLeft'
  BY DEF GenInv, FilesLeft
<1>2. FilesComplete'
  BY DEF GenInv, FilesComplete
<1>3. FileOpen'
  BY DEF FileOpen
<1>. QED
  BY <1>1, <1>2, <1>3 DEF GenInv

LEMMA StartFileStep ==
    ASSUME GenInv, Gen!StartFile
    PROVE  GenInv'
<1>. DEFINE f == Head(queue)
<1>1. /\ queue # <<>> /\ UNCHANGED <<req, queue, resp, status>>
      /\ open' = <<[msg |-> 0, nested |-> req.file[f].messages,
                    enums |-> req.file[f].enums]>>
      /\ pkg' = <<>> /\ printer' = Gen!NewFilePrinter(req.file[f])
  BY DEF Gen!StartFile
<1>2. f \in DOMAIN req.file /\ Gen!WellFormed(req)
  BY <1>1, QueueHead, RequestIs DEF GenInv
<1>3. Traversal(req, f, open', pkg', printer')
  BY <1>1, <1>2, FileStarted
<1>. QED
  BY <1>1, <1>3, FileStep

LEMMA ProcessEnumStep ==
    ASSUME GenInv, Gen!ProcessEnum
    PROVE  GenInv'
<1>1. /\ open # <<>> /\ open[Len(open)].enums # <<>>
      /\ UNCHANGED <<req, queue, pkg, resp, status>>
      /\ open' = WithLast(open, [open[Len(open)] EXCEPT !.enums = Tail(@)])
      /\ printer' = [printer EXCEPT !.enums =
            Append(@, Gen!EnumDefinition(pkg, Head(open[Len(open)].enums)))]
  BY DEF Gen!ProcessEnum, Gen!Top, Gen!SetTop, WithLast
<1>2. queue # <<>> /\ Traversal(req, Head(queue), open, pkg, printer)
  BY <1>1 DEF GenInv, FileOpen
<1>3. Head(queue) \in DOMAIN req.file /\ Gen!WellFormed(req)
  BY <1>2, QueueHead, RequestIs DEF GenInv
<1>4. Traversal(req, Head(queue), open', pkg, printer')
  BY <1>1, <1>2, <1>3, EnumAdded
<1>. QED
  BY <1>1, <1>2, <1>4, FileStep

LEMMA EnterMessageStep ==
    ASSUME GenInv, Gen!EnterMessage
    PROVE  GenInv'
<1>. DEFINE m == Head(open[Len(open)].nested)
<1>1. /\ open # <<>> /\ open[Len(open)].nested # <<>>
      /\ UNCHANGED <<req, queue, printer, resp, status>>
      /\ pkg' = Append(pkg, req.msg[m].name)
      /\ open' = Append(WithLast(open, [open[Len(open)] EXCEPT
                                            !.nested = Tail(@)]),
                        Activation(req, m))
  BY DEF Gen!EnterMessage, Gen!Top, Gen!SetTop, WithLast, Activation
<1>2. queue # <<>> /\ Traversal(req, Head(queue), open, pkg, printer)
  BY <1>1 DEF GenInv, FileOpen
<1>3. Head(queue) \in DOMAIN req.file /\ Gen!WellFormed(req)
  BY <1>2, QueueHead, RequestIs DEF GenInv
<1>4. Traversal(req, Head(queue), open', pkg', printer)
  BY <1>1, <1>2, <1>3, MessageEntered
<1>. QED
  BY <1>1, <1>2, <1>4, FileStep

LEMMA ClassIs ==
    ASSUME NEW m
    PROVE  Gen!Class(Gen!Path(req, m), req.msg[m]) = ClassOf(req, m)
  BY DEF Gen!Class, ClassOf

LEMMA FinishMessageStep ==
    ASSUME GenInv, Gen!FinishMessage
    PROVE  GenInv'
<1>. DEFINE m == open[Len(open)].msg
<1>1. /\ open # <<>> /\ Len(open) > 1
      /\ open[Len(open)].nested = <<>> /\ open[Len(open)].enums = <<>>
      /\ UNCHANGED <<req, queue, resp, status>>
      /\ open' = Front(open) /\ pkg' = Front(pkg)
      /\ printer' = [printer EXCEPT
            !.prototypes = Append(@, Gen!FullName(pkg)),
            !.source = Append(@, Gen!Source(pkg, req.msg[m])),
            !.definitions = Append(@, Gen!Class(pkg, req.msg[m]))]
  BY DEF Gen!FinishMessage, Gen!Visited, Gen!InMessage, Gen!Top, Gen!Pop, Front
<1>2. queue # <<>> /\ Traversal(req, Head(queue), open, pkg, printer)
  BY <1>1 DEF GenInv, FileOpen
<1>3. Head(queue) \in DOMAIN req.file /\ Gen!WellFormed(req) /\ Len(open) # 1
  BY <1>1, <1>2, QueueHead, RequestIs DEF GenInv
<1>4. /\ Traversal(req, Head(queue), Front(open), Front(pkg),
                   With(req, printer, pkg, m))
      /\ pkg = Gen!Path(req, m)
  BY <1>1, <1>2, <1>3, MessageDone
<1>5. printer' = With(req, printer, pkg, m)
  BY <1>1, <1>4, ClassIs DEF With
<1>. QED
  BY <1>1, <1>2, <1>4, <1>5, FileStep

LEMMA FinishFileStep ==
    ASSUME GenInv, Gen!FinishFile
    PROVE  GenInv'
<1>. DEFINE f == Head(queue)
            x == [file |-> f, content |-> printer]
<1>1. /\ open # <<>> /\ Len(open) = 1 /\ status = "running"
      /\ open[1].nested = <<>> /\ open[1].enums = <<>>
      /\ UNCHANGED <<req, status>> /\ open' = <<>>
      /\ queue' = Tail(queue) /\ resp' = Append(resp, x)
  BY DEF Gen!FinishFile, Gen!Visited, Gen!InFile, Gen!Top, Gen!Running
<1>2. queue # <<>> /\ Traversal(req, f, open, pkg, printer)
  BY <1>1 DEF GenInv, FileOpen
<1>3. Complete(req, f, printer)
  BY <1>1, <1>2, FileDone
<1>4. x.file = f /\ x.content = printer
  OBVIOUS
<1>. HIDE DEF x
<1>5. /\ Gen!IsSeq(resp') /\ Len(resp') = Len(resp) + 1 /\ Len(resp) \in Nat
      /\ resp'[Len(resp) + 1] = x
      /\ \A i \in 1 .. Len(resp) : resp'[i] = resp[i]
  BY <1>1, Appended, IsSequence DEF GenInv, FilesComplete
<1>6. FilesComplete'
  <2>1. ASSUME NEW i \in 1 .. Len(resp')
        PROVE  Complete(req, resp'[i].file, resp'[i].content)
    <3>1. CASE i = Len(resp) + 1
      BY <1>3, <1>4, <1>5, <3>1
    <3>2. CASE i # Len(resp) + 1
      <4>1. i \in 1 .. Len(resp)
        BY <1>5, <3>2
      <4>. QED
        BY <1>5, <4>1 DEF GenInv, FilesComplete
    <3>. QED
      BY <3>1, <3>2
  <2>. QED
    BY <1>1, <1>5, <2>1 DEF FilesComplete
<1>7. FilesLeft'
  <2>1. /\ Tail(queue) \in Seq(DOMAIN req.file)
        /\ Gen!Range(queue) = {f} \cup Gen!Range(Tail(queue))
    BY <1>2, QueueHead DEF GenInv
  <2>2. ASSUME NEW g \in Gen!Range(req.generate)
        PROVE  g \in Gen!Range(queue')
               \/ \E i \in 1 .. Len(resp') : resp'[i].file = g
    <3>1. CASE g \in Gen!Range(queue) /\ g # f
      BY <1>1, <2>1, <3>1
    <3>2. CASE g = f
      <4>1. Len(resp) + 1 \in 1 .. Len(resp')
        BY <1>5
      <4>. QED
        BY <1>4, <1>5, <3>2, <4>1
    <3>3. ASSUME NEW i \in 1 .. Len(resp), resp[i].file = g
          PROVE  \E j \in 1 .. Len(resp') : resp'[j].file = g
      <4>1. i \in 1 .. Len(resp')
        BY <1>5
      <4>. QED
        BY <1>5, <3>3, <4>1
    <3>4. g \in Gen!Range(queue) \/ \E i \in 1 .. Len(resp) : resp[i].file = g
      BY DEF GenInv, FilesLeft
    <3>. QED
      BY <3>1, <3>2, <3>3, <3>4
  <2>3. status' # "written" /\ req' = req
    BY <1>1
  <2>. QED
    BY <1>1, <2>1, <2>2, <2>3 DEF FilesLeft
<1>8. FileOpen'
  BY <1>1 DEF FileOpen
<1>. QED
  BY <1>1, <1>6, <1>7, <1>8 DEF GenInv

LEMMA GenStep ==
    ASSUME GenInv, Gen!Next
    PROVE  GenInv'
<1>1. CASE Gen!Fatal
  BY <1>1 DEF Gen!Fatal, GenInv, FilesLeft, FileOpen, FilesComplete
<1>2. CASE Gen!EmitResp
  BY <1>2 DEF Gen!EmitResp, GenInv, FilesLeft, FileOpen, FilesComplete
<1>. QED
  BY <1>1, <1>2, StartFileStep, ProcessEnumStep, EnterMessageStep,
     FinishMessageStep, FinishFileStep DEF Gen!Next

-----------------------------------------------------------------------------
(* Nothing is dropped. *)

LEMMA ContentIs ==
    ASSUME GenInv, status = "written", NEW f \in Gen!Generated
    PROVE  f \in DOMAIN req.file /\ Complete(req, f, Gen!Content(f))
<1>1. Gen!WellFormed(req) /\ queue = <<>> /\ f \in Gen!Range(req.generate)
  BY RequestIs DEF GenInv, FilesLeft, Gen!Generated
<1>2. f \in DOMAIN req.file
  <2>1. req.generate \in Seq(DOMAIN req.file)
    BY <1>1 DEF Gen!WellFormed
  <2>. QED
    BY <1>1, <2>1, SequenceOf
<1>3. \E i \in 1 .. Len(resp) : resp[i].file = f
  <2>1. f \in Gen!Range(queue) \/ \E i \in 1 .. Len(resp) : resp[i].file = f
    BY <1>1 DEF GenInv, FilesLeft
  <2>. QED
    BY <1>1, <2>1, Empty
<1>4. DOMAIN resp = 1 .. Len(resp)
  BY IsSequence DEF GenInv, FilesComplete
<1>. DEFINE i == CHOOSE i \in DOMAIN resp : resp[i].file = f
<1>5. i \in 1 .. Len(resp) /\ resp[i].file = f
  BY <1>3, <1>4
<1>6. Gen!Content(f) = resp[i].content
  BY DEF Gen!Content
<1>. HIDE DEF i
<1>. QED
  BY <1>2, <1>5, <1>6 DEF GenInv, FilesComplete

LEMMA EnumsDefined ==
    ASSUME NEW path, NEW enums, NEW h,
           \A e \in Gen!Range(enums) : EnumPrinted(h, path, e)
    PROVE  {[name |-> Gen!FullName(Append(path, e.name)),
             values |-> e.values] : e \in Gen!Range(enums)}
           \subseteq Gen!Range(h.enums)
  BY DEF EnumPrinted, Gen!EnumDefinition

LEMMA MemberOf ==
    ASSUME NEW x
    PROVE  /\ Gen!Member(x).num = x.num /\ Gen!Member(x).type = x.type
           /\ Gen!Member(x).cc = Gen!CcType(x)
           /\ Gen!Member(x).holder = CASE x.label = "repeated" -> "vector"
                [] x.label # "repeated" /\ x.type = "message" -> "SubMessagePtr"
                [] OTHER -> "value"
  BY DEF Gen!Member

LEMMA GenComplete ==
    ASSUME GenInv
    PROVE  Gen!NothingDropped
<1>. DEFINE Nums(fields) == [i \in DOMAIN fields |-> fields[i].num]
            Defines(h, path, enums) ==
                {[name |-> Gen!FullName(Append(path, e.name)),
                  values |-> e.values] : e \in Gen!Range(enums)}
                \subseteq Gen!Range(h.enums)
            Has(h, m) ==
                /\ \E i \in DOMAIN h.definitions :
                    /\ h.definitions[i].name = Gen!FullName(Gen!Path(req, m))
                    /\ Nums(h.definitions[i].members) = Nums(req.msg[m].fields)
                /\ \E i \in DOMAIN h.source :
                    /\ h.source[i].class = Gen!FullName(Gen!Path(req, m))
                    /\ Nums(h.source[i].descriptor) = Nums(req.msg[m].fields)
                    /\ Nums(h.source[i].reflection) = Nums(req.msg[m].fields)
                /\ Defines(h, Gen!Path(req, m), req.msg[m].enums)
<1>1. SUFFICES ASSUME status = "written", NEW f \in Gen!Generated
               PROVE  /\ Defines(Gen!Content(f), <<>>, req.file[f].enums)
                      /\ \A m \in DOMAIN req.msg : Gen!FileOf(req, m) = f =>
                            Has(Gen!Content(f), m)
  BY Zenon DEF Gen!NothingDropped
<1>. DEFINE h == Gen!Content(f)
<1>2. Complete(req, f, h)
  BY <1>1, ContentIs
<1>. HIDE DEF h
<1>3. Defines(h, <<>>, req.file[f].enums)
  BY <1>2, EnumsDefined DEF Complete
<1>4. ASSUME NEW m \in DOMAIN req.msg, Gen!FileOf(req, m) = f
      PROVE  Has(h, m)
  <2>. DEFINE fields == req.msg[m].fields
              name == Gen!FullName(Gen!Path(req, m))
  <2>1. Printed(req, m, h)
    BY <1>2, <1>4 DEF Complete
  <2>2. PICK i \in DOMAIN h.definitions : h.definitions[i] = ClassOf(req, m)
    BY <2>1 DEF Printed, Gen!Range
  <2>3. PICK j \in DOMAIN h.source : h.source[j] = SourceOf(req, m)
    BY <2>1 DEF Printed, Gen!Range
  <2>4. /\ ClassOf(req, m).name = name
        /\ ClassOf(req, m).members = [k \in DOMAIN fields |-> Gen!Member(fields[k])]
    BY DEF ClassOf
  <2>5. /\ SourceOf(req, m).class = name
        /\ SourceOf(req, m).descriptor
              = [k \in DOMAIN fields |-> Gen!FieldDescriptor(fields[k])]
        /\ SourceOf(req, m).reflection
              = [k \in DOMAIN fields |-> Gen!RegisterCalls(fields[k])]
    BY DEF SourceOf, Gen!Source
  <2>6. \A x : /\ Gen!FieldDescriptor(x).num = x.num
               /\ Gen!RegisterCalls(x).num = x.num
    BY DEF Gen!FieldDescriptor, Gen!RegisterCalls
  <2>. HIDE DEF fields, name
  <2>7. Nums(ClassOf(req, m).members) = Nums(fields)
    BY <2>4, MemberOf
  <2>8. /\ Nums(SourceOf(req, m).descriptor) = Nums(fields)
        /\ Nums(SourceOf(req, m).reflection) = Nums(fields)
    BY <2>5, <2>6
  <2>9. Defines(h, Gen!Path(req, m), req.msg[m].enums)
    BY <2>1, EnumsDefined DEF Printed
  <2>. HIDE DEF Nums, Defines
  <2>. QED
    BY <2>2, <2>3, <2>4, <2>5, <2>7, <2>8, <2>9 DEF fields, name
<1>. QED
  BY <1>3, <1>4 DEF h

-----------------------------------------------------------------------------
(* Every type resolves. *)

\* What the compiler has seen at the end of the header of f, and the classes
\* that are complete after its k-th definition.
Headers(f) == {Gen!Content(g) : g \in Gen!Included(req)[f]}

EnumsSeen(f) ==
    {e.name : e \in UNION {Gen!Range(c.enums) :
                              c \in Headers(f) \cup {Gen!Content(f)}}}

ClassesSeen(f) ==
    UNION {Gen!Range(c.prototypes) : c \in Headers(f) \cup {Gen!Content(f)}}

CompleteAt(f, k) ==
    {Gen!Content(f).definitions[i].name : i \in 1 .. k}
    \cup {d.name : d \in UNION {Gen!Range(c.definitions) : c \in Headers(f)}}

MemberCompiles(f, k, x) ==
    /\ x.type = "enum" => x.cc \in EnumsSeen(f)
    /\ x.type = "message" =>
        x.cc \in IF x.holder = "vector" THEN CompleteAt(f, k) ELSE ClassesSeen(f)
    /\ x.type = "bool" => x.holder # "vector"

ClassCompiles(f, k, c) ==
    /\ Gen!Range(c.typedefs) \subseteq EnumsSeen(f) \cup ClassesSeen(f)
    /\ \A x \in Gen!Range(c.members) : MemberCompiles(f, k, x)

\* The response is complete, and has the files that f imports.
AllWritten(f) ==
    /\ GenInv /\ status = "written"
    /\ f \in Gen!Generated /\ Gen!Included(req)[f] \subseteq Gen!Generated

Visible(f) == {f} \cup Gen!Included(req)[f]

LEMMA SeenFrom ==
    ASSUME NEW f, AllWritten(f), NEW g \in Visible(f)
    PROVE  /\ g \in DOMAIN req.file /\ Complete(req, g, Gen!Content(g))
           /\ Gen!Content(g) \in Headers(f) \cup {Gen!Content(f)}
<1>1. g \in Gen!Generated
  BY DEF AllWritten, Visible
<1>2. g \in DOMAIN req.file /\ Complete(req, g, Gen!Content(g))
  BY <1>1, ContentIs DEF AllWritten
<1>. QED
  BY <1>2 DEF Visible, Headers

LEMMA ClassSeen ==
    ASSUME NEW f, AllWritten(f), NEW n \in DOMAIN req.msg,
           Gen!FileOf(req, n) \in Visible(f)
    PROVE  Gen!FullName(Gen!Path(req, n)) \in ClassesSeen(f)
<1>. DEFINE c == Gen!Content(Gen!FileOf(req, n))
<1>1. /\ Complete(req, Gen!FileOf(req, n), c)
      /\ c \in Headers(f) \cup {Gen!Content(f)}
  BY SeenFrom
<1>2. Gen!FullName(Gen!Path(req, n)) \in Gen!Range(c.prototypes)
  BY <1>1 DEF Complete, Printed
<1>. HIDE DEF c
<1>. QED
  BY <1>1, <1>2 DEF ClassesSeen

LEMMA EnumSeen ==
    ASSUME NEW f, NEW c \in Headers(f) \cup {Gen!Content(f)},
           NEW path, NEW e, EnumPrinted(c, path, e)
    PROVE  Gen!FullName(Append(path, e.name)) \in EnumsSeen(f)
<1>1. Gen!EnumDefinition(path, e) \in Gen!Range(c.enums)
  BY DEF EnumPrinted
<1>2. Gen!EnumDefinition(path, e).name = Gen!FullName(Append(path, e.name))
  BY DEF Gen!EnumDefinition
<1>. QED
  BY <1>1, <1>2 DEF EnumsSeen

LEMMA EnumsSeenOfMessage ==
    ASSUME NEW f, AllWritten(f), NEW n \in DOMAIN req.msg,
           Gen!FileOf(req, n) \in Visible(f), NEW e \in Gen!Range(req.msg[n].enums)
    PROVE  Gen!FullName(Append(Gen!Path(req, n), e.name)) \in EnumsSeen(f)
<1>. DEFINE c == Gen!Content(Gen!FileOf(req, n))
<1>1. /\ Complete(req, Gen!FileOf(req, n), c)
      /\ c \in Headers(f) \cup {Gen!Content(f)}
  BY SeenFrom
<1>2. EnumPrinted(c, Gen!Path(req, n), e)
  BY <1>1 DEF Complete, Printed
<1>. HIDE DEF c
<1>. QED
  BY <1>1, <1>2, EnumSeen

LEMMA EnumsSeenOfFile ==
    ASSUME NEW f, AllWritten(f), NEW g \in Visible(f),
           NEW e \in Gen!Range(req.file[g].enums)
    PROVE  Gen!FullName(Append(<<>>, e.name)) \in EnumsSeen(f)
<1>1. /\ Complete(req, g, Gen!Content(g))
      /\ Gen!Content(g) \in Headers(f) \cup {Gen!Content(f)}
  BY SeenFrom
<1>2. EnumPrinted(Gen!Content(g), <<>>, e)
  BY <1>1 DEF Complete
<1>. QED
  BY <1>1, <1>2, EnumSeen

\* Without packages, the name of a type is its path.
LEMMA NameIsPath ==
    ASSUME Gen!WellFormed(req), ~ Gen!HasPackage, NEW n \in DOMAIN req.msg
    PROVE  Gen!TypeName(req, n) = Gen!Path(req, n)
<1>1. req.file[Gen!FileOf(req, n)].package = <<>>
  BY FileIs DEF Gen!HasPackage
<1>2. PICK S : Gen!Path(req, n) \in Seq(S)
  BY PathIsSequence DEF Gen!IsSeq
<1>3. \A s \in Seq(S) : <<>> \o s = s
  OBVIOUS
<1>. QED
  BY <1>1, <1>2, <1>3 DEF Gen!TypeName

\* The types of the fields of m are among those that were printed.
LEMMA RefersTo ==
    ASSUME Gen!WellFormed(req), ~ Gen!HasPackage, NEW m \in DOMAIN req.msg,
           NEW x \in Gen!FieldsOf(m)
    PROVE  LET files == Visible(Gen!FileOf(req, m))
           IN  /\ x.type = "message" => \E n \in DOMAIN req.msg :
                    /\ Gen!FileOf(req, n) \in files
                    /\ x.ref = Gen!TypeName(req, n) /\ x.ref = Gen!Path(req, n)
               /\ x.type = "enum" =>
                    \/ \E g \in DOMAIN req.file \cap files :
                        \E e \in Gen!Range(req.file[g].enums) :
                            x.ref = Append(<<>>, e.name)
                    \/ \E n \in DOMAIN req.msg :
                        /\ Gen!FileOf(req, n) \in files
                        /\ \E e \in Gen!Range(req.msg[n].enums) :
                            x.ref = Append(Gen!Path(req, n), e.name)
<1>. DEFINE f == Gen!FileOf(req, m)
<1>1. /\ x.type = "message" => x.ref \in Gen!MessageTypes(req, f)
      /\ x.type = "enum" => x.ref \in Gen!EnumTypes(req, f)
  BY DEF Gen!WellFormed, Gen!FieldsOf
<1>. HIDE DEF f
<1>2. ASSUME x.type = "message"
      PROVE  \E n \in DOMAIN req.msg :
                /\ Gen!FileOf(req, n) \in Visible(f)
                /\ x.ref = Gen!TypeName(req, n) /\ x.ref = Gen!Path(req, n)
  BY <1>1, <1>2, NameIsPath DEF Gen!MessageTypes, Visible
<1>3. ASSUME x.type = "enum"
      PROVE  \/ \E g \in DOMAIN req.file \cap Visible(f) :
                 \E e \in Gen!Range(req.file[g].enums) :
                    x.ref = Append(<<>>, e.name)
             \/ \E n \in DOMAIN req.msg :
                 /\ Gen!FileOf(req, n) \in Visible(f)
                 /\ \E e \in Gen!Range(req.msg[n].enums) :
                    x.ref = Append(Gen!Path(req, n), e.name)
  <2>1. \/ \E g \in DOMAIN req.file \cap Visible(f) :
            \E e \in Gen!Range(req.file[g].enums) :
                x.ref = Append(req.file[g].package, e.name)
        \/ \E n \in DOMAIN req.msg :
            /\ Gen!FileOf(req, n) \in Visible(f)
            /\ \E e \in Gen!Range(req.msg[n].enums) :
                x.ref = Append(Gen!TypeName(req, n), e.name)
    BY <1>1, <1>3, Zenon DEF Gen!EnumTypes, Visible
  <2>2. \A g \in DOMAIN req.file : req.file[g].package = <<>>
    BY DEF Gen!HasPackage
  <2>3. \A n \in DOMAIN req.msg : Gen!TypeName(req, n) = Gen!Path(req, n)
    BY NameIsPath
  <2>4. CASE \E g \in DOMAIN req.file \cap Visible(f) :
                \E e \in Gen!Range(req.file[g].enums) :
                    x.ref = Append(req.file[g].package, e.name)
    BY <2>2, <2>4
  <2>5. CASE \E n \in DOMAIN req.msg :
                /\ Gen!FileOf(req, n) \in Visible(f)
                /\ \E e \in Gen!Range(req.msg[n].enums) :
                    x.ref = Append(Gen!TypeName(req, n), e.name)
    BY <2>3, <2>5
  <2>. QED
    BY <2>1, <2>4, <2>5
<1>. QED
  BY <1>2, <1>3 DEF f


LEMMA ClassParts ==
    ASSUME NEW r, NEW m
    PROVE  /\ ClassOf(r, m).name = Gen!FullName(Gen!Path(r, m))
           /\ ClassOf(r, m).members = [i \in DOMAIN r.msg[m].fields |->
                                          Gen!Member(r.msg[m].fields[i])]
  BY DEF ClassOf

LEMMA RangeOfConcat ==
    ASSUME NEW s, Gen!IsSeq(s), NEW t, Gen!IsSeq(t), NEW x \in Gen!Range(s \o t)
    PROVE  x \in Gen!Range(s) \/ x \in Gen!Range(t)
<1>. DEFINE S == Gen!Range(s) \cup Gen!Range(t)
<1>1. s \in Seq(S) /\ t \in Seq(S)
  <2>1. s \in Seq(Gen!Range(s)) /\ t \in Seq(Gen!Range(t))
    BY DEF Gen!IsSeq
  <2>. QED
    BY <2>1
<1>. HIDE DEF S
<1>2. (s \o t) \in Seq(S)
  BY <1>1
<1>3. x \in S
  BY <1>2 DEF Gen!Range
<1>. QED
  BY <1>3 DEF S

\* The names that a class gives to the types nested in it.
LEMMA TypedefsCompile ==
    ASSUME NEW f, AllWritten(f), NEW m \in DOMAIN req.msg,
           Gen!FileOf(req, m) = f
    PROVE  Gen!Range(ClassOf(req, m).typedefs)
              \subseteq EnumsSeen(f) \cup ClassesSeen(f)
<1>. DEFINE path == Gen!Path(req, m)
            nested == req.msg[m].nested
            enums == req.msg[m].enums
            s == [i \in DOMAIN nested |->
                    Gen!FullName(Append(path, req.msg[nested[i]].name))]
            t == [i \in DOMAIN enums |->
                    Gen!FullName(Append(path, enums[i].name))]
<1>1. Gen!WellFormed(req) /\ f \in Visible(f)
  BY RequestIs DEF AllWritten, GenInv, Visible
<1>2. Gen!IsSeq(nested) /\ Gen!IsSeq(enums) /\ Gen!Declares(req, nested)
  BY <1>1, Messages, Declared
<1>3. /\ DOMAIN nested = 1 .. Len(nested) /\ Len(nested) \in Nat
      /\ DOMAIN enums = 1 .. Len(enums) /\ Len(enums) \in Nat
  BY <1>2, IsSequence
<1>4. ASSUME NEW n \in Gen!Range(nested)
      PROVE  Gen!FullName(Append(path, req.msg[n].name)) \in ClassesSeen(f)
  <2>. DEFINE d == Len(Gen!Chain(req)[m]) + 1
              a == Activation(req, m)
  <2>1. n \in DOMAIN req.msg
    BY <1>1, <1>4, NestedIn
  <2>2. d \in Nat \ {0} /\ d # 1 /\ d > 1 /\ d - 1 = Len(Gen!Chain(req)[m])
    <3>1. Len(Gen!Chain(req)[m]) \in Nat \ {0}
      BY <1>1, Chains, Zenon DEF ChainOK
    <3>. HIDE DEF d
    <3>2. d = Len(Gen!Chain(req)[m]) + 1
      BY DEF d
    <3>. QED
      BY <3>1, <3>2
  <2>3. a.msg = m /\ a.nested = nested /\ a.enums = enums
        /\ DOMAIN a = {"msg", "nested", "enums"}
    BY DEF Activation
  <2>. HIDE DEF d, a
  <2>4. Active(req, f, a, d)
    BY <1>2, <2>2, <2>3 DEF Active, Whole
  <2>5. n \in Gen!Range(Whole(req, f, a, d))
    BY <1>4, <2>2, <2>3 DEF Whole
  <2>6. f \in DOMAIN req.file
    BY <1>1, SeenFrom
  <2>7. Gen!FileOf(req, n) = f /\ Gen!Path(req, n) = Append(path, req.msg[n].name)
    BY <1>1, <2>2, <2>3, <2>4, <2>5, <2>6, InWhole
  <2>8. Gen!FileOf(req, n) \in Visible(f)
    BY <1>1, <2>7
  <2>9. Gen!FullName(Gen!Path(req, n)) \in ClassesSeen(f)
    BY <2>1, <2>8, ClassSeen, Zenon
  <2>. QED
    BY <2>7, <2>9
<1>5. ASSUME NEW e \in Gen!Range(enums)
      PROVE  Gen!FullName(Append(path, e.name)) \in EnumsSeen(f)
  BY <1>1, <1>5, EnumsSeenOfMessage
<1>6. ClassOf(req, m).typedefs = s \o t
  BY DEF ClassOf
<1>7. Gen!IsSeq(s) /\ Gen!Range(s) \subseteq ClassesSeen(f)
  <2>1. \A i \in 1 .. Len(nested) : nested[i] \in Gen!Range(nested)
    BY <1>3 DEF Gen!Range
  <2>. HIDE DEF nested, path
  <2>2. s \in Seq(ClassesSeen(f))
    BY <1>3, <1>4, <2>1
  <2>. QED
    BY <2>2, SequenceOf
<1>8. Gen!IsSeq(t) /\ Gen!Range(t) \subseteq EnumsSeen(f)
  <2>1. \A i \in 1 .. Len(enums) : enums[i] \in Gen!Range(enums)
    BY <1>3 DEF Gen!Range
  <2>. HIDE DEF enums, path
  <2>2. t \in Seq(EnumsSeen(f))
    BY <1>3, <1>5, <2>1
  <2>. QED
    BY <2>2, SequenceOf
<1>. HIDE DEF s, t
<1>. QED
  BY <1>6, <1>7, <1>8, RangeOfConcat

\* What the properties assume of the request.
Supported == ~ Gen!HasPackage /\ ~ Gen!RepeatsIncomplete /\ ~ Gen!RepeatsBool

\* The elements of a vector are of a class that is complete: that of the field
\* itself, one that ends before it, or one of another file.
LEMMA VectorCompiles ==
    ASSUME NEW f, AllWritten(f), Supported,
           NEW k \in DOMAIN Gen!Content(f).definitions,
           NEW m \in DOMAIN req.msg, Gen!FileOf(req, m) = f,
           Gen!Content(f).definitions[k] = ClassOf(req, m),
           \A n \in DOMAIN req.msg : Gen!FileOf(req, n) = f /\ Ends(req, n, m) =>
              \E i \in 1 .. k : Gen!Content(f).definitions[i] = ClassOf(req, n),
           NEW x \in Gen!FieldsOf(m), x.label = "repeated", x.type = "message",
           NEW n \in DOMAIN req.msg, Gen!FileOf(req, n) \in Visible(f),
           x.ref = Gen!TypeName(req, n)
    PROVE  Gen!FullName(Gen!Path(req, n)) \in CompleteAt(f, k)
<1>. DEFINE name == Gen!FullName(Gen!Path(req, n))
            defs == Gen!Content(f).definitions
<1>1. ClassOf(req, n).name = name
  BY ClassParts
<1>. HIDE DEF name
<1>2. CASE Gen!FileOf(req, n) # f
  <2>. DEFINE c == Gen!Content(Gen!FileOf(req, n))
  <2>1. c \in Headers(f)
    BY <1>2 DEF Visible, Headers
  <2>2. Complete(req, Gen!FileOf(req, n), c)
    BY SeenFrom
  <2>3. ClassOf(req, n) \in Gen!Range(c.definitions)
    BY <2>2 DEF Complete, Printed
  <2>. HIDE DEF c
  <2>. QED
    BY <1>1, <2>1, <2>3 DEF CompleteAt, name
<1>3. CASE Gen!FileOf(req, n) = f /\ n # m
  <2>1. Gen!EndsBefore(n, m)
    BY <1>3 DEF Supported, Gen!RepeatsIncomplete
  <2>2. Ends(req, n, m)
    BY <2>1 DEF Gen!EndsBefore, Ends, Around
  <2>3. PICK i \in 1 .. k : defs[i] = ClassOf(req, n)
    BY <1>3, <2>2
  <2>. QED
    BY <1>1, <2>3 DEF CompleteAt, name
<1>4. CASE n = m
  <2>1. k \in 1 .. k
    <3>1. f \in Visible(f)
      BY DEF Visible
    <3>2. Gen!IsSeq(defs)
      BY <3>1, SeenFrom DEF Complete, Sound
    <3>. HIDE DEF defs
    <3>3. DOMAIN defs = 1 .. Len(defs) /\ Len(defs) \in Nat
      BY <3>2, IsSequence
    <3>4. k \in DOMAIN defs
      BY DEF defs
    <3>. QED
      BY <3>3, <3>4
  <2>. QED
    BY <1>1, <1>4, <2>1 DEF CompleteAt, name
<1>. QED
  BY <1>2, <1>3, <1>4 DEF name

LEMMA FieldCompiles ==
    ASSUME NEW f, AllWritten(f), Supported,
           NEW k \in DOMAIN Gen!Content(f).definitions,
           NEW m \in DOMAIN req.msg, Gen!FileOf(req, m) = f,
           Gen!Content(f).definitions[k] = ClassOf(req, m),
           \A n \in DOMAIN req.msg : Gen!FileOf(req, n) = f /\ Ends(req, n, m) =>
              \E i \in 1 .. k : Gen!Content(f).definitions[i] = ClassOf(req, n),
           NEW x \in Gen!FieldsOf(m)
    PROVE  MemberCompiles(f, k, Gen!Member(x))
<1>. DEFINE y == Gen!Member(x)
<1>1. y.type = x.type /\ y.cc = Gen!CcType(x)
  BY MemberOf
<1>2. y.holder = CASE x.label = "repeated" -> "vector"
                   [] x.label # "repeated" /\ x.type = "message" -> "SubMessagePtr"
                   [] OTHER -> "value"
  BY MemberOf
<1>3. y.holder = "vector" <=> x.label = "repeated"
  BY <1>2
<1>. HIDE DEF y
<1>4. Gen!WellFormed(req) /\ ~ Gen!HasPackage
  BY RequestIs DEF AllWritten, GenInv, Supported
<1>5. ASSUME x.type = "enum" PROVE y.cc \in EnumsSeen(f)
  <2>1. y.cc = Gen!FullName(x.ref)
    BY <1>1, <1>5 DEF Gen!CcType
  <2>2. CASE \E g \in DOMAIN req.file \cap Visible(f) :
                \E e \in Gen!Range(req.file[g].enums) : x.ref = Append(<<>>, e.name)
    BY <2>1, <2>2, EnumsSeenOfFile
  <2>3. CASE \E n \in DOMAIN req.msg :
                /\ Gen!FileOf(req, n) \in Visible(f)
                /\ \E e \in Gen!Range(req.msg[n].enums) :
                    x.ref = Append(Gen!Path(req, n), e.name)
    BY <2>1, <2>3, EnumsSeenOfMessage
  <2>. QED
    BY <1>4, <1>5, <2>2, <2>3, RefersTo
<1>6. ASSUME x.type = "message"
      PROVE  y.cc \in IF y.holder = "vector" THEN CompleteAt(f, k)
                      ELSE ClassesSeen(f)
  <2>1. PICK n \in DOMAIN req.msg :
            /\ Gen!FileOf(req, n) \in Visible(f)
            /\ x.ref = Gen!TypeName(req, n) /\ x.ref = Gen!Path(req, n)
    BY <1>4, <1>6, RefersTo
  <2>2. y.cc = Gen!FullName(Gen!Path(req, n))
    BY <1>1, <1>6, <2>1 DEF Gen!CcType
  <2>3. Gen!FullName(Gen!Path(req, n)) \in ClassesSeen(f)
    BY <2>1, ClassSeen
  <2>4. ASSUME x.label = "repeated"
        PROVE  Gen!FullName(Gen!Path(req, n)) \in CompleteAt(f, k)
    BY <1>6, <2>1, <2>4, VectorCompiles
  <2>. QED
    BY <1>3, <2>2, <2>3, <2>4
<1>7. ASSUME x.type = "bool" PROVE y.holder # "vector"
  BY <1>3, <1>7 DEF Supported, Gen!RepeatsBool
<1>. QED
  BY <1>1, <1>5, <1>6, <1>7 DEF MemberCompiles, y

LEMMA HeaderCompiles ==
    ASSUME NEW f, AllWritten(f), Supported,
           NEW k \in DOMAIN Gen!Content(f).definitions
    PROVE  ClassCompiles(f, k, Gen!Content(f).definitions[k])
<1>. DEFINE defs == Gen!Content(f).definitions
<1>1. Sound(req, f, Gen!Content(f))
  <2>1. f \in Visible(f)
    BY DEF Visible
  <2>. QED
    BY <2>1, SeenFrom DEF Complete
<1>2. k \in 1 .. Len(defs)
  <2>1. Gen!IsSeq(defs)
    BY <1>1 DEF Sound
  <2>. QED
    BY <2>1, IsSequence
<1>3. DefinedAt(req, f, defs, k)
  BY <1>1, <1>2 DEF Sound
<1>4. PICK m \in DOMAIN req.msg :
        /\ Gen!FileOf(req, m) = f /\ defs[k] = ClassOf(req, m)
        /\ \A n \in DOMAIN req.msg : Gen!FileOf(req, n) = f /\ Ends(req, n, m) =>
            \E i \in 1 .. k : defs[i] = ClassOf(req, n)
  BY <1>3 DEF DefinedAt
<1>5. Gen!Range(defs[k].typedefs) \subseteq EnumsSeen(f) \cup ClassesSeen(f)
  BY <1>4, TypedefsCompile
<1>6. ASSUME NEW y \in Gen!Range(defs[k].members)
      PROVE  MemberCompiles(f, k, y)
  <2>1. defs[k].members = [i \in DOMAIN req.msg[m].fields |->
                              Gen!Member(req.msg[m].fields[i])]
    <3>1. defs[k] = ClassOf(req, m)
      BY <1>4
    <3>2. ClassOf(req, m).members = [i \in DOMAIN req.msg[m].fields |->
                                        Gen!Member(req.msg[m].fields[i])]
      BY ClassParts, SMT
    <3>3. defs[k].members = ClassOf(req, m).members
      BY <3>1
    <3>. HIDE DEF defs
    <3>. QED
      BY <3>2, <3>3
  <2>. DEFINE s == defs[k].members
              t == req.msg[m].fields
  <2>. HIDE DEF s, t
  <2>2. PICK i \in DOMAIN t : y = Gen!Member(t[i])
    <3>1. s = [i \in DOMAIN t |-> Gen!Member(t[i])] /\ y \in Gen!Range(s)
      BY <1>6, <2>1 DEF s, t
    <3>. QED
      BY <3>1 DEF Gen!Range
  <2>3. t[i] \in Gen!FieldsOf(m)
    BY <2>2 DEF Gen!FieldsOf, Gen!Range, t
  <2>. HIDE DEF Supported
  <2>4. MemberCompiles(f, k, Gen!Member(t[i]))
    BY <1>4, <2>3, FieldCompiles
  <2>. QED
    BY <2>2, <2>4
<1>. QED
  BY <1>5, <1>6 DEF ClassCompiles

LEMMA CompilesIs ==
    ASSUME NEW f,
           \A k \in DOMAIN Gen!Content(f).definitions :
              ClassCompiles(f, k, Gen!Content(f).definitions[k])
    PROVE  Gen!Compiles(f)
<1>1. ASSUME NEW k \in DOMAIN Gen!Content(f).definitions
      PROVE  /\ Gen!Range(Gen!Content(f).definitions[k].typedefs)
                  \subseteq EnumsSeen(f) \cup ClassesSeen(f)
             /\ \A x \in Gen!Range(Gen!Content(f).definitions[k].members) :
                  /\ x.type = "enum" => x.cc \in EnumsSeen(f)
                  /\ x.type = "message" =>
                      x.cc \in IF x.holder = "vector" THEN CompleteAt(f, k)
                               ELSE ClassesSeen(f)
                  /\ x.type = "bool" => x.holder # "vector"
  BY DEF ClassCompiles, MemberCompiles
<1>. QED
  BY <1>1, Zenon
  DEF Gen!Compiles, EnumsSeen, ClassesSeen, CompleteAt, Headers

LEMMA GenResolves ==
    ASSUME GenInv
    PROVE  Gen!TypesResolve
<1>1. SUFFICES ASSUME status = "written", Supported, NEW f \in Gen!Generated,
                      Gen!Included(req)[f] \subseteq Gen!Generated
               PROVE  Gen!Compiles(f)
  BY DEF Gen!TypesResolve, Supported
<1>2. AllWritten(f)
  BY <1>1 DEF AllWritten
<1>. QED
  BY <1>1, <1>2, HeaderCompiles, CompilesIs

-----------------------------------------------------------------------------
(* The lazy objects: the inductive invariant behind OneCompleteObject, of  *)
(* any number of threads, calls, slots and registrations.                  *)

Object == [slot : Slots, live : BOOLEAN, table : Seq(Registrations)]

Labels == {"idle", "test", "create", "fill", "return"}

Activity == [at : Labels, slot : Slots \cup {<<>>}, next : Nat]

LazyTypeOK ==
    /\ code \in [Slots -> Seq(Registrations)]
    /\ objs \in Seq(Object)
    /\ ptr \in [Slots -> 0 .. Len(objs)]
    /\ thread \in [Threads -> Activity]
    /\ \A t \in Threads : ~ At(t, "idle") =>
        thread[t].slot \in Slots /\ thread[t].next # 0
    /\ returned \in [Slots -> SUBSET Nat]
    /\ \A s \in Slots : ptr[s] # 0 => objs[ptr[s]].slot = s
    /\ \A t \in Threads : At(t, "fill") => ptr[thread[t].slot] # 0

Alone(t, s) == \A u \in Threads : Inside(u, s) => u = t

\* Before the object is created, one thread at most is in a call.
NotCreated(s) ==
    /\ returned[s] = {}
    /\ \A t \in Threads : Inside(t, s) =>
        /\ At(t, "test") \/ At(t, "create")
        /\ Alone(t, s)
        /\ thread[t].next = 1

\* A thread that fills the object is alone in a call, and the first one that
\* returns it finds it filled.
Created(s) ==
    /\ objs[ptr[s]].live
    /\ returned[s] \subseteq {ptr[s]}
    /\ \A t \in Threads : Inside(t, s) => ~ At(t, "create")
    /\ \A t \in Threads : Inside(t, s) /\ At(t, "fill") =>
        /\ Alone(t, s)
        /\ returned[s] = {}
        /\ thread[t].next \in 1 .. Len(code[s]) + 1
        /\ objs[ptr[s]].table = SubSeq(code[s], 1, thread[t].next - 1)
    /\ (\A t \in Threads : Inside(t, s) => ~ At(t, "fill")) =>
            objs[ptr[s]].table = code[s]

SlotOK(s) == IF ptr[s] = 0 THEN NotCreated(s) ELSE Created(s)

LazyInv == LazyTypeOK /\ \A s \in Slots \ raced : SlotOK(s)

-----------------------------------------------------------------------------
(* The registrations made so far are a prefix of those to make. *)

LEMMA PrefixGrows ==
    ASSUME NEW S, NEW q \in Seq(S), NEW n \in 1 .. Len(q)
    PROVE  Append(SubSeq(q, 1, n - 1), q[n]) = SubSeq(q, 1, n)
<1>1. SubSeq(q, 1, n - 1) \in Seq(S) /\ Len(SubSeq(q, 1, n - 1)) = n - 1
  OBVIOUS
<1>2. Append(SubSeq(q, 1, n - 1), q[n]) \in Seq(S)
      /\ SubSeq(q, 1, n) \in Seq(S)
  BY <1>1
<1>3. Len(Append(SubSeq(q, 1, n - 1), q[n])) = Len(SubSeq(q, 1, n))
  BY <1>1
<1>4. \A i \in 1 .. n :
        Append(SubSeq(q, 1, n - 1), q[n])[i] = SubSeq(q, 1, n)[i]
  BY <1>1
<1>. QED
  BY <1>2, <1>3, <1>4

LEMMA PrefixEnds ==
    ASSUME NEW S, NEW q \in Seq(S)
    PROVE  /\ SubSeq(q, 1, Len(q)) = q
           /\ SubSeq(q, 1, 0) = <<>>
  OBVIOUS

-----------------------------------------------------------------------------
(* Types. *)

LEMMA InitInv ==
    ASSUME LazyInit, code \in [Slots -> Seq(Registrations)]
    PROVE  LazyInv
<1>1. LazyTypeOK
  BY DEF LazyInit, LazyTypeOK, Activity, Idle, At, Labels
<1>2. ASSUME NEW s \in Slots
      PROVE  SlotOK(s)
  BY DEF LazyInit, SlotOK, NotCreated, Inside, Idle
<1>. QED
  BY <1>1, <1>2 DEF LazyInv

LEMMA Moved ==
    ASSUME LazyTypeOK, NEW t \in Threads, NEW label \in Labels,
           thread' = [thread EXCEPT ![t].at = label]
    PROVE  /\ thread' \in [Threads -> Activity]
           /\ thread'[t].at = label
           /\ thread'[t].slot = thread[t].slot
           /\ thread'[t].next = thread[t].next
           /\ \A u \in Threads \ {t} : thread'[u] = thread[u]
<1>. DEFINE a == thread[t]
            b == [a EXCEPT !.at = label]
<1>1. a \in Activity
  BY DEF LazyTypeOK
<1>2. thread' = [thread EXCEPT ![t] = b]
  OBVIOUS
<1>. HIDE DEF a
<1>3. b \in Activity /\ b.at = label /\ b.slot = a.slot /\ b.next = a.next
  BY <1>1 DEF Activity
<1>. HIDE DEF b
<1>4. thread' \in [Threads -> Activity] /\ thread'[t] = b
      /\ \A u \in Threads \ {t} : thread'[u] = thread[u]
  BY <1>2, <1>3 DEF LazyTypeOK
<1>. QED
  BY <1>3, <1>4 DEF a

LEMMA Counted ==
    ASSUME LazyTypeOK, NEW t \in Threads,
           thread' = [thread EXCEPT ![t].next = @ + 1]
    PROVE  /\ thread' \in [Threads -> Activity]
           /\ thread'[t].at = thread[t].at
           /\ thread'[t].slot = thread[t].slot
           /\ thread'[t].next = thread[t].next + 1
           /\ \A u \in Threads \ {t} : thread'[u] = thread[u]
<1>. DEFINE a == thread[t]
            b == [a EXCEPT !.next = a.next + 1]
<1>1. a \in Activity
  BY DEF LazyTypeOK
<1>2. thread' = [thread EXCEPT ![t] = b]
  OBVIOUS
<1>. HIDE DEF a
<1>3. /\ b \in Activity
      /\ b.at = a.at /\ b.slot = a.slot /\ b.next = a.next + 1
  BY <1>1 DEF Activity
<1>. HIDE DEF b
<1>4. thread' \in [Threads -> Activity] /\ thread'[t] = b
      /\ \A u \in Threads \ {t} : thread'[u] = thread[u]
  BY <1>2, <1>3 DEF LazyTypeOK
<1>. QED
  BY <1>3, <1>4 DEF a

LEMMA ReleasedType ==
    ASSUME LazyTypeOK, NEW s \in Slots
    PROVE  /\ Released(s) \in Seq(Object)
           /\ Len(Released(s)) = Len(objs)
           /\ \A a \in 1 .. Len(objs) :
                /\ Released(s)[a].slot = objs[a].slot
                /\ a # ptr[s] => Released(s)[a] = objs[a]
<1>1. objs \in Seq(Object) /\ DOMAIN objs = 1 .. Len(objs)
  BY DEF LazyTypeOK
<1>2. ASSUME NEW a \in 1 .. Len(objs)
      PROVE  /\ Released(s)[a] \in Object
             /\ Released(s)[a].slot = objs[a].slot
             /\ a # ptr[s] => Released(s)[a] = objs[a]
  <2>1. objs[a] \in Object
    BY <1>1
  <2>. DEFINE o == objs[a]
              r == [o EXCEPT !.live = FALSE]
  <2>2. Released(s)[a] = IF a = ptr[s] /\ s[2] = "SubMessage" THEN r ELSE o
    BY <1>1 DEF Released
  <2>. HIDE DEF o
  <2>3. o \in Object
    BY <2>1 DEF o
  <2>4. r \in Object /\ r.slot = o.slot
    BY <2>3 DEF Object
  <2>. HIDE DEF r
  <2>. QED
    BY <2>2, <2>3, <2>4 DEF o
<1>3. Released(s) = [a \in 1 .. Len(objs) |-> Released(s)[a]]
  BY <1>1 DEF Released
<1>4. Released(s) \in [1 .. Len(objs) -> Object]
  BY <1>2, <1>3
<1>5. Len(objs) \in Nat
  BY <1>1
<1>. QED
  BY <1>2, <1>4, <1>5

LEMMA CreateObjs ==
    ASSUME LazyTypeOK, NEW t \in Threads, Create(t)
    PROVE  LET s == thread[t].slot
           IN  /\ s \in Slots
               /\ objs' \in Seq(Object) /\ Len(objs') = Len(objs) + 1
               /\ Len(objs) \in Nat
               /\ \A a \in 1 .. Len(objs) :
                    /\ objs'[a].slot = objs[a].slot
                    /\ a # ptr[s] => objs'[a] = objs[a]
               /\ objs'[Len(objs) + 1].slot = s
               /\ objs'[Len(objs) + 1].live
               /\ objs'[Len(objs) + 1].table = <<>>
               /\ ptr' = [ptr EXCEPT ![s] = Len(objs) + 1]
<1>. DEFINE s == thread[t].slot
            new == [slot |-> s, live |-> TRUE, table |-> <<>>]
<1>1. s \in Slots
  BY DEF LazyTypeOK, Create, At
<1>2. objs' = Append(Released(s), new) /\ ptr' = [ptr EXCEPT ![s] = Len(objs) + 1]
  BY DEF Create
<1>. HIDE DEF s
<1>3. /\ new \in Object
      /\ new.slot = s /\ new.live /\ new.table = <<>>
  BY <1>1 DEF Object
<1>. HIDE DEF new
<1>4. Len(objs) \in Nat
  BY DEF LazyTypeOK
<1>5. /\ Released(s) \in Seq(Object) /\ Len(Released(s)) = Len(objs)
      /\ \A a \in 1 .. Len(objs) :
            /\ Released(s)[a].slot = objs[a].slot
            /\ a # ptr[s] => Released(s)[a] = objs[a]
  BY <1>1, ReleasedType
<1>6. /\ objs' \in Seq(Object) /\ Len(objs') = Len(objs) + 1
      /\ \A a \in 1 .. Len(objs) : objs'[a] = Released(s)[a]
      /\ objs'[Len(objs) + 1] = new
  BY <1>2, <1>3, <1>4, <1>5
<1>. QED
  BY <1>1, <1>2, <1>3, <1>4, <1>5, <1>6 DEF s

LEMMA RegisterObjs ==
    ASSUME LazyTypeOK, NEW t \in Threads, Register(t)
    PROVE  LET s == thread[t].slot
           IN  /\ s \in Slots /\ ptr[s] \in 1 .. Len(objs)
               /\ thread[t].next \in 1 .. Len(code[s])
               /\ objs' \in Seq(Object) /\ Len(objs') = Len(objs)
               /\ \A a \in 1 .. Len(objs) :
                    /\ objs'[a].slot = objs[a].slot
                    /\ objs'[a].live = objs[a].live
                    /\ a # ptr[s] => objs'[a] = objs[a]
               /\ objs'[ptr[s]].table =
                    Append(objs[ptr[s]].table, code[s][thread[t].next])
<1>. DEFINE s == thread[t].slot
            n == thread[t].next
            o == objs[ptr[s]]
            r == [o EXCEPT !.table = Append(o.table, code[s][n])]
<1>1. s \in Slots /\ n \in 1 .. Len(code[s]) /\ ptr[s] \in 1 .. Len(objs)
  BY DEF LazyTypeOK, Activity, Register, At
<1>2. code[s][n] \in Registrations /\ objs \in Seq(Object)
  BY <1>1 DEF LazyTypeOK
<1>3. objs' = [objs EXCEPT ![ptr[s]] = r]
  BY DEF Register
<1>. HIDE DEF s, n
<1>4. o \in Object
  BY <1>1, <1>2
<1>. HIDE DEF o
<1>5. o.table \in Seq(Registrations) /\ o.live \in BOOLEAN /\ o.slot \in Slots
  BY <1>4 DEF Object
<1>6. Append(o.table, code[s][n]) \in Seq(Registrations)
  BY <1>2, <1>5
<1>7. /\ r \in Object
      /\ r.slot = o.slot /\ r.live = o.live
      /\ r.table = Append(o.table, code[s][n])
  BY <1>4, <1>6 DEF Object
<1>. HIDE DEF r
<1>8. /\ objs' \in Seq(Object) /\ Len(objs') = Len(objs)
      /\ objs'[ptr[s]] = r
      /\ \A a \in 1 .. Len(objs) : a # ptr[s] => objs'[a] = objs[a]
  BY <1>1, <1>2, <1>3, <1>7
<1>9. \A a \in 1 .. Len(objs) : objs'[a].slot = objs[a].slot
                                 /\ objs'[a].live = objs[a].live
  BY <1>7, <1>8 DEF o
<1>. QED
  BY <1>1, <1>7, <1>8, <1>9 DEF s, n, o

LEMMA ThreadStep ==
    ASSUME LazyTypeOK, NEW t \in Threads,
           thread' \in [Threads -> Activity],
           \A u \in Threads \ {t} : thread'[u] = thread[u],
           thread'[t].at # "idle" =>
                thread'[t].slot \in Slots /\ thread'[t].next # 0,
           thread'[t].at = "fill" => ptr[thread'[t].slot] # 0,
           UNCHANGED <<code, ptr, objs>>,
           returned' \in [Slots -> SUBSET Nat]
    PROVE  LazyTypeOK'
<1>1. \A u \in Threads : thread'[u].at # "idle" =>
            thread'[u].slot \in Slots /\ thread'[u].next # 0
  BY DEF LazyTypeOK, At
<1>2. \A u \in Threads : thread'[u].at = "fill" => ptr[thread'[u].slot] # 0
  BY DEF LazyTypeOK, At
<1>. QED
  BY <1>1, <1>2 DEF LazyTypeOK, At

LEMMA TypeStep ==
    ASSUME LazyTypeOK, NEW t \in Threads,
           \/ \E s \in Slots : Call(t, s)
           \/ Test(t) \/ Create(t) \/ Register(t) \/ Filled(t) \/ Return(t)
    PROVE  LazyTypeOK'
<1>1. ASSUME NEW s \in Slots, Call(t, s)
      PROVE  LazyTypeOK'
  <2>. DEFINE new == [at |-> "test", slot |-> s, next |-> 1]
  <2>1. new \in Activity /\ thread' = [thread EXCEPT ![t] = new]
    BY <1>1 DEF Activity, Labels, Call
  <2>2. new.at = "test" /\ new.slot = s /\ new.next = 1
    OBVIOUS
  <2>. HIDE DEF new
  <2>3. thread' \in [Threads -> Activity] /\ thread'[t] = new
        /\ \A u \in Threads \ {t} : thread'[u] = thread[u]
    BY <2>1 DEF LazyTypeOK
  <2>4. UNCHANGED <<code, ptr, objs>> /\ returned' \in [Slots -> SUBSET Nat]
    BY <1>1 DEF Call, LazyTypeOK
  <2>. QED
    BY <2>2, <2>3, <2>4, ThreadStep
<1>2. ASSUME NEW label \in Labels, label # "fill",
             thread[t].at # "idle",
             thread' = [thread EXCEPT ![t].at = label],
             UNCHANGED <<code, ptr, objs, returned>>
      PROVE  LazyTypeOK'
  <2>1. /\ thread' \in [Threads -> Activity]
        /\ thread'[t].at # "fill"
        /\ thread'[t].slot = thread[t].slot
        /\ thread'[t].next = thread[t].next
        /\ \A u \in Threads \ {t} : thread'[u] = thread[u]
    BY <1>2, Moved
  <2>2. thread[t].slot \in Slots /\ thread[t].next # 0
        /\ returned' \in [Slots -> SUBSET Nat]
    BY <1>2 DEF LazyTypeOK, At
  <2>. QED
    BY <1>2, <2>1, <2>2, ThreadStep
<1>3. CASE Test(t)
  BY <1>2, <1>3 DEF Test, Goto, At, Labels
<1>4. CASE Filled(t)
  BY <1>2, <1>4 DEF Filled, Goto, At, Labels
<1>5. CASE Return(t)
  <2>1. Idle \in Activity /\ thread' = [thread EXCEPT ![t] = Idle]
    BY <1>5 DEF Activity, Labels, Idle, Return
  <2>2. thread' \in [Threads -> Activity] /\ thread'[t] = Idle
        /\ \A u \in Threads \ {t} : thread'[u] = thread[u]
    BY <2>1 DEF LazyTypeOK
  <2>3. UNCHANGED <<code, ptr, objs>>
    BY <1>5 DEF Return
  <2>4. thread[t].slot \in Slots /\ ptr[thread[t].slot] \in Nat
    BY <1>5 DEF LazyTypeOK, Return, At
  <2>5. returned' \in [Slots -> SUBSET Nat]
    BY <1>5, <2>4 DEF LazyTypeOK, Return
  <2>6. Idle.at = "idle"
    BY DEF Idle
  <2>. QED
    BY <2>2, <2>3, <2>5, <2>6, ThreadStep
<1>6. CASE Create(t)
  <2>. DEFINE s == thread[t].slot
  <2>1. /\ s \in Slots
        /\ objs' \in Seq(Object) /\ Len(objs') = Len(objs) + 1
        /\ Len(objs) \in Nat
        /\ \A a \in 1 .. Len(objs) : objs'[a].slot = objs[a].slot
        /\ objs'[Len(objs) + 1].slot = s
        /\ ptr' = [ptr EXCEPT ![s] = Len(objs) + 1]
    BY <1>6, CreateObjs
  <2>2. /\ thread' \in [Threads -> Activity]
        /\ thread'[t].at = "fill"
        /\ thread'[t].slot = s
        /\ thread'[t].next = thread[t].next
        /\ \A u \in Threads \ {t} : thread'[u] = thread[u]
    BY <1>6, Moved DEF Create, Goto, Labels
  <2>3. UNCHANGED <<code, returned>>
    BY <1>6 DEF Create
  <2>4. thread[t].next # 0
    BY <1>6 DEF Create, LazyTypeOK, At
  <2>. HIDE DEF s
  <2>5. /\ ptr' \in [Slots -> 0 .. Len(objs')]
        /\ ptr'[s] = Len(objs) + 1
        /\ \A r \in Slots \ {s} : ptr'[r] = ptr[r]
    BY <2>1 DEF LazyTypeOK
  <2>6. \A r \in Slots : ptr'[r] # 0 => objs'[ptr'[r]].slot = r
    <3>1. ASSUME NEW r \in Slots \ {s}, ptr'[r] # 0
          PROVE  objs'[ptr'[r]].slot = r
      <4>1. ptr[r] \in 1 .. Len(objs) /\ objs[ptr[r]].slot = r
        BY <3>1, <2>5 DEF LazyTypeOK
      <4>. QED
        BY <4>1, <2>1, <2>5
    <3>. QED
      BY <3>1, <2>1, <2>5
  <2>7. \A u \in Threads : At(u, "fill")' => ptr'[thread'[u].slot] # 0
    <3>1. ASSUME NEW u \in Threads \ {t}, thread[u].at = "fill"
          PROVE  ptr'[thread[u].slot] # 0
      <4>1. thread[u].slot \in Slots /\ ptr[thread[u].slot] # 0
        BY <3>1 DEF LazyTypeOK, At
      <4>. QED
        BY <4>1, <2>1, <2>5
    <3>. QED
      BY <3>1, <2>1, <2>2, <2>5 DEF At
  <2>8. \A u \in Threads : ~ At(u, "idle")' =>
            thread'[u].slot \in Slots /\ thread'[u].next # 0
    BY <2>1, <2>2, <2>4 DEF LazyTypeOK, At
  <2>. QED
    BY <2>1, <2>2, <2>3, <2>5, <2>6, <2>7, <2>8 DEF LazyTypeOK
<1>7. CASE Register(t)
  <2>1. /\ objs' \in Seq(Object) /\ Len(objs') = Len(objs)
        /\ \A a \in 1 .. Len(objs) : objs'[a].slot = objs[a].slot
    BY <1>7, RegisterObjs
  <2>2. /\ thread' \in [Threads -> Activity]
        /\ thread'[t].at = thread[t].at
        /\ thread'[t].slot = thread[t].slot
        /\ thread'[t].next = thread[t].next + 1
        /\ \A u \in Threads \ {t} : thread'[u] = thread[u]
    BY <1>7, Counted DEF Register
  <2>3. UNCHANGED <<code, ptr, returned>>
    BY <1>7 DEF Register
  <2>4. thread[t].next \in Nat /\ ptr \in [Slots -> 0 .. Len(objs)]
    BY DEF LazyTypeOK, Activity
  <2>5. \A r \in Slots : ptr[r] # 0 => objs'[ptr[r]].slot = r
    BY <2>1, <2>4 DEF LazyTypeOK
  <2>6. \A u \in Threads :
            /\ ~ At(u, "idle")' =>
                thread'[u].slot \in Slots /\ thread'[u].next # 0
            /\ At(u, "fill")' => ptr[thread'[u].slot] # 0
    <3>1. thread[t].slot \in Slots /\ ptr[thread[t].slot] # 0
      BY <1>7 DEF LazyTypeOK, Register, At
    <3>2. thread'[t].next # 0
      BY <2>2, <2>4
    <3>. QED
      BY <2>2, <3>1, <3>2 DEF LazyTypeOK, At
  <2>. QED
    BY <2>1, <2>2, <2>3, <2>4, <2>5, <2>6 DEF LazyTypeOK
<1>. QED
  BY <1>1, <1>3, <1>4, <1>5, <1>6, <1>7

-----------------------------------------------------------------------------
(* What a step does to a slot that is not raced for. *)

LEMMA Untouched ==
    ASSUME NEW r \in Slots, SlotOK(r),
           code' = code, ptr'[r] = ptr[r], returned'[r] = returned[r],
           ptr[r] # 0 => objs'[ptr[r]] = objs[ptr[r]],
           \A u \in Threads : Inside(u, r)' <=> Inside(u, r),
           \A u \in Threads : Inside(u, r) => thread'[u] = thread[u]
    PROVE  SlotOK(r)'
<1>1. ASSUME NEW u \in Threads
      PROVE  Alone(u, r)' <=> Alone(u, r)
  BY DEF Alone
<1>2. CASE ptr[r] = 0
  BY <1>1, <1>2 DEF SlotOK, NotCreated, At
<1>3. CASE ptr[r] # 0
  <2>1. Created(r)
    BY <1>3 DEF SlotOK
  <2>2. Created(r)'
    BY <1>1, <1>3, <2>1 DEF Created, At
  <2>. QED
    BY <1>3, <2>2 DEF SlotOK
<1>. QED
  BY <1>2, <1>3

LEMMA CallSlot ==
    ASSUME LazyInv, NEW t \in Threads, NEW s \in Slots, Call(t, s),
           NEW r \in Slots \ raced'
    PROVE  SlotOK(r)'
<1>. DEFINE new == [at |-> "test", slot |-> s, next |-> 1]
<1>1. /\ thread[t].at = "idle"
      /\ thread' = [thread EXCEPT ![t] = new]
      /\ raced' = IF Creating(s) THEN raced \cup {s} ELSE raced
      /\ UNCHANGED <<code, ptr, objs, returned>>
  BY DEF Call, At
<1>2. new.at = "test" /\ new.slot = s /\ new.next = 1
  OBVIOUS
<1>. HIDE DEF new
<1>3. thread'[t] = new /\ \A u \in Threads \ {t} : thread'[u] = thread[u]
  BY <1>1 DEF LazyInv, LazyTypeOK
<1>4. SlotOK(r)
  BY <1>1 DEF LazyInv
<1>5. CASE r # s
  <2>1. \A u \in Threads : Inside(u, r)' <=> Inside(u, r)
    BY <1>1, <1>2, <1>3, <1>5 DEF Inside
  <2>2. \A u \in Threads : Inside(u, r) => thread'[u] = thread[u]
    BY <1>1, <1>3 DEF Inside
  <2>. QED
    BY <1>1, <1>4, <2>1, <2>2, Untouched
<1>6. CASE r = s
  <2>1. \A u \in Threads : Inside(u, s) => ptr[s] # 0 /\ thread[u].at # "fill"
    BY <1>1, <1>6 DEF Creating, At
  <2>2. \A u \in Threads : Inside(u, s)' <=> u = t \/ Inside(u, s)
    BY <1>1, <1>2, <1>3 DEF Inside
  <2>3. CASE ptr[s] = 0
    <3>1. \A u \in Threads : Inside(u, s)' => u = t
      BY <2>1, <2>2, <2>3
    <3>2. NotCreated(s)
      BY <1>4, <1>6, <2>3 DEF SlotOK
    <3>3. NotCreated(s)'
      BY <1>1, <1>2, <1>3, <3>1, <3>2 DEF NotCreated, Alone, At
    <3>. QED
      BY <1>1, <1>6, <2>3, <3>3 DEF SlotOK
  <2>4. CASE ptr[s] # 0
    <3>1. Created(s)
      BY <1>4, <1>6, <2>4 DEF SlotOK
    <3>2. \A u \in Threads : Inside(u, s)' =>
            ~ At(u, "create")' /\ ~ At(u, "fill")'
      BY <1>2, <1>3, <2>1, <2>2, <3>1 DEF Created, At
    <3>3. \A u \in Threads : Inside(u, s) => ~ At(u, "fill")
      BY <2>1 DEF At
    <3>4. /\ objs[ptr[s]].live /\ returned[s] \subseteq {ptr[s]}
          /\ objs[ptr[s]].table = code[s]
      BY <3>1, <3>3 DEF Created
    <3>5. Created(s)'
      BY <1>1, <3>2, <3>4 DEF Created
    <3>. QED
      BY <1>1, <1>6, <2>4, <3>5 DEF SlotOK
  <2>. QED
    BY <2>3, <2>4
<1>. QED
  BY <1>5, <1>6

\* A step within a call, to a label other than "idle", that leaves the
\* pointers alone.
LEMMA MovedSlot ==
    ASSUME LazyInv, NEW t \in Threads, NEW label \in Labels,
           NEW r \in Slots \ raced,
           thread[t].at # "idle", label # "idle",
           thread' = [thread EXCEPT ![t].at = label],
           UNCHANGED <<code, ptr, returned>>,
           thread[t].slot # r =>
               (ptr[r] # 0 => objs'[ptr[r]] = objs[ptr[r]])
    PROVE  /\ SlotOK(r)
           /\ \A u \in Threads : Inside(u, r)' <=> Inside(u, r)
           /\ \A u \in Threads : Alone(u, r)' <=> Alone(u, r)
           /\ \A u \in Threads \ {t} : thread'[u] = thread[u]
           /\ thread'[t].at = label
           /\ thread'[t].next = thread[t].next
           /\ thread[t].slot # r => SlotOK(r)'
<1>1. SlotOK(r) /\ LazyTypeOK
  BY DEF LazyInv
<1>2. /\ thread'[t].at = label
      /\ thread'[t].slot = thread[t].slot
      /\ thread'[t].next = thread[t].next
      /\ \A u \in Threads \ {t} : thread'[u] = thread[u]
  BY <1>1, Moved
<1>3. \A u \in Threads : Inside(u, r)' <=> Inside(u, r)
  BY <1>2 DEF Inside
<1>4. \A u \in Threads : Alone(u, r)' <=> Alone(u, r)
  BY <1>3 DEF Alone
<1>5. ASSUME thread[t].slot # r
      PROVE  SlotOK(r)'
  <2>1. \A u \in Threads : Inside(u, r) => thread'[u] = thread[u]
    BY <1>2, <1>5 DEF Inside
  <2>. QED
    BY <1>1, <1>3, <1>5, <2>1, Untouched
<1>. QED
  BY <1>1, <1>2, <1>3, <1>4, <1>5

LEMMA TestSlot ==
    ASSUME LazyInv, NEW t \in Threads, Test(t), NEW r \in Slots \ raced'
    PROVE  SlotOK(r)'
<1>. DEFINE s == thread[t].slot
            label == IF ptr[s] = 0 THEN "create" ELSE "return"
<1>1. /\ thread[t].at = "test"
      /\ label \in Labels /\ label # "idle"
      /\ thread' = [thread EXCEPT ![t].at = label]
      /\ UNCHANGED <<code, ptr, objs, returned, raced>>
  BY DEF Test, Goto, At, Labels
<1>2. label = "create" <=> ptr[s] = 0
  OBVIOUS
<1>3. label = "create" \/ label = "return"
  OBVIOUS
<1>. HIDE DEF label, s
<1>4. /\ SlotOK(r)
      /\ \A u \in Threads : Inside(u, r)' <=> Inside(u, r)
      /\ \A u \in Threads : Alone(u, r)' <=> Alone(u, r)
      /\ \A u \in Threads \ {t} : thread'[u] = thread[u]
      /\ thread'[t].at = label
      /\ thread'[t].next = thread[t].next
      /\ s # r => SlotOK(r)'
  BY <1>1, MovedSlot DEF s
<1>5. CASE r = s /\ ptr[r] = 0
  <2>1. NotCreated(r)
    BY <1>4, <1>5 DEF SlotOK
  <2>2. NotCreated(r)'
    BY <1>1, <1>2, <1>4, <1>5, <2>1 DEF NotCreated, At
  <2>. QED
    BY <1>1, <1>5, <2>2 DEF SlotOK
<1>6. CASE r = s /\ ptr[r] # 0
  <2>1. Created(r) /\ label = "return"
    BY <1>2, <1>3, <1>4, <1>6 DEF SlotOK
  <2>2. \A u \in Threads : At(u, "fill")' <=> At(u, "fill")
    BY <1>1, <1>4, <2>1 DEF At
  <2>3. \A u \in Threads : At(u, "create")' => At(u, "create")
    BY <1>4, <2>1 DEF At
  <2>4. \A u \in Threads : thread'[u].next = thread[u].next
    BY <1>4
  <2>5. Created(r)'
    BY <1>1, <1>4, <2>1, <2>2, <2>3, <2>4 DEF Created
  <2>. QED
    BY <1>1, <1>6, <2>5 DEF SlotOK
<1>. QED
  BY <1>4, <1>5, <1>6

LEMMA FilledSlot ==
    ASSUME LazyInv, NEW t \in Threads, Filled(t), NEW r \in Slots \ raced'
    PROVE  SlotOK(r)'
<1>. DEFINE s == thread[t].slot
            n == thread[t].next
<1>1. /\ thread[t].at = "fill" /\ n > Len(code[s])
      /\ "return" \in Labels
      /\ thread' = [thread EXCEPT ![t].at = "return"]
      /\ UNCHANGED <<code, ptr, objs, returned, raced>>
  BY DEF Filled, Goto, At, Labels
<1>2. /\ SlotOK(r)
      /\ \A u \in Threads : Inside(u, r)' <=> Inside(u, r)
      /\ \A u \in Threads : Alone(u, r)' <=> Alone(u, r)
      /\ \A u \in Threads \ {t} : thread'[u] = thread[u]
      /\ thread'[t].at = "return"
      /\ s # r => SlotOK(r)'
  BY <1>1, MovedSlot
<1>3. CASE r = s
  <2>1. ptr[r] # 0 /\ Inside(t, r)
    BY <1>1, <1>3 DEF LazyInv, LazyTypeOK, Inside, At
  <2>2. Created(r)
    BY <1>2, <2>1 DEF SlotOK
  <2>3. /\ Alone(t, r) /\ n \in 1 .. Len(code[r]) + 1
        /\ objs[ptr[r]].table = SubSeq(code[r], 1, n - 1)
    BY <1>1, <2>1, <2>2 DEF Created, At
  <2>4. code[r] \in Seq(Registrations)
    BY DEF LazyInv, LazyTypeOK
  <2>. HIDE DEF s, n
  <2>5. n - 1 = Len(code[r])
    BY <1>1, <1>3, <2>3, <2>4
  <2>6. objs[ptr[r]].table = code[r]
    BY <2>3, <2>4, <2>5, PrefixEnds
  <2>7. \A u \in Threads : Inside(u, r) => u = t
    BY <2>3 DEF Alone
  <2>8. Created(r)'
    BY <1>1, <1>2, <2>2, <2>6, <2>7 DEF Created, At
  <2>. QED
    BY <1>1, <2>1, <2>8 DEF SlotOK
<1>. QED
  BY <1>2, <1>3

LEMMA ReturnSlot ==
    ASSUME LazyInv, NEW t \in Threads, Return(t), NEW r \in Slots \ raced'
    PROVE  SlotOK(r)'
<1>. DEFINE s == thread[t].slot
<1>1. /\ thread[t].at = "return"
      /\ thread' = [thread EXCEPT ![t] = Idle]
      /\ returned' = [returned EXCEPT ![s] = @ \cup {ptr[s]}]
      /\ UNCHANGED <<code, ptr, objs, raced>>
  BY DEF Return, At
<1>2. thread'[t].at = "idle" /\ \A u \in Threads \ {t} : thread'[u] = thread[u]
  BY <1>1 DEF LazyInv, LazyTypeOK, Idle
<1>3. SlotOK(r)
  BY <1>1 DEF LazyInv
<1>4. CASE r # s
  <2>1. \A u \in Threads : Inside(u, r)' <=> Inside(u, r)
    BY <1>2, <1>4 DEF Inside
  <2>2. \A u \in Threads : Inside(u, r) => thread'[u] = thread[u]
    BY <1>2, <1>4 DEF Inside
  <2>3. returned'[r] = returned[r]
    BY <1>1, <1>4 DEF LazyInv, LazyTypeOK
  <2>. QED
    BY <1>1, <1>3, <2>1, <2>2, <2>3, Untouched
<1>5. CASE r = s
  <2>1. Inside(t, r)
    BY <1>1, <1>5 DEF Inside
  <2>2. ptr[r] # 0
    BY <1>1, <1>3, <2>1 DEF SlotOK, NotCreated, At
  <2>3. Created(r)
    BY <1>3, <2>2 DEF SlotOK
  <2>4. \A u \in Threads : Inside(u, r) => thread[u].at # "fill"
    BY <1>1, <2>1, <2>3 DEF Created, Alone, At
  <2>5. \A u \in Threads : Inside(u, r)' => Inside(u, r) /\ thread'[u] = thread[u]
    BY <1>2 DEF Inside
  <2>6. returned'[r] = returned[r] \cup {ptr[r]}
    BY <1>1, <1>5 DEF LazyInv, LazyTypeOK
  <2>7. /\ objs[ptr[r]].live /\ returned'[r] \subseteq {ptr[r]}
        /\ objs[ptr[r]].table = code[r]
    BY <2>3, <2>4, <2>6 DEF Created, At
  <2>8. \A u \in Threads : Inside(u, r)' => ~ At(u, "create")' /\ ~ At(u, "fill")'
    BY <2>3, <2>4, <2>5 DEF Created, At
  <2>9. Created(r)'
    BY <1>1, <2>7, <2>8 DEF Created
  <2>. QED
    BY <1>1, <2>2, <2>9 DEF SlotOK
<1>. QED
  BY <1>4, <1>5

LEMMA CreateSlot ==
    ASSUME LazyInv, NEW t \in Threads, Create(t), NEW r \in Slots \ raced'
    PROVE  SlotOK(r)'
<1>. DEFINE s == thread[t].slot
<1>1. /\ thread[t].at = "create"
      /\ "fill" \in Labels
      /\ thread' = [thread EXCEPT ![t].at = "fill"]
      /\ UNCHANGED <<code, returned, raced>>
  BY DEF Create, Goto, At, Labels
<1>2. LazyTypeOK /\ SlotOK(r)
  BY <1>1 DEF LazyInv
<1>3. /\ s \in Slots
      /\ Len(objs) \in Nat
      /\ \A a \in 1 .. Len(objs) : a # ptr[s] => objs'[a] = objs[a]
      /\ objs'[Len(objs) + 1].live
      /\ objs'[Len(objs) + 1].table = <<>>
      /\ ptr' = [ptr EXCEPT ![s] = Len(objs) + 1]
  BY <1>2, CreateObjs
<1>4. /\ thread'[t].at = "fill"
      /\ thread'[t].slot = s
      /\ thread'[t].next = thread[t].next
      /\ \A u \in Threads \ {t} : thread'[u] = thread[u]
  BY <1>1, <1>2, Moved
<1>5. \A u \in Threads : Inside(u, r)' <=> Inside(u, r)
  BY <1>1, <1>4 DEF Inside
<1>6. CASE r # s
  <2>1. \A u \in Threads : Inside(u, r) => thread'[u] = thread[u]
    BY <1>4, <1>6 DEF Inside
  <2>2. ptr'[r] = ptr[r]
    BY <1>2, <1>3, <1>6 DEF LazyTypeOK
  <2>3. ptr[r] # 0 => objs'[ptr[r]] = objs[ptr[r]]
    <3>1. ASSUME ptr[r] # 0
          PROVE  ptr[r] \in 1 .. Len(objs) /\ ptr[r] # ptr[s]
      BY <1>2, <1>3, <1>6, <3>1 DEF LazyTypeOK
    <3>. QED
      BY <1>3, <3>1
  <2>. QED
    BY <1>1, <1>2, <1>5, <2>1, <2>2, <2>3, Untouched
<1>7. CASE r = s
  <2>1. Inside(t, r)
    BY <1>1, <1>7 DEF Inside
  <2>2. ptr[r] = 0
    BY <1>1, <1>2, <2>1 DEF SlotOK, Created, At
  <2>3. /\ returned[r] = {}
        /\ \A u \in Threads : Inside(u, r) => u = t
        /\ thread[t].next = 1
    BY <1>2, <2>1, <2>2 DEF SlotOK, NotCreated, Alone
  <2>4. ptr'[r] = Len(objs) + 1
    BY <1>2, <1>3, <1>7 DEF LazyTypeOK
  <2>5. code[r] \in Seq(Registrations)
    BY <1>2 DEF LazyTypeOK
  <2>6. 1 \in 1 .. Len(code[r]) + 1 /\ SubSeq(code[r], 1, 0) = <<>>
    BY <2>5, PrefixEnds
  <2>7. \A u \in Threads : Alone(u, r)' <=> Alone(u, r)
    BY <1>5 DEF Alone
  <2>8. Alone(t, r)
    BY <2>3 DEF Alone
  <2>9. /\ objs'[ptr'[r]].live /\ objs'[ptr'[r]].table = <<>>
        /\ returned'[r] = {}
    BY <1>1, <1>3, <2>3, <2>4
  <2>10. thread'[t].next - 1 = 0 /\ thread'[t].next = 1
    BY <1>4, <2>3
  <2>11. \A u \in Threads : Inside(u, r)' => u = t
    BY <1>5, <2>3
  <2>12. Inside(t, r)' /\ At(t, "fill")' /\ ~ At(t, "create")'
    BY <1>4, <1>5, <2>1 DEF At
  <2>13. Created(r)'
    BY <1>1, <2>6, <2>7, <2>8, <2>9, <2>10, <2>11, <2>12 DEF Created
  <2>14. ptr'[r] # 0
    BY <1>3, <2>4
  <2>. QED
    BY <2>13, <2>14 DEF SlotOK
<1>. QED
  BY <1>6, <1>7

LEMMA RegisterSlot ==
    ASSUME LazyInv, NEW t \in Threads, Register(t), NEW r \in Slots \ raced'
    PROVE  SlotOK(r)'
<1>. DEFINE s == thread[t].slot
            n == thread[t].next
<1>1. /\ thread[t].at = "fill"
      /\ thread' = [thread EXCEPT ![t].next = @ + 1]
      /\ UNCHANGED <<code, ptr, returned, raced>>
  BY DEF Register, At
<1>2. LazyTypeOK /\ SlotOK(r)
  BY <1>1 DEF LazyInv
<1>3. /\ s \in Slots /\ ptr[s] \in 1 .. Len(objs)
      /\ n \in 1 .. Len(code[s])
      /\ \A a \in 1 .. Len(objs) :
            /\ objs'[a].live = objs[a].live
            /\ a # ptr[s] => objs'[a] = objs[a]
      /\ objs'[ptr[s]].table = Append(objs[ptr[s]].table, code[s][n])
  BY <1>2, RegisterObjs
<1>4. /\ thread'[t].at = "fill"
      /\ thread'[t].slot = s
      /\ thread'[t].next = n + 1
      /\ \A u \in Threads \ {t} : thread'[u] = thread[u]
  BY <1>1, <1>2, Counted
<1>5. \A u \in Threads : Inside(u, r)' <=> Inside(u, r)
  BY <1>1, <1>4 DEF Inside
<1>6. thread[t].slot = s /\ thread[t].next = n /\ Len(objs) \in Nat
  BY <1>2 DEF LazyTypeOK
<1>. HIDE DEF s, n
<1>7. CASE r # s
  <2>1. \A u \in Threads : Inside(u, r) => thread'[u] = thread[u]
    BY <1>4, <1>7, <1>6 DEF Inside
  <2>2. ptr[r] # 0 => objs'[ptr[r]] = objs[ptr[r]]
    <3>1. ASSUME ptr[r] # 0
          PROVE  ptr[r] \in 1 .. Len(objs) /\ ptr[r] # ptr[s]
      BY <1>2, <1>3, <1>7, <1>6, <3>1 DEF LazyTypeOK
    <3>. QED
      BY <1>3, <3>1
  <2>. QED
    BY <1>1, <1>2, <1>5, <2>1, <2>2, Untouched
<1>8. CASE r = s
  <2>1. Inside(t, r) /\ At(t, "fill") /\ ptr[r] # 0
    BY <1>1, <1>3, <1>8, <1>6 DEF Inside, At
  <2>2. Created(r)
    BY <1>2, <2>1 DEF SlotOK
  <2>3. /\ Alone(t, r)
        /\ returned[r] = {}
        /\ objs[ptr[r]].table = SubSeq(code[r], 1, n - 1)
        /\ objs[ptr[r]].live
    BY <1>6, <2>1, <2>2 DEF Created
  <2>4. code[r] \in Seq(Registrations)
    BY <1>2 DEF LazyTypeOK
  <2>5. objs'[ptr[r]].table = SubSeq(code[r], 1, n)
    <3>1. n \in 1 .. Len(code[r])
      BY <1>3, <1>8
    <3>2. Append(SubSeq(code[r], 1, n - 1), code[r][n]) = SubSeq(code[r], 1, n)
      BY <2>4, <3>1, PrefixGrows
    <3>. QED
      BY <1>3, <1>8, <2>3, <3>2
  <2>6. n + 1 \in 1 .. Len(code[r]) + 1 /\ (n + 1) - 1 = n
    BY <1>3, <1>8, <2>4
  <2>7. \A u \in Threads : Alone(u, r)' <=> Alone(u, r)
    BY <1>5 DEF Alone
  <2>8. \A u \in Threads : Inside(u, r)' => u = t
    BY <1>5, <2>3 DEF Alone
  <2>9. Inside(t, r)' /\ At(t, "fill")' /\ ~ At(t, "create")'
    BY <1>4, <1>5, <2>1 DEF At
  <2>10. objs'[ptr[r]].live
    BY <1>3, <1>8, <2>3
  <2>11. Created(r)'
    BY <1>1, <1>4, <2>3, <2>5, <2>6, <2>7, <2>8, <2>9, <2>10 DEF Created
  <2>. QED
    BY <1>1, <2>1, <2>11 DEF SlotOK
<1>. QED
  BY <1>7, <1>8

-----------------------------------------------------------------------------

LEMMA NextInv ==
    ASSUME LazyInv, [LazyNext]_lazyVars
    PROVE  LazyInv'
<1>1. CASE LazyNext
  <2>1. PICK t \in Threads :
            \/ \E s \in Slots : Call(t, s)
            \/ Test(t) \/ Create(t) \/ Register(t) \/ Filled(t) \/ Return(t)
    BY <1>1 DEF LazyNext
  <2>2. LazyTypeOK'
    BY <2>1, TypeStep DEF LazyInv
  <2>3. \A r \in Slots \ raced' : SlotOK(r)'
    BY <2>1, CallSlot, TestSlot, CreateSlot, RegisterSlot, FilledSlot, ReturnSlot
  <2>. QED
    BY <2>2, <2>3 DEF LazyInv
<1>2. CASE UNCHANGED lazyVars
  <2>1. LazyTypeOK'
    BY <1>2 DEF lazyVars, LazyInv, LazyTypeOK, At
  <2>2. ASSUME NEW r \in Slots \ raced'
        PROVE  SlotOK(r)'
    <3>1. SlotOK(r)
      BY <1>2 DEF lazyVars, LazyInv
    <3>. QED
      BY <1>2, <3>1, Untouched DEF lazyVars, Inside
  <2>. QED
    BY <2>1, <2>2 DEF LazyInv
<1>. QED
  BY <1>1, <1>2

LEMMA InvComplete ==
    ASSUME LazyInv
    PROVE  OneCompleteObject
<1>1. ASSUME NEW s \in Slots \ raced, NEW a \in returned[s]
      PROVE  a = ptr[s] /\ objs[a].live /\ objs[a].table = code[s]
  <2>1. Created(s)
    BY <1>1 DEF LazyInv, SlotOK, NotCreated
  <2>. QED
    BY <1>1, <2>1 DEF Created
<1>. QED
  BY <1>1 DEF OneCompleteObject

-----------------------------------------------------------------------------
(* The program. *)

\* The decoder finds each field of the first table in the second.
Answers(a, e) ==
    /\ a.num = e.num /\ a.of = Gen!CamelName(e.type)
    /\ DecoderOp(e) \in Range(a.ops)

Answered(descriptor, reflection) ==
    \A e \in Range(descriptor) : \E a \in Range(reflection) : Answers(a, e)

\* The tables that are printed for a message.
Fills(src) ==
    /\ src.descriptor \in Seq(Registrations)
    /\ src.reflection \in Seq(Registrations)
    /\ Answered(src.descriptor, src.reflection)

\* The class was linked with both of its tables.
Linkable ==
    Answered(code[<<Served, "Descriptor">>], code[<<Served, "Reflection">>])

\* Nothing is asked for before the program is linked.
ProgramInv ==
    GenInv /\ ((LazyInv /\ Linkable) \/ (code = <<>> /\ LazyInit))

-----------------------------------------------------------------------------
(* What is linked. *)

\* The accessors that are registered for a field answer what is asked for it.
LEMMA CallsAnswer ==
    ASSUME NEW f
    PROVE  Answers(Gen!RegisterCalls(f), Gen!FieldDescriptor(f))
<1>. DEFINE e == Gen!FieldDescriptor(f)
            a == Gen!RegisterCalls(f)
<1>1. /\ e.num = f.num /\ e.type = f.type
      /\ e.repeated = (f.label = "repeated")
  BY DEF Gen!FieldDescriptor
<1>2. a.num = f.num /\ a.of = Gen!CamelName(f.type)
  BY DEF Gen!RegisterCalls
<1>3. a.ops = CASE f.label = "repeated" ->
                     <<"GetRepeated", "AddRepeated", "FieldSize">>
                [] f.label # "repeated" /\ f.type = "string" ->
                     <<"Mutable", "Get">>
                [] f.label # "repeated" /\ f.type = "message" ->
                     <<"Mutable", "Get", "HasField">>
                [] OTHER -> <<"Set", "Get">>
  BY DEF Gen!RegisterCalls
<1>. HIDE DEF a, e
<1>4. ASSUME f.label = "repeated"
      PROVE  DecoderOp(e) \in Range(a.ops)
  <2>1. DecoderOp(e) = "AddRepeated"
    BY <1>1, <1>4 DEF DecoderOp
  <2>2. a.ops = <<"GetRepeated", "AddRepeated", "FieldSize">>
    BY <1>3, <1>4
  <2>3. a.ops[2] = "AddRepeated" /\ 2 \in DOMAIN a.ops
    BY <2>2
  <2>. QED
    BY <2>1, <2>3 DEF Range
<1>5. ASSUME f.label # "repeated" /\ f.type \in {"string", "message"}
      PROVE  DecoderOp(e) \in Range(a.ops)
  <2>1. DecoderOp(e) = "Mutable"
    BY <1>1, <1>5 DEF DecoderOp
  <2>2. a.ops = <<"Mutable", "Get">> \/ a.ops = <<"Mutable", "Get", "HasField">>
    BY <1>3, <1>5
  <2>3. a.ops[1] = "Mutable" /\ 1 \in DOMAIN a.ops
    BY <2>2
  <2>. QED
    BY <2>1, <2>3 DEF Range
<1>6. ASSUME f.label # "repeated" /\ f.type \notin {"string", "message"}
      PROVE  DecoderOp(e) \in Range(a.ops)
  <2>1. DecoderOp(e) = "Set"
    BY <1>1, <1>6 DEF DecoderOp
  <2>2. a.ops = <<"Set", "Get">>
    BY <1>3, <1>6
  <2>3. a.ops[1] = "Set" /\ 1 \in DOMAIN a.ops
    BY <2>2
  <2>. QED
    BY <2>1, <2>3 DEF Range
<1>7. DecoderOp(e) \in Range(a.ops)
  BY <1>4, <1>5, <1>6
<1>. QED
  BY <1>1, <1>2, <1>7 DEF Answers, a, e

\* The tables of a class are sequences of registrations.
LEMMA SourceFills ==
    ASSUME req \in Requests, NEW m \in DOMAIN req.msg, NEW path
    PROVE  Fills(Gen!Source(path, req.msg[m]))
<1>. DEFINE fields == req.msg[m].fields
            n == Len(fields)
<1>1. Gen!IsSeq(fields)
  BY RequestIs, Messages
<1>2. DOMAIN fields = 1 .. n /\ n \in Nat
  BY <1>1, IsSequence
<1>3. ASSUME NEW i \in 1 .. n
      PROVE  /\ Gen!FieldDescriptor(fields[i]) \in Registrations
             /\ Gen!RegisterCalls(fields[i]) \in Registrations
  BY <1>2, <1>3, ProgramAssumption
<1>. HIDE DEF fields
<1>4. /\ [i \in 1 .. n |-> Gen!FieldDescriptor(fields[i])] \in Seq(Registrations)
      /\ [i \in 1 .. n |-> Gen!RegisterCalls(fields[i])] \in Seq(Registrations)
  BY <1>2, <1>3
<1>5. Gen!Source(path, req.msg[m]) =
        [class |-> Gen!FullName(path),
         descriptor |-> [i \in 1 .. n |-> Gen!FieldDescriptor(fields[i])],
         reflection |-> [i \in 1 .. n |-> Gen!RegisterCalls(fields[i])]]
  BY <1>2 DEF Gen!Source, fields
<1>6. Answered([i \in 1 .. n |-> Gen!FieldDescriptor(fields[i])],
               [i \in 1 .. n |-> Gen!RegisterCalls(fields[i])])
  BY CallsAnswer DEF Answered, Range
<1>. QED
  BY <1>4, <1>5, <1>6 DEF Fills

\* The program is linked with the tables of one message of the request.
LEMMA Linked ==
    ASSUME GenInv, Link
    PROVE  code' \in [Slots -> Seq(Registrations)] /\ Linkable'
<1>1. PICK file \in Range(resp) : \E src \in Range(file.content.source) :
        code' = [s \in Slots |-> CASE s[2] = "Descriptor" -> src.descriptor
                                   [] s[2] = "Reflection" -> src.reflection
                                   [] OTHER -> <<>>]
  BY DEF Link
<1>2. PICK src \in Range(file.content.source) :
        code' = [s \in Slots |-> CASE s[2] = "Descriptor" -> src.descriptor
                                   [] s[2] = "Reflection" -> src.reflection
                                   [] OTHER -> <<>>]
  BY <1>1
<1>3. Sound(req, file.file, file.content)
  <2>1. Gen!IsSeq(resp)
    BY DEF GenInv, FilesComplete
  <2>2. PICK i \in 1 .. Len(resp) : resp[i] = file
    BY <1>1, <2>1, IsSequence DEF Range
  <2>. QED
    BY <2>2 DEF GenInv, FilesComplete, Complete
<1>4. PICK m \in DOMAIN req.msg : src = SourceOf(req, m)
  BY <1>2, <1>3 DEF Sound, Range, Gen!Range
<1>5. Fills(src)
  BY <1>4, SourceFills DEF GenInv, SourceOf
<1>6. <<>> \in Seq(Registrations)
  OBVIOUS
<1>7. /\ code'[<<Served, "Descriptor">>] = src.descriptor
      /\ code'[<<Served, "Reflection">>] = src.reflection
  BY <1>2, ProgramAssumption
<1>8. Linkable'
  BY <1>5, <1>7 DEF Fills, Linkable, Answered, Answers
<1>. QED
  BY <1>2, <1>5, <1>6, <1>8 DEF Fills

-----------------------------------------------------------------------------
(* The program. *)

LEMMA GenUnchanged ==
    ASSUME GenInv, UNCHANGED genVars
    PROVE  GenInv'
  BY DEF genVars, GenInv, FilesLeft, FileOpen, FilesComplete

LEMMA ProgramStep ==
    ASSUME ProgramInv, [Next]_vars
    PROVE  ProgramInv'
<1>1. CASE Gen!Next /\ UNCHANGED lazyVars
  <2>1. GenInv'
    BY <1>1, GenStep DEF ProgramInv
  <2>2. ASSUME LazyInv, Linkable PROVE LazyInv' /\ Linkable'
    <3>1. LazyInv'
      BY <1>1, <2>2, NextInv
    <3>. QED
      BY <1>1, <2>2, <3>1 DEF lazyVars, Linkable, Answered, Answers
  <2>3. ASSUME code = <<>> /\ LazyInit PROVE (code = <<>> /\ LazyInit)'
    BY <1>1, <2>3 DEF LazyInit, lazyVars
  <2>. QED
    BY <2>1, <2>2, <2>3 DEF ProgramInv
<1>2. CASE Link
  <2>1. GenInv'
    BY <1>2, GenUnchanged DEF ProgramInv, Link
  <2>2. code' \in [Slots -> Seq(Registrations)] /\ Linkable'
    BY <1>2, Linked DEF ProgramInv
  <2>3. code = <<>> /\ Slots # {}
    <3>1. <<Served, "Descriptor">> \in Slots
      BY ProgramAssumption
    <3>. QED
      BY <1>2, <3>1 DEF Link
  <2>4. ~ LazyInv
    BY <2>3 DEF LazyInv, LazyTypeOK
  <2>5. LazyInit'
    BY <1>2, <2>4 DEF ProgramInv, Link, LazyInit
  <2>6. LazyTypeOK'
    BY <2>2, <2>5 DEF LazyInit, LazyTypeOK, Activity, Idle, At, Labels
  <2>7. ASSUME NEW s \in Slots PROVE SlotOK(s)'
    BY <2>5 DEF LazyInit, SlotOK, NotCreated, Inside, Idle
  <2>. QED
    BY <2>1, <2>2, <2>6, <2>7 DEF ProgramInv, LazyInv
<1>3. CASE LazyNext /\ UNCHANGED genVars
  <2>1. GenInv'
    BY <1>3, GenUnchanged DEF ProgramInv
  <2>2. ASSUME LazyInv, Linkable PROVE LazyInv' /\ Linkable'
    <3>1. LazyInv'
      BY <1>3, <2>2, NextInv
    <3>2. code' = code
      BY <1>3 DEF LazyNext, Call, Test, Create, Register, Filled, Return
    <3>. QED
      BY <2>2, <3>1, <3>2 DEF Linkable, Answered, Answers
  <2>3. ASSUME code = <<>>, LazyInit PROVE FALSE
    BY <1>3, <2>3
    DEF LazyNext, Call, Test, Create, Register, Filled, Return, LazyInit, At, Idle
  <2>. QED
    BY <2>1, <2>2, <2>3 DEF ProgramInv
<1>4. CASE UNCHANGED vars
  <2>1. UNCHANGED genVars /\ UNCHANGED lazyVars
    BY <1>4 DEF vars
  <2>2. GenInv'
    BY <2>1, GenUnchanged DEF ProgramInv
  <2>3. ASSUME LazyInv, Linkable PROVE LazyInv' /\ Linkable'
    <3>1. LazyInv'
      BY <2>1, <2>3, NextInv
    <3>. QED
      BY <2>1, <2>3, <3>1 DEF lazyVars, Linkable, Answered, Answers
  <2>4. ASSUME code = <<>> /\ LazyInit PROVE (code = <<>> /\ LazyInit)'
    BY <2>1, <2>4 DEF LazyInit, lazyVars
  <2>. QED
    BY <2>2, <2>3, <2>4 DEF ProgramInv
<1>. QED
  BY <1>1, <1>2, <1>3, <1>4 DEF Next

LEMMA ProgramStarts ==
    Init => ProgramInv
  BY GenStarts DEF Init, ProgramInv

\* What protoc gets is complete, for any request and however its messages are
\* nested: the traversal of processMessage meets each of them, under its path,
\* and a file is done when nothing of it is left.
THEOREM NothingMissing == Spec => []NothingDropped
<1>1. Init => ProgramInv
  BY ProgramStarts
<1>2. ProgramInv /\ [Next]_vars => ProgramInv'
  BY ProgramStep
<1>3. ProgramInv => NothingDropped
  BY GenComplete DEF ProgramInv, NothingDropped
<1>. QED
  BY <1>1, <1>2, <1>3, PTL DEF Spec

\* The headers compile, for any request: the definitions of a file are in an
\* order in which each class that another one needs complete is in front of it,
\* and all other types are declared before the definitions.
THEOREM HeadersResolve == Spec => []TypesResolve
<1>1. Init => ProgramInv
  BY ProgramStarts
<1>2. ProgramInv /\ [Next]_vars => ProgramInv'
  BY ProgramStep
<1>3. ProgramInv => TypesResolve
  BY GenResolves DEF ProgramInv, TypesResolve
<1>. QED
  BY <1>1, <1>2, <1>3, PTL DEF Spec

\* The calls that do not overlap with the one that creates a Descriptor, a
\* Reflection or a default sub-message all return one object, complete with all
\* that the generator printed for it: for any request and any number of threads.
THEOREM CreatedOnce == Spec => []OneCompleteObject
<1>1. Init => ProgramInv
  BY ProgramStarts
<1>2. ProgramInv /\ [Next]_vars => ProgramInv'
  BY ProgramStep
<1>3. ProgramInv => OneCompleteObject
  <2>1. ASSUME LazyInit PROVE OneCompleteObject
    BY <2>1 DEF LazyInit, OneCompleteObject
  <2>. QED
    BY <2>1, InvComplete DEF ProgramInv
<1>. QED
  BY <1>1, <1>2, <1>3, PTL DEF Spec

\* No assertion of reflection.h fails in a decode, whatever messages the .proto
\* files declare: DecodeMessage finds the accessor it wants for every field that
\* the Descriptor knows, unless the first calls of the getters raced.
THEOREM AccessorsMatchDescriptor == Spec => []AccessorsFound
<1>1. Init => ProgramInv
  BY ProgramStarts
<1>2. ProgramInv /\ [Next]_vars => ProgramInv'
  BY ProgramStep
<1>3. ASSUME ProgramInv PROVE AccessorsFound
  <2>. DEFINE D == <<Served, "Descriptor">>
              R == <<Served, "Reflection">>
  <2>1. D \in Slots /\ R \in Slots
    BY ProgramAssumption
  <2>2. CASE LazyInit
    BY <2>1, <2>2 DEF LazyInit, AccessorsFound
  <2>3. CASE LazyInv /\ Linkable
    <3>1. OneCompleteObject
      BY <2>3, InvComplete
    <3>2. ASSUME NEW d \in returned[D], NEW r \in returned[R],
                 {D, R} \cap raced = {}
          PROVE  Answered(objs[d].table, objs[r].table)
      <4>1. objs[d].table = code[D] /\ objs[r].table = code[R]
        BY <2>1, <3>1, <3>2 DEF OneCompleteObject
      <4>. QED
        BY <2>3, <4>1 DEF Linkable
    <3>. QED
      BY <3>2 DEF AccessorsFound, Answered, Answers
  <2>. QED
    BY <1>3, <2>2, <2>3 DEF ProgramInv
<1>. QED
  BY <1>1, <1>2, <1>3, PTL DEF Spec

=============================================================================
