------------------------ MODULE MessageObjectProofs ------------------------
(***************************************************************************)
(* The ownership of message objects in memory, for any number of declared  *)
(* messages and any sequence of calls, with assignments of a message to a  *)
(* part of itself or the other way round.                                  *)
(***************************************************************************)
EXTENDS MessageObject, Induction, FiniteSetTheorems, SequenceTheorems, TLAPS

-----------------------------------------------------------------------------
(* Trees of objects, in the memory h. *)

Kids(m) == ({m.sub} \ {0}) \cup Range(m.subs)

TreeOf(h) ==
    LET tree[a \in DOMAIN h] == {a} \cup UNION {tree[c] : c \in Kids(h[a])}
    IN  tree

\* What a message holds was constructed after it.
Forward(h) == \A a \in DOMAIN h : \A c \in Kids(h[a]) : c \in DOMAIN h /\ a < c

\* C contains what its messages hold.
Closed(h, C) == \A x \in C : Kids(h[x]) \subseteq C

LEMMA TreesAre ==
    /\ Tree = TreeOf(obj)
    /\ \A a : Children(a) = Kids(obj[a])
    /\ \A a : InSubs(a) = UNION {Tree[e] : e \in Range(obj[a].subs)}
  BY DEF Tree, TreeOf, Children, Kids, InSubs

IsTrees(h, t) ==
    t = [a \in DOMAIN h |-> {a} \cup UNION {t[c] : c \in Kids(h[a])}]

\* The recursive definition of the trees has a solution: of each object, what
\* every closed set contains that contains it.
LEMMA TreesExist ==
    ASSUME NEW h, Forward(h)
    PROVE  \E t : IsTrees(h, t)
  <1> DEFINE D == DOMAIN h
             In(x, C) == C \in SUBSET D /\ x \in C /\ Closed(h, C)
             R == [x \in D |-> {b \in D : \A C : In(x, C) => b \in C}]
  <1>1. \A x \in D : Kids(h[x]) \subseteq D
    BY DEF Forward
  <1>2. \A x \in D : \A b : b \in R[x] <=> b \in D /\ \A C : In(x, C) => b \in C
    OBVIOUS
  <1>3. DOMAIN R = D /\ R = [x \in D |-> R[x]]
    OBVIOUS
  <1> HIDE DEF R
  <1>4. ASSUME NEW x \in D
        PROVE  R[x] = {x} \cup UNION {R[c] : c \in Kids(h[x])}
    <2> DEFINE C == {x} \cup UNION {R[c] : c \in Kids(h[x])}
    <2>1. \A y \in D : y \in R[y] /\ Closed(h, R[y]) /\ R[y] \subseteq D
      <3>1. ASSUME NEW y \in D, NEW b \in R[y], NEW k \in Kids(h[b])
            PROVE  k \in R[y]
        <4>1. b \in D /\ k \in D
          BY <1>1, <1>2, <3>1
        <4>2. ASSUME NEW E, In(y, E)
              PROVE  k \in E
          BY <1>2, <3>1, <4>2 DEF Closed
        <4>. QED
          BY <1>2, <4>1, <4>2
      <3>. QED
        BY <1>2, <3>1 DEF Closed
    <2>2. In(x, C)
      <3>1. C \subseteq D
        BY <1>1, <2>1
      <3>2. ASSUME NEW b \in C, NEW k \in Kids(h[b])
            PROVE  k \in C
        <4>1. CASE b = x
          BY <1>1, <2>1, <3>2, <4>1
        <4>2. CASE b # x
          <5>1. PICK c \in Kids(h[x]) : b \in R[c]
            BY <4>2
          <5>2. k \in R[c]
            BY <1>1, <2>1, <3>2, <5>1 DEF Closed
          <5>. QED
            BY <5>2
        <4>. QED
          BY <4>1, <4>2
      <3>. QED
        BY <3>1, <3>2 DEF Closed
    <2>3. R[x] \subseteq C
      BY <1>2, <2>2
    <2>4. ASSUME NEW c \in Kids(h[x])
          PROVE  R[c] \subseteq R[x]
      <3>1. \A E : In(x, E) => In(c, E)
        BY <2>4 DEF Closed
      <3>. QED
        BY <1>1, <1>2, <3>1
    <2>. QED
      BY <2>1, <2>3, <2>4
  <1>5. IsTrees(h, R)
    BY <1>3, <1>4 DEF IsTrees
  <1>. QED
    BY <1>5

LEMMA TreeAt ==
    ASSUME NEW h, Forward(h), NEW a \in DOMAIN h
    PROVE  TreeOf(h)[a] = {a} \cup UNION {TreeOf(h)[c] : c \in Kids(h[a])}
  <1>1. TreeOf(h) = CHOOSE t : IsTrees(h, t)
    BY Zenon DEF TreeOf, IsTrees
  <1>2. IsTrees(h, TreeOf(h))
    BY <1>1, TreesExist, Zenon
  <1>. QED
    BY <1>2, Zenon DEF IsTrees

Object == [num : Nums \cup {0}, sub : Nat, has : BOOLEAN, subs : Seq(Nat)]

Memory(h) == h \in Seq(Object) /\ Forward(h)

\* A set of addresses of h that contains each one of which it contains all
\* later ones.
LEMMA AddressInduction ==
    ASSUME NEW h, h \in Seq(Object), NEW T,
           \A a \in DOMAIN h : (\A b \in DOMAIN h : a < b => b \in T) => a \in T
    PROVE  DOMAIN h \subseteq T
  <1> DEFINE n == Len(h)
             R == {k \in Nat : \A a \in 1 .. n : n - a = k => a \in T}
  <1>1. n \in Nat /\ DOMAIN h = 1 .. n
    BY LenProperties
  <1>2. ASSUME NEW k \in Nat, \A j \in Nat : j < k => j \in R
        PROVE  k \in R
    <2>1. ASSUME NEW a \in 1 .. n, n - a = k
          PROVE  a \in T
      <3>1. ASSUME NEW b \in 1 .. n, a < b
            PROVE  b \in T
        <4>1. n - b \in Nat /\ n - b < k
          BY <1>1, <2>1, <3>1
        <4>. QED
          BY <1>2, <4>1
      <3>. QED
        BY <1>1, <2>1, <3>1
    <2>. QED
      BY <2>1
  <1> HIDE DEF R
  <1>3. \A k \in Nat : k \in R
    BY <1>2, StrongInduction
  <1>4. ASSUME NEW a \in 1 .. n
        PROVE  a \in T
    <2>1. n - a \in Nat
      BY <1>1
    <2>. QED
      BY <1>3, <2>1 DEF R
  <1>. QED
    BY <1>1, <1>4

\* A tree is the smallest closed set around its root.
LEMMA TreeLeast ==
    ASSUME NEW h, Memory(h), NEW a \in DOMAIN h, NEW C, a \in C, Closed(h, C)
    PROVE  TreeOf(h)[a] \subseteq C
  <1> DEFINE T == {x \in DOMAIN h : x \in C => TreeOf(h)[x] \subseteq C}
  <1>1. ASSUME NEW x \in DOMAIN h, \A b \in DOMAIN h : x < b => b \in T
        PROVE  x \in T
    <2>1. SUFFICES ASSUME x \in C
                   PROVE  TreeOf(h)[x] \subseteq C
      OBVIOUS
    <2>2. \A c \in Kids(h[x]) : TreeOf(h)[c] \subseteq C
      BY <1>1, <2>1 DEF Memory, Forward, Closed
    <2>. QED
      BY <2>1, <2>2, TreeAt DEF Memory
  <1> HIDE DEF T
  <1>2. DOMAIN h \subseteq T
    BY <1>1, AddressInduction DEF Memory
  <1>. QED
    BY <1>2 DEF T

LEMMA TreeClosed ==
    ASSUME NEW h, Memory(h), NEW a \in DOMAIN h
    PROVE  Closed(h, TreeOf(h)[a])
  <1> DEFINE T == {x \in DOMAIN h : Closed(h, TreeOf(h)[x])}
  <1>0. Forward(h)
    BY DEF Memory
  <1>1. ASSUME NEW x \in DOMAIN h, \A b \in DOMAIN h : x < b => b \in T
        PROVE  x \in T
    <2>1. \A c \in Kids(h[x]) :
            /\ c \in DOMAIN h
            /\ Closed(h, TreeOf(h)[c])
            /\ TreeOf(h)[c] \subseteq TreeOf(h)[x]
      BY <1>0, <1>1, TreeAt DEF Forward
    <2>2. ASSUME NEW b \in TreeOf(h)[x]
          PROVE  Kids(h[b]) \subseteq TreeOf(h)[x]
      <3>1. CASE b = x
        <4>1. \A c \in Kids(h[x]) : c \in TreeOf(h)[c]
          BY <1>0, <2>1, TreeAt
        <4>. QED
          BY <2>1, <3>1, <4>1
      <3>2. CASE b # x
        <4>1. PICK c \in Kids(h[x]) : b \in TreeOf(h)[c]
          BY <1>0, <2>2, <3>2, TreeAt
        <4>. QED
          BY <2>1, <4>1 DEF Closed
      <3>. QED
        BY <3>1, <3>2
    <2>. QED
      BY <2>2 DEF Closed
  <1> HIDE DEF T
  <1>2. DOMAIN h \subseteq T
    BY <1>1, AddressInduction DEF Memory
  <1>. QED
    BY <1>2 DEF T

LEMMA TreeProperties ==
    ASSUME NEW h, Memory(h), NEW a \in DOMAIN h
    PROVE  /\ a \in TreeOf(h)[a]
           /\ TreeOf(h)[a] \subseteq DOMAIN h
           /\ \A b \in TreeOf(h)[a] : a <= b /\ TreeOf(h)[b] \subseteq TreeOf(h)[a]
  <1> DEFINE C == {x \in DOMAIN h : a <= x}
  <1>1. a \in TreeOf(h)[a]
    BY TreeAt DEF Memory
  <1>2. DOMAIN h \subseteq Nat
    BY LenProperties DEF Memory
  <1>3. Closed(h, C)
    <2>1. ASSUME NEW x \in C, NEW c \in Kids(h[x])
          PROVE  c \in C
      <3>1. c \in DOMAIN h /\ x < c
        BY <2>1 DEF Memory, Forward
      <3>. QED
        BY <1>2, <3>1
    <2>. QED
      BY <2>1 DEF Closed
  <1>4. a \in C
    BY <1>2
  <1>5. TreeOf(h)[a] \subseteq C
    BY <1>3, <1>4, TreeLeast
  <1>6. \A b \in TreeOf(h)[a] : TreeOf(h)[b] \subseteq TreeOf(h)[a]
    BY <1>5, TreeClosed, TreeLeast
  <1>. QED
    BY <1>1, <1>5, <1>6

-----------------------------------------------------------------------------
(* One owner for each object. *)

\* The pointers of a message: its sub-message, if any, and its elements.
Slots(m) == DOMAIN m.subs \cup (IF m.sub = 0 THEN {} ELSE {0})
Ref(m, s) == IF s = 0 THEN m.sub ELSE m.subs[s]

\* Every two pointers of the messages of L go to different objects.
Unshared(h, L) ==
    \A p \in L, q \in L : \A s \in Slots(h[p]), t \in Slots(h[q]) :
        Ref(h[p], s) = Ref(h[q], t) => p = q /\ s = t

\* The messages of L are trees, the roots of which are the declared ones.
Shape(h, L) ==
    /\ Memory(h)
    /\ Roots \subseteq L
    /\ L \subseteq DOMAIN h
    /\ \A a \in L : Kids(h[a]) \subseteq L \ Roots
    /\ Unshared(h, L)
    /\ \A a \in L \ Roots : \E p \in L : a \in Kids(h[p])

LEMMA KidsAre ==
    ASSUME NEW m \in Object
    PROVE  /\ Kids(m) = {Ref(m, s) : s \in Slots(m)}
           /\ 0 \notin DOMAIN m.subs
  <1>1. /\ DOMAIN m.subs = 1 .. Len(m.subs)
        /\ Range(m.subs) = {m.subs[i] : i \in DOMAIN m.subs}
    BY LenProperties DEF Object, Range
  <1>2. 0 \notin DOMAIN m.subs
    BY <1>1
  <1>3. \A s \in DOMAIN m.subs : Ref(m, s) = m.subs[s]
    BY <1>2 DEF Ref
  <1>4. Ref(m, 0) = m.sub
    BY DEF Ref
  <1>5. Kids(m) \subseteq {Ref(m, s) : s \in Slots(m)}
    BY <1>1, <1>3, <1>4 DEF Kids, Slots
  <1>6. {Ref(m, s) : s \in Slots(m)} \subseteq Kids(m)
    BY <1>1, <1>3, <1>4 DEF Kids, Slots
  <1>. QED
    BY <1>2, <1>5, <1>6

\* An object is held by one message only.
LEMMA OneParent ==
    ASSUME NEW h, NEW L, Shape(h, L), NEW p \in L, NEW q \in L,
           NEW c \in Kids(h[p]), c \in Kids(h[q])
    PROVE  p = q
  <1>1. h[p] \in Object /\ h[q] \in Object
    BY DEF Shape, Memory
  <1>2. PICK s \in Slots(h[p]) : c = Ref(h[p], s)
    BY <1>1, KidsAre
  <1>3. PICK t \in Slots(h[q]) : c = Ref(h[q], t)
    BY <1>1, KidsAre
  <1>. QED
    BY <1>2, <1>3 DEF Shape, Unshared

LEMMA TreeIsLive ==
    ASSUME NEW h, NEW L, Shape(h, L), NEW a \in L
    PROVE  TreeOf(h)[a] \subseteq L
  <1>1. Closed(h, L)
    BY DEF Closed, Shape
  <1>. QED
    BY <1>1, TreeLeast DEF Shape

\* A tree that contains an object other than its root contains what holds it.
LEMMA ParentInTree ==
    ASSUME NEW h, NEW L, Shape(h, L), NEW a \in L, NEW p \in L,
           NEW c \in Kids(h[p]), c \in TreeOf(h)[a], c # a
    PROVE  p \in TreeOf(h)[a]
  <1> DEFINE T == TreeOf(h)[a]
             C == {a} \cup UNION {Kids(h[x]) : x \in T}
  <1>1. Memory(h) /\ a \in DOMAIN h /\ T \subseteq L
    BY TreeIsLive DEF Shape
  <1>2. a \in T /\ Closed(h, T)
    BY <1>1, TreeProperties, TreeClosed
  <1>3. C \subseteq T
    BY <1>2 DEF Closed
  <1>4. Closed(h, C)
    BY <1>3 DEF Closed
  <1>5. T \subseteq C
    BY <1>1, <1>4, TreeLeast
  <1>6. PICK x \in T : c \in Kids(h[x])
    BY <1>5
  <1>. QED
    BY <1>1, <1>6, OneParent

\* Two trees are one inside the other, or apart.
LEMMA TreesApart ==
    ASSUME NEW h, NEW L, Shape(h, L), NEW a \in L, NEW b \in L,
           a \notin TreeOf(h)[b], b \notin TreeOf(h)[a]
    PROVE  TreeOf(h)[a] \cap TreeOf(h)[b] = {}
  <1> DEFINE C == TreeOf(h)[a] \ TreeOf(h)[b]
  <1>1. /\ Memory(h)
        /\ a \in DOMAIN h
        /\ TreeOf(h)[a] \subseteq L
        /\ a \in TreeOf(h)[a]
        /\ Closed(h, TreeOf(h)[a])
    BY TreeIsLive, TreeProperties, TreeClosed DEF Shape
  <1>2. Closed(h, C)
    <2>1. ASSUME NEW x \in C, NEW c \in Kids(h[x]), c \in TreeOf(h)[b]
          PROVE  FALSE
      <3>1. x \in L /\ c \in TreeOf(h)[a]
        BY <1>1 DEF Closed
      <3>2. c # b
        BY <3>1
      <3>. QED
        BY <2>1, <3>1, <3>2, ParentInTree
    <2>. QED
      BY <1>1, <2>1 DEF Closed
  <1>3. TreeOf(h)[a] \subseteq C
    BY <1>1, <1>2, TreeLeast
  <1>. QED
    BY <1>3

-----------------------------------------------------------------------------
(* What a step does to the objects: the message at p becomes m, which has  *)
(* lost the parts D, the objects `new` are constructed, and the trees of D *)
(* are destroyed.                                                          *)

Gone(h, D) == UNION {TreeOf(h)[c] : c \in D}

Fresh(h, new) == Len(h) + 1 .. Len(h) + Len(new)

Updated(h, p, m, new, gone) ==
    [a \in DOMAIN h |-> IF a = p THEN m ELSE IF a \in gone THEN New ELSE h[a]]
    \o new

\* The new objects are trees, the roots of which m holds, once each.
Change(h, L, p, m, new, D) ==
    /\ p \in L /\ m \in Object /\ new \in Seq(Object)
    /\ D \subseteq Kids(h[p])
    /\ Kids(h[p]) \ D \subseteq Kids(m)
    /\ Kids(m) \subseteq (Kids(h[p]) \ D) \cup Fresh(h, new)
    /\ \A s \in Slots(m), t \in Slots(m) : Ref(m, s) = Ref(m, t) => s = t
    /\ \A i \in DOMAIN new : \A c \in Kids(new[i]) :
        c \in Fresh(h, new) /\ Len(h) + i < c /\ c \notin Kids(m)
    /\ \A i \in DOMAIN new, j \in DOMAIN new :
        \A s \in Slots(new[i]), t \in Slots(new[j]) :
            Ref(new[i], s) = Ref(new[j], t) => i = j /\ s = t
    /\ \A f \in Fresh(h, new) :
        f \in Kids(m) \/ \E i \in DOMAIN new : f \in Kids(new[i])

LEMMA NewIsEmpty == New \in Object /\ Kids(New) = {} /\ Slots(New) = {}
  <1>1. New \in Object
    BY DEF New, Object
  <1>2. Range(New.subs) = {} /\ DOMAIN New.subs = {} /\ New.sub = 0
    BY DEF New, Range
  <1>. QED
    BY <1>1, <1>2 DEF Kids, Slots

IsUpdated(h, p, m, new, gone, u) ==
    /\ u \in Seq(Object)
    /\ Len(u) = Len(h) + Len(new)
    /\ \A a \in 1 .. Len(h) :
        u[a] = IF a = p THEN m ELSE IF a \in gone THEN New ELSE h[a]
    /\ \A i \in 1 .. Len(new) : u[Len(h) + i] = new[i]

LEMMA UpdatedIs ==
    ASSUME NEW h \in Seq(Object), NEW p, NEW m \in Object,
           NEW new \in Seq(Object), NEW gone
    PROVE  IsUpdated(h, p, m, new, gone, Updated(h, p, m, new, gone))
  <1> DEFINE g == [a \in DOMAIN h |->
                      IF a = p THEN m ELSE IF a \in gone THEN New ELSE h[a]]
             n == Len(h)
  <1>1. n \in Nat /\ DOMAIN h = 1 .. n /\ \A a \in 1 .. n : h[a] \in Object
    BY LenProperties, ElementOfSeq
  <1>2. g \in [1 .. n -> Object]
    BY <1>1, NewIsEmpty
  <1>3. g \in Seq(Object)
    BY <1>1, <1>2, SeqDef
  <1>4. Len(g) = n
    BY <1>1, <1>2, <1>3, LenProperties
  <1>5. \A a \in 1 .. n :
            g[a] = IF a = p THEN m ELSE IF a \in gone THEN New ELSE h[a]
    BY <1>1
  <1>6. Len(new) \in Nat
    BY LenProperties
  <1> HIDE DEF g
  <1>7. /\ g \o new \in Seq(Object)
        /\ Len(g \o new) = n + Len(new)
        /\ \A a \in 1 .. n + Len(new) :
            (g \o new)[a] = IF a <= n THEN g[a] ELSE new[a - n]
    <2>1. /\ g \o new \in Seq(Object)
          /\ Len(g \o new) = Len(g) + Len(new)
          /\ \A a \in 1 .. Len(g) + Len(new) :
                (g \o new)[a] = IF a <= Len(g) THEN g[a] ELSE new[a - Len(g)]
      BY <1>3, ConcatProperties, Zenon
    <2>. QED
      BY <1>4, <2>1
  <1>8. \A a \in 1 .. n : (g \o new)[a] = g[a]
    BY <1>1, <1>6, <1>7
  <1>9. \A i \in 1 .. Len(new) : (g \o new)[n + i] = new[i]
    <2>1. ASSUME NEW i \in 1 .. Len(new)
          PROVE  (g \o new)[n + i] = new[i]
      <3>1. n + i \in 1 .. n + Len(new) /\ ~ (n + i <= n) /\ (n + i) - n = i
        BY <1>1, <1>6
      <3>. QED
        BY <1>7, <3>1
    <2>. QED
      BY <2>1
  <1>10. Updated(h, p, m, new, gone) = g \o new
    BY DEF Updated, g
  <1>11. \A a \in 1 .. n :
            (g \o new)[a] = IF a = p THEN m ELSE IF a \in gone THEN New ELSE h[a]
    BY <1>5, <1>8
  <1>12. IsUpdated(h, p, m, new, gone, g \o new)
    BY <1>7, <1>9, <1>11 DEF IsUpdated
  <1>. QED
    BY <1>10, <1>12

\* What is destroyed is whole trees, and nothing else held any of it.
LEMMA GoneIs ==
    ASSUME NEW h, NEW L, Shape(h, L), NEW p \in L,
           NEW D, D \subseteq Kids(h[p])
    PROVE  /\ D \subseteq Gone(h, D)
           /\ Gone(h, D) \subseteq L \ Roots
           /\ \A a \in Gone(h, D) : p < a /\ Kids(h[a]) \subseteq Gone(h, D)
           /\ \A c \in Kids(h[p]) \ D : c \notin Gone(h, D)
           /\ \A q \in L \ Gone(h, D) : \A c \in Kids(h[q]) :
                q # p => c \notin Gone(h, D)
           /\ Gone(h, D) \subseteq TreeOf(h)[p] \ {p}
  <1>1. /\ Memory(h) /\ p \in DOMAIN h /\ L \subseteq DOMAIN h
        /\ \A c \in D : c \in L \ Roots /\ p < c /\ c \in DOMAIN h
        /\ DOMAIN h \subseteq Nat
    BY LenProperties DEF Shape, Memory, Forward
  <1>2. ASSUME NEW d \in D
        PROVE  /\ TreeOf(h)[d] \subseteq L \ Roots
               /\ \A a \in TreeOf(h)[d] :
                    p < a /\ Kids(h[a]) \subseteq TreeOf(h)[d]
               /\ d \in TreeOf(h)[d]
    <2>1. /\ TreeOf(h)[d] \subseteq L
          /\ \A a \in TreeOf(h)[d] : d <= a
          /\ Closed(h, TreeOf(h)[d])
          /\ d \in TreeOf(h)[d]
      BY <1>1, TreeIsLive, TreeProperties, TreeClosed
    <2>2. Closed(h, TreeOf(h)[d] \ Roots)
      BY <2>1 DEF Closed, Shape
    <2>3. TreeOf(h)[d] \subseteq TreeOf(h)[d] \ Roots
      BY <1>1, <2>1, <2>2, TreeLeast
    <2>4. \A a \in TreeOf(h)[d] : p < a
      BY <1>1, <2>1
    <2>. QED
      BY <2>1, <2>3, <2>4 DEF Closed
  <1>3. /\ D \subseteq Gone(h, D)
        /\ Gone(h, D) \subseteq L \ Roots
        /\ \A a \in Gone(h, D) : p < a /\ Kids(h[a]) \subseteq Gone(h, D)
    BY <1>2 DEF Gone
  <1>4. p \notin Gone(h, D)
    BY <1>1, <1>3
  <1>5. ASSUME NEW q \in L \ Gone(h, D), NEW c \in Kids(h[q]), c \in Gone(h, D)
        PROVE  q = p /\ c \in D
    <2>1. PICK d \in D : c \in TreeOf(h)[d]
      BY <1>5 DEF Gone
    <2>2. q \notin TreeOf(h)[d]
      BY <1>5, <2>1 DEF Gone
    <2>3. c = d
      BY <1>1, <1>5, <2>1, <2>2, ParentInTree
    <2>. QED
      BY <1>5, <2>3, OneParent
  <1>6. Gone(h, D) \subseteq TreeOf(h)[p]
    <2>1. \A d \in D : d \in TreeOf(h)[p]
      BY <1>1, TreeProperties, TreeClosed DEF Closed
    <2>. QED
      BY <1>1, <2>1, TreeProperties DEF Gone
  <1>. QED
    BY <1>3, <1>4, <1>5, <1>6

\* The objects u after a step.
After(h, p, m, new, D, u) ==
    /\ u \in Seq(Object)
    /\ DOMAIN u = DOMAIN h \cup Fresh(h, new)
    /\ DOMAIN h \cap Fresh(h, new) = {}
    /\ Fresh(h, new) = {Len(h) + i : i \in DOMAIN new}
    /\ \A a \in DOMAIN h, f \in Fresh(h, new) : a \in Nat /\ f \in Nat /\ a < f
    /\ u[p] = m
    /\ \A a \in Gone(h, D) : Kids(u[a]) = {}
    /\ \A a \in DOMAIN h : a # p /\ a \notin Gone(h, D) => u[a] = h[a]
    /\ \A i \in DOMAIN new : u[Len(h) + i] = new[i]

LEMMA UpdatedIsAfter ==
    ASSUME NEW h, NEW L, Shape(h, L), NEW p, NEW m, NEW new, NEW D,
           Change(h, L, p, m, new, D)
    PROVE  After(h, p, m, new, D, Updated(h, p, m, new, Gone(h, D)))
  <1> DEFINE n == Len(h)
             k == Len(new)
             F == Fresh(h, new)
             u == Updated(h, p, m, new, Gone(h, D))
  <1>1. /\ h \in Seq(Object) /\ new \in Seq(Object) /\ m \in Object
        /\ p \in L /\ L \subseteq DOMAIN h /\ D \subseteq Kids(h[p])
    BY DEF Shape, Memory, Change
  <1>2. /\ n \in Nat /\ DOMAIN h = 1 .. n
        /\ k \in Nat /\ DOMAIN new = 1 .. k
    BY <1>1, LenProperties
  <1>0. u = Updated(h, p, m, new, Gone(h, D))
    OBVIOUS
  <1> HIDE DEF u
  <1>3. /\ u \in Seq(Object)
        /\ Len(u) = n + k
        /\ \A a \in 1 .. n :
            u[a] = IF a = p THEN m ELSE IF a \in Gone(h, D) THEN New ELSE h[a]
        /\ \A i \in 1 .. k : u[n + i] = new[i]
    <2>1. IsUpdated(h, p, m, new, Gone(h, D), u)
      BY <1>0, <1>1, UpdatedIs, Zenon
    <2>. QED
      BY <2>1 DEF IsUpdated
  <1>4. /\ Gone(h, D) \subseteq L
        /\ p \notin Gone(h, D)
    BY <1>1, GoneIs
  <1>5. DOMAIN u = 1 .. n + k
    BY <1>3, LenProperties
  <1>6. F = n + 1 .. n + k
    BY DEF Fresh
  <1>7. /\ DOMAIN u = DOMAIN h \cup F
        /\ DOMAIN h \cap F = {}
        /\ \A a \in DOMAIN h, f \in F : a \in Nat /\ f \in Nat /\ a < f
    BY <1>2, <1>5, <1>6
  <1>8. F = {n + i : i \in DOMAIN new}
    <2>1. \A f \in F : f - n \in 1 .. k /\ f = n + (f - n)
      BY <1>2, <1>6
    <2>2. \A i \in 1 .. k : n + i \in F
      BY <1>2, <1>6
    <2> HIDE DEF F, n, k
    <2>. QED
      BY <1>2, <2>1, <2>2
  <1>9. u[p] = m
    BY <1>1, <1>2, <1>3
  <1>10. \A a \in Gone(h, D) : Kids(u[a]) = {}
    BY <1>1, <1>2, <1>3, <1>4, NewIsEmpty
  <1>11. \A a \in DOMAIN h : a # p /\ a \notin Gone(h, D) => u[a] = h[a]
    BY <1>2, <1>3
  <1>12. \A i \in DOMAIN new : u[n + i] = new[i]
    BY <1>2, <1>3
  <1>. HIDE DEF F
  <1>13. After(h, p, m, new, D, u)
    BY <1>3, <1>7, <1>8, <1>9, <1>10, <1>11, <1>12 DEF After, F
  <1>. QED
    BY <1>13 DEF u

\* What a message holds after a step, it held before it or it is new.
LEMMA KidsAfter ==
    ASSUME NEW h, NEW L, Shape(h, L), NEW p, NEW m, NEW new, NEW D,
           Change(h, L, p, m, new, D), NEW u, After(h, p, m, new, D, u),
           NEW a \in (L \ Gone(h, D)) \cup Fresh(h, new), NEW c \in Kids(u[a])
    PROVE  /\ c \notin Fresh(h, new) => a \in L /\ c \in Kids(h[a]) \ D
           /\ c \in Fresh(h, new) =>
                \/ a = p /\ c \in Kids(m)
                \/ \E i \in DOMAIN new : a = Len(h) + i /\ c \in Kids(new[i])
           /\ c \in (L \ Gone(h, D)) \cup Fresh(h, new)
           /\ a < c
  <1> DEFINE F == Fresh(h, new)
             G == Gone(h, D)
  <1>1. /\ p \in L /\ L \subseteq DOMAIN h /\ D \subseteq Kids(h[p])
        /\ Forward(h)
        /\ \A q \in L : Kids(h[q]) \subseteq L
    BY DEF Shape, Memory, Change
  <1>2. /\ \A q \in L \ G : \A k \in Kids(h[q]) : q # p => k \notin G
        /\ \A k \in Kids(h[p]) \ D : k \notin G
        /\ D \subseteq G
    BY <1>1, GoneIs
  <1>3. /\ \A b \in DOMAIN h, f \in F : b < f
        /\ DOMAIN h \cap F = {}
        /\ F = {Len(h) + i : i \in DOMAIN new}
        /\ u[p] = m
        /\ \A b \in DOMAIN h : b # p /\ b \notin G => u[b] = h[b]
        /\ \A i \in DOMAIN new : u[Len(h) + i] = new[i]
    BY DEF After
  <1>4. /\ Kids(m) \subseteq (Kids(h[p]) \ D) \cup F
        /\ \A i \in DOMAIN new : \A k \in Kids(new[i]) :
            k \in F /\ Len(h) + i < k
    BY DEF Change
  <1> HIDE DEF F, G
  <1>5. CASE a = p
    <2>1. c \in Kids(m)
      BY <1>3, <1>5
    <2>2. CASE c \in F
      BY <1>1, <1>3, <1>5, <2>1, <2>2 DEF F, G
    <2>3. CASE c \notin F
      <3>1. c \in Kids(h[p]) \ D
        BY <1>4, <2>1, <2>3
      <3>. QED
        BY <1>1, <1>2, <1>5, <2>3, <3>1 DEF F, G, Forward
    <2>. QED
      BY <2>2, <2>3
  <1>6. CASE a \in F
    <2>1. PICK i \in DOMAIN new : a = Len(h) + i
      BY <1>3, <1>6
    <2>2. c \in Kids(new[i])
      BY <1>3, <2>1
    <2>. QED
      BY <1>4, <2>1, <2>2 DEF F
  <1>7. CASE a # p /\ a \notin F
    <2>1. a \in L \ G
      BY <1>7 DEF F, G
    <2>2. c \in Kids(h[a])
      BY <1>1, <1>3, <1>7, <2>1
    <2>3. a < c /\ c \in L /\ c \notin G
      BY <1>1, <1>2, <1>7, <2>1, <2>2 DEF Forward
    <2>4. c \notin F /\ c \notin D
      BY <1>1, <1>2, <1>3, <2>3
    <2>. QED
      BY <2>1, <2>2, <2>3, <2>4 DEF F, G
  <1>. QED
    BY <1>5, <1>6, <1>7

LEMMA ChangeKeepsShape ==
    ASSUME NEW h, NEW L, Shape(h, L), NEW p, NEW m, NEW new, NEW D,
           Change(h, L, p, m, new, D), NEW u, After(h, p, m, new, D, u)
    PROVE  Shape(u, (L \ Gone(h, D)) \cup Fresh(h, new))
  <1> DEFINE F == Fresh(h, new)
             G == Gone(h, D)
             K == (L \ G) \cup F
  <1>1. /\ p \in L /\ L \subseteq DOMAIN h /\ D \subseteq Kids(h[p])
        /\ Forward(h)
        /\ Roots \subseteq L
        /\ \A q \in L : Kids(h[q]) \subseteq L \ Roots
        /\ \A q \in L \ Roots : \E o \in L : q \in Kids(h[o])
    BY DEF Shape, Memory, Change
  <1>2. /\ G \subseteq L \ Roots
        /\ D \subseteq G
        /\ p \notin G
        /\ \A a \in G : Kids(h[a]) \subseteq G
    BY <1>1, GoneIs
  <1>3. /\ u \in Seq(Object)
        /\ DOMAIN u = DOMAIN h \cup F
        /\ DOMAIN h \cap F = {}
        /\ F = {Len(h) + i : i \in DOMAIN new}
        /\ \A a \in DOMAIN h, f \in F : a < f
        /\ u[p] = m
        /\ \A a \in G : Kids(u[a]) = {}
        /\ \A b \in DOMAIN h : b # p /\ b \notin G => u[b] = h[b]
        /\ \A i \in DOMAIN new : u[Len(h) + i] = new[i]
    BY DEF After
  <1>4. \A a \in K : \A c \in Kids(u[a]) :
            /\ c \notin F => a \in L /\ c \in Kids(h[a]) \ D
            /\ c \in F => \/ a = p /\ c \in Kids(m)
                          \/ \E i \in DOMAIN new :
                                a = Len(h) + i /\ c \in Kids(new[i])
            /\ c \in K
            /\ a < c
    BY KidsAfter
  <1>5. /\ Kids(h[p]) \ D \subseteq Kids(m)
        /\ \A s \in Slots(m), t \in Slots(m) : Ref(m, s) = Ref(m, t) => s = t
        /\ \A i \in DOMAIN new : \A c \in Kids(new[i]) : c \notin Kids(m)
        /\ \A i \in DOMAIN new, j \in DOMAIN new :
            \A s \in Slots(new[i]), t \in Slots(new[j]) :
                Ref(new[i], s) = Ref(new[j], t) => i = j /\ s = t
        /\ \A f \in F :
            f \in Kids(m) \/ \E i \in DOMAIN new : f \in Kids(new[i])
        /\ new \in Seq(Object)
    BY DEF Change
  <1> HIDE DEF F, G
  <1>6. Memory(u)
    <2>1. ASSUME NEW a \in DOMAIN u, NEW c \in Kids(u[a])
          PROVE  c \in DOMAIN u /\ a < c
      <3>1. CASE a \in K
        BY <1>1, <1>3, <1>4, <2>1, <3>1
      <3>2. CASE a \notin K
        <4>1. a \in DOMAIN h \ L
          BY <1>2, <1>3, <2>1, <3>2
        <4>2. u[a] = h[a]
          BY <1>1, <1>2, <1>3, <4>1
        <4>. QED
          BY <1>1, <1>3, <2>1, <4>1, <4>2 DEF Forward
      <3>. QED
        BY <3>1, <3>2
    <2>. QED
      BY <1>3, <2>1 DEF Memory, Forward
  <1>7. Roots \subseteq K /\ K \subseteq DOMAIN u
    BY <1>1, <1>2, <1>3
  <1>8. \A a \in K : Kids(u[a]) \subseteq K \ Roots
    BY <1>1, <1>3, <1>4
  <1>9. ASSUME NEW a \in K, NEW b \in K, NEW c \in Kids(u[a]), c \in Kids(u[b])
        PROVE  a = b
    <2>1. CASE c \notin F
      <3>1. /\ a \in L /\ c \in Kids(h[a])
            /\ b \in L /\ c \in Kids(h[b])
        BY <1>4, <1>9, <2>1
      <3>. QED
        BY <3>1, OneParent
    <2>2. CASE c \in F
      <3>1. \/ a = p /\ c \in Kids(m)
            \/ \E i \in DOMAIN new : a = Len(h) + i /\ c \in Kids(new[i])
        BY <1>4, <1>9, <2>2
      <3>2. \/ b = p /\ c \in Kids(m)
            \/ \E i \in DOMAIN new : b = Len(h) + i /\ c \in Kids(new[i])
        BY <1>4, <1>9, <2>2
      <3>3. \A i \in DOMAIN new, j \in DOMAIN new :
                c \in Kids(new[i]) /\ c \in Kids(new[j]) => i = j
        <4>1. ASSUME NEW i \in DOMAIN new, NEW j \in DOMAIN new,
                     c \in Kids(new[i]), c \in Kids(new[j])
              PROVE  i = j
          <5>1. new[i] \in Object /\ new[j] \in Object
            BY <1>5
          <5>2. PICK s \in Slots(new[i]) : c = Ref(new[i], s)
            BY <4>1, <5>1, KidsAre
          <5>3. PICK t \in Slots(new[j]) : c = Ref(new[j], t)
            BY <4>1, <5>1, KidsAre
          <5>. QED
            BY <1>5, <5>2, <5>3
        <4>. QED
          BY <4>1
      <3>. QED
        BY <1>5, <3>1, <3>2, <3>3
    <2>. QED
      BY <2>1, <2>2
  <1>10. ASSUME NEW a \in K, NEW s \in Slots(u[a]), NEW t \in Slots(u[a]),
                Ref(u[a], s) = Ref(u[a], t)
         PROVE  s = t
    <2>1. CASE a = p
      BY <1>3, <1>5, <1>10, <2>1
    <2>2. CASE a \in F
      BY <1>3, <1>5, <1>10, <2>2
    <2>3. CASE a # p /\ a \notin F
      <3>1. a \in L /\ u[a] = h[a]
        BY <1>1, <1>3, <2>3
      <3>. QED
        BY <1>10, <3>1 DEF Shape, Unshared
    <2>. QED
      BY <2>1, <2>2, <2>3
  <1>11. Unshared(u, K)
    <2>1. ASSUME NEW a \in K, NEW b \in K,
                 NEW s \in Slots(u[a]), NEW t \in Slots(u[b]),
                 Ref(u[a], s) = Ref(u[b], t)
          PROVE  a = b /\ s = t
      <3>1. u[a] \in Object /\ u[b] \in Object
        <4>1. u \in Seq(Object) /\ a \in DOMAIN u /\ b \in DOMAIN u
          BY <1>3, <1>7
        <4>2. DOMAIN u = 1 .. Len(u)
          BY <4>1, LenProperties
        <4>. QED
          BY <4>1, <4>2, ElementOfSeq
      <3>2. Ref(u[a], s) \in Kids(u[a]) /\ Ref(u[b], t) \in Kids(u[b])
        BY <3>1, KidsAre
      <3>3. a = b
        BY <1>9, <2>1, <3>2
      <3>. QED
        BY <1>10, <2>1, <3>3
    <2>. QED
      BY <2>1 DEF Unshared
  <1>12. ASSUME NEW a \in K \ Roots
         PROVE  \E o \in K : a \in Kids(u[o])
    <2>1. CASE a \in F
      <3>1. p \in K
        BY <1>1, <1>2
      <3>2. \A i \in DOMAIN new : Len(h) + i \in K
        BY <1>3
      <3>3. CASE a \in Kids(m)
        BY <1>3, <3>1, <3>3
      <3>4. CASE a \notin Kids(m)
        <4>1. PICK i \in DOMAIN new : a \in Kids(new[i])
          BY <1>5, <2>1, <3>4
        <4>. QED
          BY <1>3, <3>2, <4>1
      <3>. QED
        BY <3>3, <3>4
    <2>2. CASE a \notin F
      <3>1. a \in L \ G
        BY <2>2
      <3>2. PICK o \in L : a \in Kids(h[o])
        BY <1>1, <1>12, <3>1
      <3>3. o \in K
        BY <1>2, <3>1, <3>2
      <3>4. CASE o = p
        BY <1>2, <1>3, <1>5, <3>1, <3>2, <3>3, <3>4
      <3>5. CASE o # p
        <4>1. u[o] = h[o]
          BY <1>1, <1>2, <1>3, <3>1, <3>2, <3>5
        <4>. QED
          BY <3>2, <3>3, <4>1
      <3>. QED
        BY <3>4, <3>5
    <2>. QED
      BY <2>1, <2>2
  <1>. HIDE DEF K
  <1>13. Shape(u, K)
    BY <1>6, <1>7, <1>8, <1>11, <1>12 DEF Shape
  <1>. QED
    BY <1>13 DEF K, F, G

\* A tree loses what is destroyed, and gains what is constructed if p is in it.
LEMMA TreesAfter ==
    ASSUME NEW h, NEW L, Shape(h, L), NEW p, NEW m, NEW new, NEW D,
           Change(h, L, p, m, new, D), NEW u, After(h, p, m, new, D, u),
           NEW a \in L \ Gone(h, D)
    PROVE  /\ TreeOf(u)[a] \subseteq
                (TreeOf(h)[a] \ Gone(h, D)) \cup Fresh(h, new)
           /\ TreeOf(h)[a] \ Gone(h, D) \subseteq TreeOf(u)[a]
           /\ p \notin TreeOf(h)[a] => TreeOf(u)[a] = TreeOf(h)[a]
  <1> DEFINE F == Fresh(h, new)
             G == Gone(h, D)
             T == TreeOf(h)[a]
             U == TreeOf(u)[a]
             K == (L \ G) \cup F
  <1>1. /\ p \in L /\ L \subseteq DOMAIN h /\ D \subseteq Kids(h[p])
        /\ Memory(h)
        /\ \A q \in L : Kids(h[q]) \subseteq L
        /\ Kids(h[p]) \ D \subseteq Kids(m)
    BY DEF Shape, Change
  <1>2. /\ D \subseteq G
        /\ p \notin G
        /\ \A x \in G : Kids(h[x]) \subseteq G
        /\ G \subseteq L
    BY <1>1, GoneIs
  <1>3. /\ DOMAIN h \cap F = {}
        /\ F = {Len(h) + i : i \in DOMAIN new}
        /\ u[p] = m
        /\ \A b \in DOMAIN h : b # p /\ b \notin G => u[b] = h[b]
    BY DEF After
  <1>4. Memory(u) /\ a \in DOMAIN u
    BY ChangeKeepsShape DEF Shape
  <1>5. \A x \in K : \A c \in Kids(u[x]) :
            /\ c \notin F => x \in L /\ c \in Kids(h[x]) \ D
            /\ c \in F => x = p \/ \E i \in DOMAIN new : x = Len(h) + i
            /\ c \in K
    BY KidsAfter
  <1>6. /\ T \subseteq L /\ a \in T /\ Closed(h, T)
        /\ a \in U /\ Closed(u, U)
    BY <1>1, <1>4, TreeIsLive, TreeProperties, TreeClosed
  <1> HIDE DEF F, G, T, U
  <1>7. U \subseteq (T \ G) \cup (IF p \in T THEN F ELSE {})
    <2> DEFINE C == (T \ G) \cup (IF p \in T THEN F ELSE {})
    <2>1. ASSUME NEW x \in C, NEW c \in Kids(u[x])
          PROVE  c \in C
      <3>1. x \in K
        BY <1>6, <2>1
      <3>2. CASE c \in F
        <4>1. x = p \/ x \in F
          BY <1>3, <1>5, <2>1, <3>1, <3>2
        <4>2. p \in T
          BY <1>1, <1>3, <1>6, <2>1, <4>1
        <4>. QED
          BY <3>2, <4>2
      <3>3. CASE c \notin F
        <4>1. x \in L /\ c \in Kids(h[x]) /\ c \in L \ G
          BY <1>5, <2>1, <3>1, <3>3
        <4>2. x \in T
          BY <1>1, <1>3, <2>1, <4>1
        <4>. QED
          BY <1>6, <4>1, <4>2 DEF Closed
      <3>. QED
        BY <3>2, <3>3
    <2>2. a \in C
      BY <1>6 DEF G
    <2> HIDE DEF C
    <2>3. Closed(u, C)
      BY <2>1 DEF Closed
    <2>4. U \subseteq C
      BY <1>4, <2>2, <2>3, TreeLeast DEF U
    <2>. QED
      BY <2>4 DEF C
  <1>8. T \subseteq (U \cap L) \cup G
    <2> DEFINE C == (U \cap L) \cup G
    <2>1. ASSUME NEW x \in C, NEW c \in Kids(h[x])
          PROVE  c \in C
      <3>1. CASE x \in G
        BY <1>2, <2>1, <3>1
      <3>2. CASE x \notin G /\ x # p
        <4>1. x \in U /\ x \in L /\ u[x] = h[x]
          BY <1>1, <1>3, <2>1, <3>2
        <4>. QED
          BY <1>1, <1>6, <2>1, <4>1 DEF Closed
      <3>3. CASE x = p
        <4>1. x \in U /\ x \in L
          BY <1>2, <2>1, <3>3
        <4>2. c \in D \/ c \in Kids(u[x])
          BY <1>1, <1>3, <2>1, <3>3
        <4>. QED
          BY <1>1, <1>2, <1>6, <2>1, <4>1, <4>2 DEF Closed
      <3>. QED
        BY <3>1, <3>2, <3>3
    <2>2. a \in C
      BY <1>6
    <2> HIDE DEF C
    <2>3. Closed(h, C)
      BY <2>1 DEF Closed
    <2>4. T \subseteq C
      BY <1>1, <2>2, <2>3, TreeLeast DEF T
    <2>. QED
      BY <2>4 DEF C
  <1>9. ASSUME p \notin T
        PROVE  T \cap G = {}
    <2>1. ASSUME NEW d \in D
          PROVE  T \cap TreeOf(h)[d] = {}
      <3>1. d \in L /\ d \in G /\ d \in Kids(h[p])
        BY <1>1, <1>2
      <3>2. a # d /\ a \notin TreeOf(h)[d]
        BY <2>1, <3>1 DEF G, Gone
      <3>3. d \notin T
        BY <1>1, <1>9, <3>1, <3>2, ParentInTree DEF T
      <3>. QED
        BY <3>1, <3>2, <3>3, TreesApart DEF T
    <2>. QED
      BY <2>1 DEF G, Gone
  <1>10. p \notin T => U = T
    BY <1>7, <1>8, <1>9
  <1>11. U \subseteq (T \ G) \cup F
    BY <1>7
  <1>12. T \ G \subseteq U
    BY <1>8
  <1>. QED
    BY <1>10, <1>11, <1>12 DEF F, G, T, U

-----------------------------------------------------------------------------
(* Copies. *)

\* The addresses of the copies of S follow each other in the order of S.
LEMMA CopiesInOrder ==
    ASSUME obj \in Seq(Object), NEW S, S \subseteq DOMAIN obj
    PROVE  /\ Cardinality(S) \in Nat
           /\ Len(obj) \in Nat
           /\ \A a \in S : CopyOf(a, S) \in Len(obj) + 1 .. Len(obj) + Cardinality(S)
           /\ \A a \in S, b \in S : a < b => CopyOf(a, S) < CopyOf(b, S)
           /\ \A a \in S, b \in S : CopyOf(a, S) = CopyOf(b, S) => a = b
           /\ \A i \in 1 .. Cardinality(S) :
                \E a \in S : CopyOf(a, S) = Len(obj) + i
  <1> DEFINE n == Len(obj)
             k == Cardinality(S)
             B(a) == {b \in S : b <= a}
             r == [a \in S |-> Cardinality(B(a))]
  <1>1. n \in Nat /\ DOMAIN obj = 1 .. n
    BY LenProperties
  <1>2. IsFiniteSet(S) /\ k \in Nat
    <2>1. IsFiniteSet(1 .. n)
      BY <1>1, FS_Interval
    <2>2. IsFiniteSet(S)
      BY <1>1, <2>1, FS_Subset
    <2>. QED
      BY <2>2, FS_CardinalityType
  <1>3. \A a \in S : a \in Nat
    BY <1>1
  <1>4. \A a \in S : IsFiniteSet(B(a)) /\ Cardinality(B(a)) \in 1 .. k
    <2>1. ASSUME NEW a \in S
          PROVE  IsFiniteSet(B(a)) /\ Cardinality(B(a)) \in 1 .. k
      <3>1. B(a) \in SUBSET S
        OBVIOUS
      <3>2. IsFiniteSet(B(a)) /\ Cardinality(B(a)) <= k
        BY <1>2, <3>1, FS_Subset
      <3>3. Cardinality(B(a)) \in Nat
        BY <3>2, FS_CardinalityType
      <3>4. a \in B(a)
        BY <1>3
      <3>5. Cardinality(B(a)) # 0
        BY <3>2, <3>4, FS_EmptySet
      <3>. QED
        BY <1>2, <3>2, <3>3, <3>5
    <2>. QED
      BY <2>1
  <1>5. ASSUME NEW a \in S, NEW b \in S, a < b
        PROVE  Cardinality(B(a)) < Cardinality(B(b))
    <2>1. B(a) \in SUBSET B(b)
      BY <1>3, <1>5
    <2>2. b \in B(b) /\ b \notin B(a)
      BY <1>3, <1>5
    <2>3. /\ Cardinality(B(a)) <= Cardinality(B(b))
          /\ Cardinality(B(b)) = Cardinality(B(a)) => B(b) = B(a)
      BY <1>4, <2>1, FS_Subset
    <2>4. Cardinality(B(a)) # Cardinality(B(b))
      BY <2>2, <2>3
    <2>5. Cardinality(B(a)) \in Nat /\ Cardinality(B(b)) \in Nat
      BY <1>4, FS_CardinalityType
    <2> HIDE DEF B
    <2>. QED
      BY <2>3, <2>4, <2>5
  <1>6. \A a \in S : CopyOf(a, S) = n + r[a]
    BY DEF CopyOf
  <1>7. /\ \A a \in S : r[a] \in 1 .. k
        /\ \A a \in S, b \in S : a < b => r[a] < r[b]
    BY <1>4, <1>5
  <1>8. r \in [S -> 1 .. k]
    BY <1>4
  <1> HIDE DEF r, n, k
  <1>9. \A a \in S, b \in S : r[a] = r[b] => a = b
    <2>1. ASSUME NEW a \in S, NEW b \in S, a # b
          PROVE  r[a] # r[b]
      <3>1. a < b \/ b < a
        BY <1>3, <2>1
      <3>2. r[a] < r[b] \/ r[b] < r[a]
        BY <1>7, <3>1
      <3>3. r[a] \in Nat /\ r[b] \in Nat
        BY <1>7
      <3>. QED
        BY <3>2, <3>3
    <2>. QED
      BY <2>1
  <1>10. r \in Surjection(S, 1 .. k)
    <2>1. r \in Injection(S, 1 .. k)
      BY <1>8, <1>9 DEF Injection, IsInjective
    <2>2. IsFiniteSet(1 .. k) /\ Cardinality(1 .. k) = k
      BY <1>2, FS_Interval
    <2>. QED
      BY <2>1, <2>2, FS_Injection DEF k
  <1>11. \A i \in 1 .. k : \E a \in S : r[a] = i
    BY <1>10 DEF Surjection
  <1>12. \A a \in S : CopyOf(a, S) \in n + 1 .. n + k
    BY <1>1, <1>2, <1>6, <1>7
  <1>13. \A a \in S, b \in S : a < b => CopyOf(a, S) < CopyOf(b, S)
    BY <1>1, <1>6, <1>7
  <1>14. \A a \in S, b \in S : CopyOf(a, S) = CopyOf(b, S) => a = b
    <2>1. \A a \in S, b \in S : CopyOf(a, S) = CopyOf(b, S) => r[a] = r[b]
      BY <1>1, <1>6, <1>7
    <2>. QED
      BY <1>9, <2>1
  <1>15. \A i \in 1 .. k : \E a \in S : CopyOf(a, S) = n + i
    BY <1>6, <1>11
  <1>. QED
    BY <1>1, <1>2, <1>12, <1>13, <1>14, <1>15 DEF n, k

\* m is the copy of the message at a, of which the parts are in S.
IsCopy(a, m, S) ==
    /\ m \in Object
    /\ Slots(m) = Slots(obj[a])
    /\ \A s \in Slots(obj[a]) : Ref(m, s) = CopyOf(Ref(obj[a], s), S)

LEMMA CopiesAre ==
    ASSUME Memory(obj), NEW S, S \subseteq DOMAIN obj, Closed(obj, S)
    PROVE  /\ Copies(S) \in Seq(Object)
           /\ Len(Copies(S)) = Cardinality(S)
           /\ \A i \in 1 .. Cardinality(S) : \E a \in S :
                CopyOf(a, S) = Len(obj) + i /\ IsCopy(a, Copies(S)[i], S)
  <1> DEFINE n == Len(obj)
             k == Cardinality(S)
             Copy(a) == [obj[a] EXCEPT
                            !.sub = IF @ = 0 THEN 0 ELSE CopyOf(@, S),
                            !.subs = [i \in DOMAIN @ |-> CopyOf(@[i], S)]]
             o(i) == CHOOSE a \in S : CopyOf(a, S) = n + i
  <1>1. /\ obj \in Seq(Object) /\ DOMAIN obj = 1 .. n
        /\ \A a \in S : obj[a] \in Object
    <2>1. obj \in Seq(Object)
      BY DEF Memory
    <2>2. DOMAIN obj = 1 .. n /\ \A a \in 1 .. n : obj[a] \in Object
      BY <2>1, LenProperties, ElementOfSeq
    <2>. QED
      BY <2>1, <2>2
  <1>2. /\ k \in Nat /\ n \in Nat
        /\ \A a \in S : CopyOf(a, S) \in n + 1 .. n + k
        /\ \A i \in 1 .. k : \E a \in S : CopyOf(a, S) = n + i
    BY <1>1, CopiesInOrder
  <1>3. ASSUME NEW a \in S
        PROVE  IsCopy(a, Copy(a), S)
    <2> DEFINE x == obj[a]
               m == Copy(a)
    <2>1. /\ x \in Object
          /\ \A c \in Kids(x) : c \in S
          /\ Kids(x) = {Ref(x, s) : s \in Slots(x)}
          /\ 0 \notin DOMAIN x.subs
      BY <1>1, <1>3, KidsAre DEF Closed
    <2>2. \A s \in Slots(x) : CopyOf(Ref(x, s), S) \in Nat \ {0}
      BY <1>2, <2>1
    <2> DEFINE v == IF x.sub = 0 THEN 0 ELSE CopyOf(x.sub, S)
               w == [i \in DOMAIN x.subs |-> CopyOf(x.subs[i], S)]
    <2>0. m = [x EXCEPT !.sub = v, !.subs = w]
      OBVIOUS
    <2> HIDE DEF m
    <2>3. /\ m.sub = v
          /\ m.subs = w
          /\ v \in Nat /\ w \in Seq(Nat) => m \in Object
      <3> HIDE DEF v, w
      <3>. QED
        BY <2>0, <2>1 DEF Object
    <2>4. \A s \in DOMAIN x.subs : s \in Slots(x) /\ Ref(x, s) = x.subs[s]
      BY <2>1 DEF Slots, Ref
    <2>5. m.subs \in Seq(Nat) /\ DOMAIN m.subs = DOMAIN x.subs
      <3>1. Len(x.subs) \in Nat /\ DOMAIN x.subs = 1 .. Len(x.subs)
        BY <2>1, LenProperties DEF Object
      <3>2. \A s \in DOMAIN x.subs : CopyOf(x.subs[s], S) \in Nat
        BY <2>2, <2>4
      <3>3. m.subs \in [1 .. Len(x.subs) -> Nat]
        BY <2>3, <3>1, <3>2
      <3>. QED
        BY <2>3, <3>1, <3>3, SeqDef
    <2>6. x.sub # 0 => m.sub \in Nat \ {0} /\ m.sub = CopyOf(x.sub, S)
      <3>1. x.sub # 0 => 0 \in Slots(x) /\ Ref(x, 0) = x.sub
        BY DEF Slots, Ref
      <3>. QED
        BY <2>2, <2>3, <3>1
    <2>7. m \in Object
      BY <2>3, <2>5, <2>6
    <2>8. Slots(m) = Slots(x)
      BY <2>3, <2>5, <2>6 DEF Slots
    <2>9. \A s \in Slots(x) : Ref(m, s) = CopyOf(Ref(x, s), S)
      <3>1. \A s \in DOMAIN x.subs : m.subs[s] = CopyOf(x.subs[s], S)
        BY <2>3
      <3>. QED
        BY <2>1, <2>6, <3>1 DEF Slots, Ref
    <2>. QED
      BY <2>7, <2>8, <2>9 DEF IsCopy, m
  <1>4. \A i \in 1 .. k : o(i) \in S /\ CopyOf(o(i), S) = n + i
    BY <1>2
  <1> HIDE DEF Copy, o, k
  <1>5. Copies(S) = [i \in 1 .. k |-> Copy(o(i))]
    BY DEF Copies, Copy, o, k
  <1>6. Copies(S) \in [1 .. k -> Object]
    BY <1>3, <1>4, <1>5 DEF IsCopy
  <1>7. Copies(S) \in Seq(Object) /\ Len(Copies(S)) = k
    <2>1. Copies(S) \in Seq(Object)
      BY <1>2, <1>6, SeqDef
    <2>2. DOMAIN Copies(S) = 1 .. k
      BY <1>5
    <2>. QED
      BY <1>2, <2>1, <2>2, LenProperties
  <1>8. \A i \in 1 .. k : Copies(S)[i] = Copy(o(i))
    BY <1>5
  <1>. QED
    BY <1>3, <1>4, <1>7, <1>8 DEF k

\* A sequence of objects, to be placed behind n others, of which those at H are
\* the roots.
Forest(n, new, H) ==
    /\ new \in Seq(Object)
    /\ H \subseteq n + 1 .. n + Len(new)
    /\ \A i \in DOMAIN new : \A c \in Kids(new[i]) :
        c \in n + 1 .. n + Len(new) /\ n + i < c /\ c \notin H
    /\ \A i \in DOMAIN new, j \in DOMAIN new :
        \A s \in Slots(new[i]), t \in Slots(new[j]) :
            Ref(new[i], s) = Ref(new[j], t) => i = j /\ s = t
    /\ \A f \in n + 1 .. n + Len(new) :
        f \in H \/ \E i \in DOMAIN new : f \in Kids(new[i])

\* Copies of whole trees are trees.
LEMMA CopiesForest ==
    ASSUME NEW L, Shape(obj, L), NEW q \in L, NEW E, E \subseteq Kids(obj[q]),
           NEW S, S = Gone(obj, E)
    PROVE  Forest(Len(obj), Copies(S), {CopyOf(e, S) : e \in E})
  <1> DEFINE n == Len(obj)
             k == Cardinality(S)
             new == Copies(S)
             H == {CopyOf(e, S) : e \in E}
  <1>1. /\ Memory(obj) /\ obj \in Seq(Object) /\ L \subseteq DOMAIN obj
        /\ \A a \in DOMAIN obj : \A c \in Kids(obj[a]) : a < c
        /\ \A a \in L \ Roots : \E p \in L : a \in Kids(obj[p])
        /\ \A a \in DOMAIN obj : obj[a] \in Object
    <2>1. obj \in Seq(Object)
      BY DEF Shape, Memory
    <2>2. \A a \in DOMAIN obj : obj[a] \in Object
      BY <2>1, LenProperties, ElementOfSeq
    <2>. QED
      BY <2>1, <2>2 DEF Shape, Memory, Forward
  <1>2. /\ E \subseteq S /\ S \subseteq L \ Roots /\ q \notin S
        /\ \A a \in S : Kids(obj[a]) \subseteq S
    BY GoneIs
  <1>3. Closed(obj, S) /\ S \subseteq DOMAIN obj
    BY <1>1, <1>2 DEF Closed
  <1>4. /\ k \in Nat /\ n \in Nat
        /\ \A a \in S : CopyOf(a, S) \in n + 1 .. n + k
        /\ \A a \in S, b \in S : a < b => CopyOf(a, S) < CopyOf(b, S)
        /\ \A a \in S, b \in S : CopyOf(a, S) = CopyOf(b, S) => a = b
    BY <1>1, <1>3, CopiesInOrder
  <1>5. /\ new \in Seq(Object)
        /\ Len(new) = k
        /\ DOMAIN new = 1 .. k
        /\ \A i \in 1 .. k : \E a \in S :
            CopyOf(a, S) = n + i /\ IsCopy(a, new[i], S)
    BY <1>1, <1>3, CopiesAre, LenProperties
  <1> HIDE DEF new, k, n
  <1>6. ASSUME NEW i \in 1 .. k, NEW c \in Kids(new[i])
        PROVE  c \in n + 1 .. n + k /\ n + i < c /\ c \notin H
    <2>1. PICK a \in S : CopyOf(a, S) = n + i /\ IsCopy(a, new[i], S)
      BY <1>5
    <2>2. PICK s \in Slots(new[i]) : c = Ref(new[i], s)
      BY <1>6, <2>1, KidsAre DEF IsCopy
    <2> DEFINE x == Ref(obj[a], s)
    <2>3. c = CopyOf(x, S) /\ s \in Slots(obj[a])
      BY <2>1, <2>2 DEF IsCopy
    <2>4. x \in Kids(obj[a])
      BY <1>1, <1>2, <2>3, KidsAre
    <2>5. x \in S /\ a < x /\ a \in L
      BY <1>1, <1>2, <2>4
    <2> HIDE DEF x
    <2>6. ASSUME c \in H
          PROVE  FALSE
      <3>1. PICK e \in E : c = CopyOf(e, S)
        BY <2>6
      <3>2. x = e
        BY <1>2, <1>4, <2>3, <2>5, <3>1
      <3>. QED
        BY <1>2, <2>4, <2>5, <3>2, OneParent
    <2>. QED
      BY <1>4, <2>1, <2>3, <2>5, <2>6
  <1>7. ASSUME NEW i \in 1 .. k, NEW j \in 1 .. k,
               NEW s \in Slots(new[i]), NEW t \in Slots(new[j]),
               Ref(new[i], s) = Ref(new[j], t)
        PROVE  i = j /\ s = t
    <2>1. PICK a \in S : CopyOf(a, S) = n + i /\ IsCopy(a, new[i], S)
      BY <1>5
    <2>2. PICK b \in S : CopyOf(b, S) = n + j /\ IsCopy(b, new[j], S)
      BY <1>5
    <2>3. /\ s \in Slots(obj[a]) /\ t \in Slots(obj[b])
          /\ CopyOf(Ref(obj[a], s), S) = CopyOf(Ref(obj[b], t), S)
      BY <1>7, <2>1, <2>2 DEF IsCopy
    <2>4. Ref(obj[a], s) \in S /\ Ref(obj[b], t) \in S
      BY <1>1, <1>2, <2>3, KidsAre
    <2>5. Ref(obj[a], s) = Ref(obj[b], t)
      BY <1>4, <2>3, <2>4
    <2>6. a = b /\ s = t
      BY <1>2, <2>3, <2>5 DEF Shape, Unshared
    <2>. QED
      BY <1>4, <2>1, <2>2, <2>6
  <1>8. ASSUME NEW f \in n + 1 .. n + k, f \notin H
        PROVE  \E i \in 1 .. k : f \in Kids(new[i])
    <2>1. f - n \in 1 .. k /\ n + (f - n) = f
      BY <1>4
    <2>2. PICK a \in S : CopyOf(a, S) = f
      BY <1>5, <2>1
    <2>3. a \notin E
      BY <1>8, <2>2
    <2>4. PICK e \in E : a \in TreeOf(obj)[e]
      BY <2>2 DEF Gone
    <2>5. PICK p \in L : a \in Kids(obj[p])
      BY <1>1, <1>2, <2>2
    <2>6. p \in S
      <3>1. e \in L /\ a # e
        BY <1>2, <2>3
      <3>2. p \in TreeOf(obj)[e]
        BY <2>4, <2>5, <3>1, ParentInTree
      <3>. QED
        BY <3>2 DEF Gone
    <2> DEFINE j == CopyOf(p, S) - n
    <2>7. j \in 1 .. k /\ n + j = CopyOf(p, S)
      BY <1>4, <2>6
    <2> HIDE DEF j
    <2>8. PICK b \in S : CopyOf(b, S) = n + j /\ IsCopy(b, new[j], S)
      BY <1>5, <2>7
    <2>9. b = p
      BY <1>4, <2>6, <2>7, <2>8
    <2>10. PICK s \in Slots(obj[p]) : a = Ref(obj[p], s)
      BY <1>1, <2>5, KidsAre
    <2>11. new[j] \in Object /\ s \in Slots(new[j]) /\ Ref(new[j], s) = f
      BY <2>2, <2>8, <2>9, <2>10 DEF IsCopy
    <2>. QED
      BY <2>7, <2>11, KidsAre
  <1>9. H \subseteq n + 1 .. n + k
    BY <1>2, <1>4
  <1> HIDE DEF H
  <1>10. Forest(n, new, H)
    BY <1>5, <1>6, <1>7, <1>8, <1>9 DEF Forest
  <1>. QED
    BY <1>10 DEF n, new, H

LEMMA EmptyForest ==
    ASSUME NEW n \in Nat
    PROVE  Forest(n, <<>>, {})
  <1>1. <<>> \in Seq(Object) /\ Len(<<>>) = 0 /\ DOMAIN <<>> = {}
    OBVIOUS
  <1>. QED
    BY <1>1 DEF Forest

\* An object that holds nothing is another tree.
LEMMA ForestGrows ==
    ASSUME NEW n \in Nat, NEW new, NEW H, Forest(n, new, H)
    PROVE  Forest(n, Append(new, New), H \cup {n + Len(new) + 1})
  <1> DEFINE k == Len(new)
             more == Append(new, New)
             J == H \cup {n + Len(new) + 1}
  <1>1. new \in Seq(Object) /\ k \in Nat /\ DOMAIN new = 1 .. k
    BY LenProperties DEF Forest
  <1>2. /\ more \in Seq(Object)
        /\ Len(more) = k + 1
        /\ DOMAIN more = 1 .. k + 1
        /\ \A i \in 1 .. k : more[i] = new[i]
        /\ more[k + 1] = New
    <2>1. more \in Seq(Object)
      BY <1>1, NewIsEmpty
    <2>. QED
      BY <1>1, <2>1, NewIsEmpty, AppendProperties, LenProperties
  <1>3. Kids(New) = {} /\ Slots(New) = {}
    BY NewIsEmpty
  <1>4. /\ H \subseteq n + 1 .. n + k
        /\ \A i \in 1 .. k : \A c \in Kids(new[i]) :
            c \in n + 1 .. n + k /\ n + i < c /\ c \notin H
        /\ \A i \in 1 .. k, j \in 1 .. k :
            \A s \in Slots(new[i]), t \in Slots(new[j]) :
                Ref(new[i], s) = Ref(new[j], t) => i = j /\ s = t
        /\ \A f \in n + 1 .. n + k :
            f \in H \/ \E i \in 1 .. k : f \in Kids(new[i])
    BY <1>1 DEF Forest
  <1> HIDE DEF k, more
  <1>5. \A i \in 1 .. k + 1 : i \in 1 .. k \/ i = k + 1
    BY <1>1
  <1>6. n + 1 .. n + (k + 1) = (n + 1 .. n + k) \cup {n + k + 1}
    BY <1>1
  <1>7. n + k + 1 \notin n + 1 .. n + k
    BY <1>1
  <1>8. J = H \cup {n + k + 1}
    BY DEF k
  <1> HIDE DEF J
  <1>9. \A i \in 1 .. k + 1 : \A c \in Kids(more[i]) :
            /\ i \in 1 .. k
            /\ c \in n + 1 .. n + (k + 1)
            /\ n + i < c
            /\ c \notin J
    BY <1>2, <1>3, <1>4, <1>5, <1>6, <1>7, <1>8
  <1>10. \A i \in 1 .. k + 1, j \in 1 .. k + 1 :
            \A s \in Slots(more[i]), t \in Slots(more[j]) :
                Ref(more[i], s) = Ref(more[j], t) => i = j /\ s = t
    <2>1. ASSUME NEW i \in 1 .. k + 1, NEW j \in 1 .. k + 1,
                 NEW s \in Slots(more[i]), NEW t \in Slots(more[j]),
                 Ref(more[i], s) = Ref(more[j], t)
          PROVE  i = j /\ s = t
      <3>1. i \in 1 .. k /\ j \in 1 .. k
        BY <1>2, <1>3, <1>5, <2>1
      <3>2. more[i] = new[i] /\ more[j] = new[j]
        BY <1>2, <3>1
      <3>. QED
        BY <1>4, <2>1, <3>1, <3>2
    <2>. QED
      BY <2>1
  <1>11. \A f \in n + 1 .. n + (k + 1) :
            f \in J \/ \E i \in 1 .. k + 1 : f \in Kids(more[i])
    <2>1. \A i \in 1 .. k : i \in 1 .. k + 1
      BY <1>1
    <2>. QED
      BY <1>2, <1>4, <1>6, <1>8, <2>1
  <1>12. Forest(n, more, J)
    BY <1>2, <1>4, <1>6, <1>8, <1>9, <1>10, <1>11 DEF Forest
  <1>. QED
    BY <1>12 DEF more, J

\* A message that holds new trees instead of some of its parts.
LEMMA ForestChange ==
    ASSUME NEW h, NEW L, Shape(h, L), NEW p \in L, NEW m \in Object, NEW new,
           NEW D, D \subseteq Kids(h[p]), NEW H, Forest(Len(h), new, H),
           Kids(m) = (Kids(h[p]) \ D) \cup H,
           \A s \in Slots(m), t \in Slots(m) : Ref(m, s) = Ref(m, t) => s = t
    PROVE  Change(h, L, p, m, new, D)
  <1> DEFINE F == Fresh(h, new)
  <1>1. /\ h \in Seq(Object) /\ Kids(h[p]) \subseteq DOMAIN h
        /\ DOMAIN h = 1 .. Len(h) /\ Len(h) \in Nat
    BY LenProperties DEF Shape, Memory
  <1>2. /\ new \in Seq(Object)
        /\ H \subseteq F
        /\ \A i \in DOMAIN new : \A c \in Kids(new[i]) :
            c \in F /\ Len(h) + i < c /\ c \notin H
        /\ \A i \in DOMAIN new, j \in DOMAIN new :
            \A s \in Slots(new[i]), t \in Slots(new[j]) :
                Ref(new[i], s) = Ref(new[j], t) => i = j /\ s = t
        /\ \A f \in F : f \in H \/ \E i \in DOMAIN new : f \in Kids(new[i])
    BY DEF Forest, Fresh
  <1>3. \A f \in F : f \notin Kids(h[p])
    BY <1>1 DEF Fresh
  <1>. HIDE DEF F
  <1>. QED
    BY <1>2, <1>3 DEF Change, F

-----------------------------------------------------------------------------
(* The members that a step gives a message. *)

OneToOne(s) == \A i \in DOMAIN s, j \in DOMAIN s : s[i] = s[j] => i = j

LEMMA ArrayIsSeq ==
    ASSUME NEW S, NEW n \in Nat, NEW s \in [1 .. n -> S]
    PROVE  s \in Seq(S) /\ Len(s) = n
  <1>1. s \in Seq(S)
    BY SeqDef
  <1>. QED
    BY <1>1, LenProperties

LEMMA AppendedElements ==
    ASSUME NEW s \in Seq(Nat), OneToOne(s), NEW e \in Nat, e \notin Range(s)
    PROVE  /\ Append(s, e) \in Seq(Nat)
           /\ OneToOne(Append(s, e))
           /\ Range(Append(s, e)) = Range(s) \cup {e}
  <1> DEFINE k == Len(s)
             t == Append(s, e)
  <1>1. /\ t \in Seq(Nat)
        /\ k \in Nat
        /\ DOMAIN s = 1 .. k
        /\ DOMAIN t = 1 .. k + 1
        /\ \A i \in 1 .. k : t[i] = s[i]
        /\ t[k + 1] = e
    BY AppendProperties, LenProperties
  <1> HIDE DEF t, k
  <1>2. \A i \in 1 .. k + 1 : i \in 1 .. k \/ i = k + 1
    BY <1>1
  <1>3. \A i \in 1 .. k : i \in 1 .. k + 1 /\ s[i] # e
    BY <1>1 DEF Range
  <1>4. OneToOne(t)
    BY <1>1, <1>2, <1>3 DEF OneToOne
  <1>5. k + 1 \in 1 .. k + 1
    BY <1>1
  <1>6. Range(t) = Range(s) \cup {e}
    BY <1>1, <1>2, <1>3, <1>5 DEF Range
  <1>. QED
    BY <1>1, <1>4, <1>6 DEF t

LEMMA CopiedElements ==
    ASSUME obj \in Seq(Object), NEW S, S \subseteq DOMAIN obj,
           NEW s \in Seq(Nat), OneToOne(s), Range(s) \subseteq S
    PROVE  /\ CopiesOf(s, S) \in Seq(Nat)
           /\ OneToOne(CopiesOf(s, S))
           /\ Range(CopiesOf(s, S)) = {CopyOf(e, S) : e \in Range(s)}
           /\ Len(CopiesOf(s, S)) = Len(s)
  <1> DEFINE t == CopiesOf(s, S)
             k == Len(s)
  <1>1. /\ k \in Nat /\ DOMAIN s = 1 .. k
        /\ \A i \in 1 .. k : s[i] \in S
    BY LenProperties DEF Range
  <1>2. /\ Len(obj) \in Nat /\ Cardinality(S) \in Nat
        /\ \A a \in S : CopyOf(a, S) \in Len(obj) + 1 .. Len(obj) + Cardinality(S)
        /\ \A a \in S, b \in S : CopyOf(a, S) = CopyOf(b, S) => a = b
    BY CopiesInOrder
  <1>3. \A a \in S : CopyOf(a, S) \in Nat
    BY <1>2
  <1>4. DOMAIN t = 1 .. k /\ \A i \in 1 .. k : t[i] = CopyOf(s[i], S)
    BY <1>1 DEF CopiesOf
  <1>5. t \in [1 .. k -> Nat]
    BY <1>1, <1>3 DEF CopiesOf
  <1> HIDE DEF t
  <1>6. t \in Seq(Nat) /\ Len(t) = k
    BY <1>1, <1>5, ArrayIsSeq
  <1>7. OneToOne(t)
    BY <1>1, <1>2, <1>4 DEF OneToOne
  <1>8. Range(t) = {CopyOf(e, S) : e \in Range(s)}
    BY <1>1, <1>4 DEF Range
  <1>. QED
    BY <1>6, <1>7, <1>8 DEF t

\* The first k elements of s, and the other ones.
LEMMA SplitElements ==
    ASSUME NEW s \in Seq(Nat), OneToOne(s), NEW k \in 0 .. Len(s)
    PROVE  /\ SubSeq(s, 1, k) \in Seq(Nat)
           /\ SubSeq(s, k + 1, Len(s)) \in Seq(Nat)
           /\ Len(SubSeq(s, k + 1, Len(s))) = Len(s) - k
           /\ OneToOne(SubSeq(s, 1, k))
           /\ OneToOne(SubSeq(s, k + 1, Len(s)))
           /\ Range(SubSeq(s, k + 1, Len(s))) \subseteq Range(s)
           /\ Range(SubSeq(s, 1, k)) =
                Range(s) \ Range(SubSeq(s, k + 1, Len(s)))
  <1> DEFINE n == Len(s)
             a == SubSeq(s, 1, k)
             b == SubSeq(s, k + 1, n)
  <1>1. n \in Nat /\ DOMAIN s = 1 .. n /\ k \in Nat /\ k <= n
    BY LenProperties
  <1>2. /\ a \in Seq(Nat) /\ Len(a) = k
        /\ \A i \in 1 .. k : a[i] = s[i]
    <2>1. k \in 1 - 1 .. n
      BY <1>1
    <2>2. /\ a \in Seq(Nat)
          /\ Len(a) = IF 1 <= k THEN k - 1 + 1 ELSE 0
          /\ \A i \in 1 .. k - 1 + 1 : a[i] = s[1 + i - 1]
      BY <1>1, <2>1, SubSeqProperties
    <2>. QED
      BY <1>1, <2>2
  <1>3. /\ b \in Seq(Nat) /\ Len(b) = n - k
        /\ \A i \in 1 .. n - k : b[i] = s[k + i]
    <2>1. k + 1 \in 1 .. n + 1 /\ n \in (k + 1) - 1 .. n
      BY <1>1
    <2>2. /\ b \in Seq(Nat)
          /\ Len(b) = IF k + 1 <= n THEN n - (k + 1) + 1 ELSE 0
          /\ \A i \in 1 .. n - (k + 1) + 1 : b[i] = s[(k + 1) + i - 1]
      BY <1>1, <2>1, SubSeqProperties
    <2>3. \A i \in 1 .. n - k : (k + 1) + i - 1 = k + i
      BY <1>1
    <2>4. n - (k + 1) + 1 = n - k
      BY <1>1
    <2>5. Len(b) = n - k
      <3> HIDE DEF b, n
      <3>. QED
        BY <1>1, <2>2
    <2> HIDE DEF n, b
    <2>. QED
      BY <2>2, <2>3, <2>4, <2>5
  <1> HIDE DEF a, b, n
  <1>4. DOMAIN a = 1 .. k /\ DOMAIN b = 1 .. n - k
    BY <1>1, <1>2, <1>3, LenProperties
  <1>5. \A i \in 1 .. k : i \in 1 .. n
    BY <1>1
  <1>6. \A i \in 1 .. n - k : k + i \in 1 .. n /\ k + i \notin 1 .. k
    BY <1>1
  <1>7. OneToOne(a)
    BY <1>1, <1>2, <1>4, <1>5 DEF OneToOne
  <1>8. OneToOne(b)
    <2>1. ASSUME NEW i \in 1 .. n - k, NEW j \in 1 .. n - k, b[i] = b[j]
          PROVE  i = j
      <3>1. k + i = k + j
        BY <1>1, <1>3, <1>6, <2>1 DEF OneToOne
      <3>. QED
        BY <1>1, <3>1
    <2>. QED
      BY <1>4, <2>1 DEF OneToOne
  <1>9. Range(b) \subseteq Range(s)
    BY <1>1, <1>3, <1>4, <1>6 DEF Range
  <1>10. Range(a) \subseteq Range(s) \ Range(b)
    <2>1. ASSUME NEW i \in 1 .. k, NEW j \in 1 .. n - k, a[i] = b[j]
          PROVE  FALSE
      BY <1>1, <1>2, <1>3, <1>5, <1>6, <2>1 DEF OneToOne
    <2>. QED
      BY <1>1, <1>2, <1>4, <1>5, <2>1 DEF Range
  <1>11. Range(s) \ Range(b) \subseteq Range(a)
    <2>1. ASSUME NEW i \in 1 .. n, s[i] \notin Range(b)
          PROVE  s[i] \in Range(a)
      <3>1. CASE i <= k
        BY <1>1, <1>2, <1>4, <3>1 DEF Range
      <3>2. CASE ~ (i <= k)
        <4>1. i - k \in 1 .. n - k /\ k + (i - k) = i
          BY <1>1, <3>2
        <4>. QED
          BY <1>3, <1>4, <2>1, <4>1 DEF Range
      <3>. QED
        BY <3>1, <3>2
    <2>. QED
      BY <1>1, <2>1 DEF Range
  <1>. QED
    BY <1>2, <1>3, <1>7, <1>8, <1>9, <1>10, <1>11 DEF a, b, n

LEMMA JoinedElements ==
    ASSUME NEW s \in Seq(Nat), NEW t \in Seq(Nat), OneToOne(s), OneToOne(t),
           Range(s) \cap Range(t) = {}
    PROVE  /\ s \o t \in Seq(Nat)
           /\ OneToOne(s \o t)
           /\ Range(s \o t) = Range(s) \cup Range(t)
  <1> DEFINE n == Len(s)
             k == Len(t)
             c == s \o t
  <1>1. /\ n \in Nat /\ DOMAIN s = 1 .. n
        /\ k \in Nat /\ DOMAIN t = 1 .. k
    BY LenProperties
  <1>2. /\ c \in Seq(Nat) /\ Len(c) = n + k
        /\ \A i \in 1 .. n + k : c[i] = IF i <= n THEN s[i] ELSE t[i - n]
    BY ConcatProperties, Zenon
  <1>3. DOMAIN c = 1 .. n + k
    BY <1>2, LenProperties
  <1> HIDE DEF n, k, c
  <1>4. \A i \in 1 .. n : i \in 1 .. n + k /\ c[i] = s[i]
    BY <1>1, <1>2
  <1>5. \A i \in 1 .. k : n + i \in 1 .. n + k /\ c[n + i] = t[i]
    BY <1>1, <1>2
  <1>6. \A i \in 1 .. n + k :
            i \in 1 .. n \/ (i - n \in 1 .. k /\ n + (i - n) = i)
    BY <1>1
  <1>7. ASSUME NEW i \in 1 .. n + k, NEW j \in 1 .. n + k, c[i] = c[j]
        PROVE  i = j
    <2>1. CASE i \in 1 .. n /\ j \in 1 .. n
      BY <1>1, <1>4, <1>7, <2>1 DEF OneToOne
    <2>2. CASE i \in 1 .. n /\ j \notin 1 .. n
      <3>1. j - n \in 1 .. k /\ c[j] = t[j - n]
        BY <1>5, <1>6, <2>2
      <3>. QED
        BY <1>1, <1>4, <1>7, <2>2, <3>1 DEF Range
    <2>3. CASE i \notin 1 .. n /\ j \in 1 .. n
      <3>1. i - n \in 1 .. k /\ c[i] = t[i - n]
        BY <1>5, <1>6, <2>3
      <3>. QED
        BY <1>1, <1>4, <1>7, <2>3, <3>1 DEF Range
    <2>4. CASE i \notin 1 .. n /\ j \notin 1 .. n
      <3>1. i - n \in 1 .. k /\ c[i] = t[i - n]
        BY <1>5, <1>6, <2>4
      <3>2. j - n \in 1 .. k /\ c[j] = t[j - n]
        BY <1>5, <1>6, <2>4
      <3>3. i - n = j - n
        BY <1>1, <1>7, <3>1, <3>2 DEF OneToOne
      <3>. QED
        BY <1>1, <3>3
    <2>. QED
      BY <2>1, <2>2, <2>3, <2>4
  <1>8. Range(c) = Range(s) \cup Range(t)
    <2>1. Range(c) \subseteq Range(s) \cup Range(t)
      <3>1. ASSUME NEW i \in 1 .. n + k
            PROVE  c[i] \in Range(s) \cup Range(t)
        <4>1. CASE i \in 1 .. n
          BY <1>1, <1>4, <4>1 DEF Range
        <4>2. CASE i \notin 1 .. n
          <5>1. i - n \in 1 .. k /\ c[i] = t[i - n]
            BY <1>5, <1>6, <4>2
          <5>. QED
            BY <1>1, <5>1 DEF Range
        <4>. QED
          BY <4>1, <4>2
      <3>. QED
        BY <1>3, <3>1 DEF Range
    <2>2. Range(s) \subseteq Range(c)
      BY <1>1, <1>3, <1>4 DEF Range
    <2>3. Range(t) \subseteq Range(c)
      BY <1>1, <1>3, <1>5 DEF Range
    <2>. QED
      BY <2>1, <2>2, <2>3
  <1>9. OneToOne(c)
    BY <1>3, <1>7 DEF OneToOne
  <1>. QED
    BY <1>2, <1>8, <1>9 DEF c

Distinct(m) ==
    \A s \in Slots(m), t \in Slots(m) : Ref(m, s) = Ref(m, t) => s = t

LEMMA DistinctIs ==
    ASSUME NEW m \in Object
    PROVE  Distinct(m) <=>
            OneToOne(m.subs) /\ (m.sub # 0 => m.sub \notin Range(m.subs))
  <1>1. 0 \notin DOMAIN m.subs
    BY KidsAre
  <1>2. \A s \in DOMAIN m.subs : s \in Slots(m) /\ Ref(m, s) = m.subs[s] /\ s # 0
    BY <1>1 DEF Slots, Ref
  <1>3. /\ Ref(m, 0) = m.sub
        /\ m.sub # 0 => 0 \in Slots(m)
        /\ \A s \in Slots(m) : s \in DOMAIN m.subs \/ (s = 0 /\ m.sub # 0)
    BY DEF Slots, Ref
  <1>4. ASSUME Distinct(m)
        PROVE  OneToOne(m.subs) /\ (m.sub # 0 => m.sub \notin Range(m.subs))
    <2>1. OneToOne(m.subs)
      BY <1>2, <1>4 DEF Distinct, OneToOne
    <2>2. ASSUME m.sub # 0, NEW s \in DOMAIN m.subs, m.subs[s] = m.sub
          PROVE  FALSE
      BY <1>2, <1>3, <1>4, <2>2 DEF Distinct
    <2>. QED
      BY <2>1, <2>2 DEF Range
  <1>5. ASSUME OneToOne(m.subs), m.sub # 0 => m.sub \notin Range(m.subs),
               NEW s \in Slots(m), NEW t \in Slots(m), Ref(m, s) = Ref(m, t)
        PROVE  s = t
    <2>1. CASE s \in DOMAIN m.subs /\ t \in DOMAIN m.subs
      BY <1>2, <1>5, <2>1 DEF OneToOne
    <2>2. CASE s \in DOMAIN m.subs /\ t \notin DOMAIN m.subs
      BY <1>2, <1>3, <1>5, <2>2 DEF Range
    <2>3. CASE s \notin DOMAIN m.subs /\ t \in DOMAIN m.subs
      BY <1>2, <1>3, <1>5, <2>3 DEF Range
    <2>4. CASE s \notin DOMAIN m.subs /\ t \notin DOMAIN m.subs
      BY <1>3, <1>5, <2>4
    <2>. QED
      BY <2>1, <2>2, <2>3, <2>4
  <1>. QED
    BY <1>4, <1>5 DEF Distinct

\* m holds what x holds, but for D, and H.
Replaces(x, m, D, H) ==
    /\ m \in Object
    /\ Distinct(m)
    /\ Kids(m) = (Kids(x) \ D) \cup H

LEMMA SameParts ==
    ASSUME NEW x \in Object, Distinct(x), NEW m \in Object,
           m.sub = x.sub, m.subs = x.subs
    PROVE  Replaces(x, m, {}, {})
  BY DistinctIs DEF Replaces, Kids

LEMMA NewSub ==
    ASSUME NEW x \in Object, Distinct(x), NEW m \in Object, m.subs = x.subs,
           m.sub # 0 => m.sub \notin Kids(x)
    PROVE  Replaces(x, m, {x.sub} \ {0}, {m.sub} \ {0})
  <1>1. /\ OneToOne(x.subs)
        /\ x.sub # 0 => x.sub \notin Range(x.subs)
    BY DistinctIs
  <1>2. Distinct(m)
    BY <1>1, DistinctIs DEF Kids
  <1>3. Kids(m) = (Kids(x) \ ({x.sub} \ {0})) \cup ({m.sub} \ {0})
    BY <1>1 DEF Kids
  <1>. QED
    BY <1>2, <1>3 DEF Replaces

LEMMA NewElements ==
    ASSUME NEW x \in Object, Distinct(x), NEW m \in Object, m.sub = x.sub,
           NEW D, D \subseteq Range(x.subs), NEW H, H \cap Kids(x) = {},
           OneToOne(m.subs), Range(m.subs) = (Range(x.subs) \ D) \cup H
    PROVE  Replaces(x, m, D, H)
  <1>1. x.sub # 0 => x.sub \notin Range(x.subs)
    BY DistinctIs
  <1>2. Distinct(m)
    BY <1>1, DistinctIs DEF Kids
  <1>3. Kids(m) = (Kids(x) \ D) \cup H
    BY <1>1 DEF Kids
  <1>. QED
    BY <1>2, <1>3 DEF Replaces

-----------------------------------------------------------------------------
(* The steps. *)

\* A step changes the message at p, and destroys its parts D.
Acts(p, m, new, D) ==
    /\ Change(obj, live, p, m, new, D)
    /\ obj' = Updated(obj, p, m, new, Gone(obj, D))
    /\ live' = (live \ Gone(obj, D)) \cup Fresh(obj, new)

LEMMA UpdateActs ==
    ASSUME Shape(obj, live), NEW p \in live, NEW m, NEW new, NEW D, NEW H,
           NEW gone, Replaces(obj[p], m, D, H), D \subseteq Kids(obj[p]),
           Forest(Len(obj), new, H), gone = Gone(obj, D),
           Update(p, m, new, gone)
    PROVE  Acts(p, m, new, D)
  <1>1. Change(obj, live, p, m, new, D)
    BY ForestChange DEF Replaces, Distinct
  <1>2. /\ obj' = Updated(obj, p, m, new, gone)
        /\ live' = (live \ gone) \cup Fresh(obj, new)
    BY DEF Update, Updated, Fresh
  <1>. QED
    BY <1>1, <1>2 DEF Acts

LEMMA GoneTrees ==
    ASSUME NEW a
    PROVE  /\ InSub(a) = Gone(obj, {obj[a].sub} \ {0})
           /\ InSubs(a) = Gone(obj, Range(obj[a].subs))
           /\ Gone(obj, {}) = {}
           /\ \A E : UNION {Tree[e] : e \in E} = Gone(obj, E)
  <1>1. Tree = TreeOf(obj)
    BY TreesAre
  <1>2. \A E : UNION {Tree[e] : e \in E} = Gone(obj, E)
    BY <1>1 DEF Gone
  <1>3. InSubs(a) = Gone(obj, Range(obj[a].subs))
    BY <1>2, TreesAre
  <1>4. Gone(obj, {}) = {}
    BY DEF Gone
  <1>5. InSub(a) = Gone(obj, {obj[a].sub} \ {0})
    <2>1. CASE obj[a].sub = 0
      BY <1>4, <2>1 DEF InSub
    <2>2. CASE obj[a].sub # 0
      BY <1>1, <2>2 DEF InSub, Gone
    <2>. QED
      BY <2>1, <2>2
  <1>. QED
    BY <1>2, <1>3, <1>4, <1>5

\* What is known of a live message.
LEMMA LiveMessage ==
    ASSUME Shape(obj, live), NEW p \in live
    PROVE  /\ obj \in Seq(Object) /\ Len(obj) \in Nat
           /\ obj[p] \in Object
           /\ obj[p].subs \in Seq(Nat) /\ OneToOne(obj[p].subs)
           /\ Distinct(obj[p])
           /\ Kids(obj[p]) \subseteq 1 .. Len(obj)
           /\ Range(obj[p].subs) \subseteq Kids(obj[p])
           /\ {obj[p].sub} \ {0} \subseteq Kids(obj[p])
           /\ obj[p].sub \in Nat
  <1>1. /\ obj \in Seq(Object) /\ p \in DOMAIN obj
        /\ Kids(obj[p]) \subseteq DOMAIN obj
        /\ Distinct(obj[p])
    BY DEF Shape, Memory, Unshared, Distinct
  <1>2. /\ Len(obj) \in Nat /\ DOMAIN obj = 1 .. Len(obj)
    BY <1>1, LenProperties
  <1>3. obj[p] \in Object
    BY <1>1, <1>2, ElementOfSeq
  <1>4. OneToOne(obj[p].subs)
    BY <1>1, <1>3, DistinctIs
  <1>5. obj[p].subs \in Seq(Nat) /\ obj[p].sub \in Nat
    BY <1>3 DEF Object
  <1>. QED
    BY <1>1, <1>2, <1>3, <1>4, <1>5 DEF Kids

LEMMA SamePartsActs ==
    ASSUME Shape(obj, live), NEW p \in live, NEW m \in Object,
           m.sub = obj[p].sub, m.subs = obj[p].subs, Update(p, m, <<>>, {})
    PROVE  Acts(p, m, <<>>, {})
  <1>1. Replaces(obj[p], m, {}, {})
    BY LiveMessage, SameParts
  <1>2. Forest(Len(obj), <<>>, {}) /\ Gone(obj, {}) = {}
    BY LiveMessage, EmptyForest, GoneTrees
  <1>. QED
    BY <1>1, <1>2, UpdateActs

LEMMA OneNew ==
    ASSUME NEW n \in Nat
    PROVE  Forest(n, <<New>>, {n + 1})
  <1>1. Append(<<>>, New) = <<New>> /\ Len(<<>>) = 0
    OBVIOUS
  <1>2. {} \cup {n + Len(<<>>) + 1} = {n + 1}
    BY <1>1
  <1>3. Forest(n, Append(<<>>, New), {} \cup {n + Len(<<>>) + 1})
    BY EmptyForest, ForestGrows
  <1>. QED
    BY <1>1, <1>2, <1>3

LEMMA HeldActs ==
    ASSUME Shape(obj, live), NEW p \in live, NEW m \in Object,
           m.sub = Held(p), m.subs = obj[p].subs,
           Update(p, m, MadeDefault(p), {})
    PROVE  Acts(p, m, MadeDefault(p), {})
  <1>1. CASE IsNull(p)
    <2>1. /\ obj[p].sub = 0 /\ m.sub = Len(obj) + 1
          /\ MadeDefault(p) = <<New>>
      BY <1>1 DEF IsNull, Held, MadeDefault
    <2>2. Forest(Len(obj), <<New>>, {Len(obj) + 1}) /\ Gone(obj, {}) = {}
      BY LiveMessage, OneNew, GoneTrees
    <2>3. m.sub \notin Kids(obj[p]) /\ m.sub # 0
      <3>1. Len(obj) \in Nat /\ Kids(obj[p]) \subseteq 1 .. Len(obj)
        BY LiveMessage
      <3>. QED
        BY <2>1, <3>1
    <2>4. Replaces(obj[p], m, {obj[p].sub} \ {0}, {m.sub} \ {0})
      BY <2>3, LiveMessage, NewSub
    <2>5. {obj[p].sub} \ {0} = {} /\ {m.sub} \ {0} = {Len(obj) + 1}
      BY <2>1, <2>3
    <2>6. Replaces(obj[p], m, {}, {Len(obj) + 1})
      BY <2>4, <2>5
    <2>. QED
      BY <2>1, <2>2, <2>6, UpdateActs
  <1>2. CASE ~ IsNull(p)
    <2>1. m.sub = obj[p].sub /\ MadeDefault(p) = <<>>
      BY <1>2 DEF IsNull, Held, MadeDefault
    <2>. QED
      BY <2>1, SamePartsActs
  <1>. QED
    BY <1>1, <1>2

LEMMA SetNumActs ==
    ASSUME Shape(obj, live), NEW p \in live, SetNum(p)
    PROVE  \E m, new : Acts(p, m, new, {})
  <1>1. PICK n \in Nums : Update(p, [obj[p] EXCEPT !.num = n], <<>>, {})
    BY DEF SetNum
  <1> DEFINE m == [obj[p] EXCEPT !.num = n]
  <1>2. m \in Object /\ m.sub = obj[p].sub /\ m.subs = obj[p].subs
    BY LiveMessage DEF Object
  <1>. HIDE DEF m
  <1>3. Acts(p, m, <<>>, {})
    BY <1>1, <1>2, SamePartsActs DEF m
  <1>. QED
    BY <1>3

LEMMA HeldIs ==
    ASSUME Shape(obj, live), NEW p \in live
    PROVE  Held(p) \in Nat \ {0}
  BY LiveMessage DEF Held, IsNull

LEMMA SubActs ==
    ASSUME Shape(obj, live), NEW p \in live, Sub(p)
    PROVE  \E m, new : Acts(p, m, new, {})
  <1> DEFINE m == [obj[p] EXCEPT !.sub = Held(p)]
  <1>1. m \in Object /\ m.sub = Held(p) /\ m.subs = obj[p].subs
    BY LiveMessage, HeldIs DEF Object
  <1>2. Update(p, m, MadeDefault(p), {})
    BY DEF Sub
  <1>. HIDE DEF m
  <1>3. Acts(p, m, MadeDefault(p), {})
    BY <1>1, <1>2, HeldActs
  <1>. QED
    BY <1>3

LEMMA MutableSubActs ==
    ASSUME Shape(obj, live), NEW p \in live, MutableSub(p)
    PROVE  \E m, new : Acts(p, m, new, {})
  <1> DEFINE m == [obj[p] EXCEPT !.sub = Held(p), !.has = TRUE]
  <1>1. m \in Object /\ m.sub = Held(p) /\ m.subs = obj[p].subs
    BY LiveMessage, HeldIs DEF Object
  <1>2. Update(p, m, MadeDefault(p), {})
    BY DEF MutableSub
  <1>. HIDE DEF m
  <1>3. Acts(p, m, MadeDefault(p), {})
    BY <1>1, <1>2, HeldActs
  <1>. QED
    BY <1>3

LEMMA ClearSubActs ==
    ASSUME Shape(obj, live), NEW p \in live, ClearSub(p)
    PROVE  \E m, new : Acts(p, m, new, {obj[p].sub} \ {0})
  <1> DEFINE m == [obj[p] EXCEPT !.sub = 0, !.has = FALSE]
             D == {obj[p].sub} \ {0}
  <1>1. m \in Object /\ m.sub = 0 /\ m.subs = obj[p].subs
    BY LiveMessage DEF Object
  <1>2. Update(p, m, <<>>, InSub(p))
    BY DEF ClearSub
  <1>. HIDE DEF m
  <1>3. Replaces(obj[p], m, D, {m.sub} \ {0})
    BY <1>1, LiveMessage, NewSub
  <1>4. {m.sub} \ {0} = {}
    BY <1>1
  <1>5. Forest(Len(obj), <<>>, {}) /\ InSub(p) = Gone(obj, D)
    BY LiveMessage, EmptyForest, GoneTrees
  <1>6. D \subseteq Kids(obj[p])
    BY LiveMessage
  <1>. HIDE DEF D
  <1>7. Acts(p, m, <<>>, D)
    BY <1>2, <1>3, <1>4, <1>5, <1>6, UpdateActs
  <1>. QED
    BY <1>7 DEF D

LEMMA AddSubsActs ==
    ASSUME Shape(obj, live), NEW p \in live, AddSubs(p)
    PROVE  \E m, new : Acts(p, m, new, {})
  <1> DEFINE x == obj[p]
             n == Len(obj)
             s == Append(x.subs, n + 1)
             m == [x EXCEPT !.subs = s]
  <1>1. /\ x \in Object /\ x.subs \in Seq(Nat) /\ OneToOne(x.subs)
        /\ n \in Nat /\ Distinct(x)
        /\ n + 1 \notin Kids(x) /\ n + 1 \notin Range(x.subs)
    BY LiveMessage
  <1>2. Update(p, m, <<New>>, {})
    BY DEF AddSubs
  <1>3. /\ s \in Seq(Nat)
        /\ OneToOne(s)
        /\ Range(s) = Range(x.subs) \cup {n + 1}
    BY <1>1, AppendedElements
  <1>. HIDE DEF s
  <1>4. m \in Object /\ m.sub = x.sub /\ m.subs = s
    BY <1>1, <1>3 DEF Object
  <1>. HIDE DEF m
  <1>5. Replaces(x, m, {}, {n + 1})
    BY <1>1, <1>3, <1>4, NewElements
  <1>6. Forest(n, <<New>>, {n + 1}) /\ Gone(obj, {}) = {}
    BY <1>1, OneNew, GoneTrees
  <1>7. Acts(p, m, <<New>>, {})
    BY <1>2, <1>5, <1>6, UpdateActs
  <1>. QED
    BY <1>7

LEMMA ClearSubsActs ==
    ASSUME Shape(obj, live), NEW p \in live, ClearSubs(p)
    PROVE  \E m, new : Acts(p, m, new, Range(obj[p].subs))
  <1> DEFINE x == obj[p]
             s == <<>>
             m == [x EXCEPT !.subs = s]
             D == Range(x.subs)
  <1>1. x \in Object /\ Distinct(x) /\ D \subseteq Kids(x) /\ Len(obj) \in Nat
    BY LiveMessage
  <1>2. Update(p, m, <<>>, InSubs(p))
    BY DEF ClearSubs
  <1>3. s \in Seq(Nat) /\ OneToOne(s) /\ Range(s) = {}
    BY DEF OneToOne, Range
  <1>. HIDE DEF s
  <1>4. m \in Object /\ m.sub = x.sub /\ m.subs = s
    BY <1>1, <1>3 DEF Object
  <1>. HIDE DEF m
  <1>5. Replaces(x, m, D, {})
    BY <1>1, <1>3, <1>4, NewElements
  <1>6. Forest(Len(obj), <<>>, {}) /\ InSubs(p) = Gone(obj, D)
    BY <1>1, EmptyForest, GoneTrees
  <1>. HIDE DEF D
  <1>7. Acts(p, m, <<>>, D)
    BY <1>1, <1>2, <1>5, <1>6, UpdateActs
  <1>. QED
    BY <1>7 DEF D

\* The copies of the trees S of E go to addresses that are free.
Copied(p, E, S) ==
    /\ Forest(Len(obj), Copies(S), {CopyOf(e, S) : e \in E})
    /\ {CopyOf(e, S) : e \in E} \cap Kids(obj[p]) = {}
    /\ \A e \in E : CopyOf(e, S) \in Nat \ {0}
    /\ S \subseteq DOMAIN obj /\ E \subseteq S
    /\ Len(Copies(S)) = Cardinality(S) /\ Cardinality(S) \in Nat
    /\ Len(obj) + Cardinality(S) + 1 \notin Kids(obj[p])
    /\ \A e \in E : CopyOf(e, S) # Len(obj) + Cardinality(S) + 1

LEMMA PartsCopied ==
    ASSUME Shape(obj, live), NEW p \in live, NEW q \in live,
           NEW E, E \subseteq Kids(obj[q]), NEW S, S = Gone(obj, E)
    PROVE  Copied(p, E, S)
  <1>1. E \subseteq S /\ S \subseteq DOMAIN obj /\ Closed(obj, S)
    BY GoneIs DEF Shape, Closed
  <1>2. /\ obj \in Seq(Object) /\ Len(obj) \in Nat
        /\ Kids(obj[p]) \subseteq 1 .. Len(obj)
    BY LiveMessage
  <1>3. /\ Cardinality(S) \in Nat
        /\ \A a \in S : CopyOf(a, S) \in Len(obj) + 1 .. Len(obj) + Cardinality(S)
    BY <1>1, <1>2, CopiesInOrder
  <1>4. Forest(Len(obj), Copies(S), {CopyOf(e, S) : e \in E})
    BY CopiesForest
  <1>5. Len(Copies(S)) = Cardinality(S)
    BY <1>1, CopiesAre DEF Shape
  <1>6. ASSUME NEW e \in E
        PROVE  /\ CopyOf(e, S) \in Nat \ {0}
               /\ CopyOf(e, S) \notin Kids(obj[p])
               /\ CopyOf(e, S) # Len(obj) + Cardinality(S) + 1
    <2>1. CopyOf(e, S) \in Len(obj) + 1 .. Len(obj) + Cardinality(S)
      BY <1>1, <1>3
    <2>. QED
      BY <1>2, <1>3, <2>1
  <1>7. Len(obj) + Cardinality(S) + 1 \notin Kids(obj[p])
    BY <1>2, <1>3
  <1>. QED
    BY <1>1, <1>3, <1>4, <1>5, <1>6, <1>7 DEF Copied

LEMMA AddSubsAndGrowActs ==
    ASSUME Shape(obj, live), NEW p \in live, AddSubsAndGrow(p)
    PROVE  \E m, new : Acts(p, m, new, Range(obj[p].subs))
  <1> DEFINE x == obj[p]
             E == Range(x.subs)
             S == InSubs(p)
             added == Len(obj) + Cardinality(S) + 1
             c == CopiesOf(x.subs, S)
             s == Append(c, added)
             m == [x EXCEPT !.subs = s]
             new == Append(Copies(S), New)
             H == {CopyOf(e, S) : e \in E}
  <1>1. /\ x \in Object /\ x.subs \in Seq(Nat) /\ OneToOne(x.subs)
        /\ Distinct(x) /\ E \subseteq Kids(x)
        /\ obj \in Seq(Object) /\ Len(obj) \in Nat
    BY LiveMessage
  <1>2. Update(p, m, new, S)
    BY DEF AddSubsAndGrow
  <1>3. S = Gone(obj, E)
    BY GoneTrees
  <1>. HIDE DEF S
  <1>4. /\ Forest(Len(obj), Copies(S), H)
        /\ H \cap Kids(x) = {}
        /\ S \subseteq DOMAIN obj /\ E \subseteq S
        /\ Len(Copies(S)) = Cardinality(S) /\ Cardinality(S) \in Nat
        /\ added \notin Kids(x)
        /\ \A e \in E : CopyOf(e, S) # added
    <2>1. Copied(p, E, S)
      BY <1>1, <1>3, PartsCopied
    <2>. QED
      BY <2>1 DEF Copied
  <1>5. c \in Seq(Nat) /\ OneToOne(c) /\ Range(c) = H
    BY <1>1, <1>4, CopiedElements
  <1>6. added \notin H
    BY <1>4
  <1>. HIDE DEF c, H
  <1>7. /\ s \in Seq(Nat)
        /\ OneToOne(s)
        /\ Range(s) = H \cup {added}
    <2>1. added \in Nat /\ added \notin Range(c)
      BY <1>1, <1>4, <1>5, <1>6
    <2>. HIDE DEF added
    <2>. QED
      BY <1>5, <2>1, AppendedElements
  <1>8. Forest(Len(obj), new, H \cup {added})
    <2>1. Forest(Len(obj), new, H \cup {Len(obj) + Len(Copies(S)) + 1})
      BY <1>1, <1>4, ForestGrows
    <2>. QED
      BY <1>4, <2>1
  <1>. HIDE DEF s, added, new
  <1>9. m \in Object /\ m.sub = x.sub /\ m.subs = s
    BY <1>1, <1>7 DEF Object
  <1>. HIDE DEF m
  <1>10. Replaces(x, m, E, H \cup {added})
    BY <1>1, <1>4, <1>7, <1>9, NewElements
  <1>. HIDE DEF E
  <1>11. Acts(p, m, new, E)
    BY <1>1, <1>2, <1>3, <1>8, <1>10, UpdateActs
  <1>. QED
    BY <1>11 DEF E

LEMMA AssignNumActs ==
    ASSUME Shape(obj, live), Top.dst \in live, AssignNum
    PROVE  \E m, new, D : Acts(Top.dst, m, new, D)
  <1> DEFINE m == [Dst EXCEPT !.num = Src.num]
  <1>1. Dst \in Object /\ Src \in Object
    BY LiveMessage DEF AssignNum, At, Dst, Src
  <1>2. m \in Object /\ m.sub = Dst.sub /\ m.subs = Dst.subs
    BY <1>1 DEF Object
  <1>3. Update(Top.dst, m, <<>>, {})
    BY DEF AssignNum
  <1>. HIDE DEF m
  <1>4. Acts(Top.dst, m, <<>>, {})
    BY <1>2, <1>3, SamePartsActs DEF Dst
  <1>. QED
    BY <1>4

LEMMA AssignHasActs ==
    ASSUME Shape(obj, live), Top.dst \in live, AssignHas
    PROVE  \E m, new, D : Acts(Top.dst, m, new, D)
  <1> DEFINE m == [Dst EXCEPT !.has = Src.has]
  <1>1. Dst \in Object /\ Src \in Object
    BY LiveMessage DEF AssignHas, At, Dst, Src
  <1>2. m \in Object /\ m.sub = Dst.sub /\ m.subs = Dst.subs
    BY <1>1 DEF Object
  <1>3. Update(Top.dst, m, <<>>, {})
    BY DEF AssignHas
  <1>. HIDE DEF m
  <1>4. Acts(Top.dst, m, <<>>, {})
    BY <1>2, <1>3, SamePartsActs DEF Dst
  <1>. QED
    BY <1>4

LEMMA AssignSubActs ==
    ASSUME Shape(obj, live), Top.dst \in live, AssignSub
    PROVE  \E m, new, D : Acts(Top.dst, m, new, D)
  <1> DEFINE x == obj[Top.dst]
             y == obj[Top.src]
             E == {y.sub} \ {0}
             D == {x.sub} \ {0}
             S == InSub(Top.src)
             v == IF y.sub = 0 THEN 0 ELSE CopyOf(y.sub, S)
             m == [x EXCEPT !.sub = v]
             H == {CopyOf(e, S) : e \in E}
  <1>1. /\ Top.src \in live
        /\ Update(Top.dst, m, Copies(S), InSub(Top.dst))
    BY DEF AssignSub, At, Dst, Src
  <1>2. /\ x \in Object /\ Distinct(x) /\ D \subseteq Kids(x)
        /\ E \subseteq Kids(y) /\ Len(obj) \in Nat
    BY <1>1, LiveMessage
  <1>3. S = Gone(obj, E) /\ InSub(Top.dst) = Gone(obj, D)
    BY GoneTrees
  <1>. HIDE DEF S
  <1>4. /\ Forest(Len(obj), Copies(S), H)
        /\ H \cap Kids(x) = {}
        /\ \A e \in E : CopyOf(e, S) \in Nat \ {0}
    <2>1. Copied(Top.dst, E, S)
      BY <1>1, <1>2, <1>3, PartsCopied
    <2>. QED
      BY <2>1 DEF Copied
  <1>5. v \in Nat /\ {v} \ {0} = H
    <2>1. CASE y.sub = 0
      BY <2>1
    <2>2. CASE y.sub # 0
      <3>1. E = {y.sub} /\ v = CopyOf(y.sub, S)
        BY <2>2
      <3>2. v \in Nat \ {0}
        BY <1>4, <3>1
      <3>3. H = {v}
        BY <3>1
      <3>. HIDE DEF v, H
      <3>. QED
        BY <3>2, <3>3
    <2>. QED
      BY <2>1, <2>2
  <1>. HIDE DEF v, H
  <1>6. m \in Object /\ m.sub = v /\ m.subs = x.subs
    BY <1>2, <1>5 DEF Object
  <1>. HIDE DEF m
  <1>7. m.sub # 0 => m.sub \notin Kids(x)
    BY <1>4, <1>5, <1>6
  <1>8. Replaces(x, m, D, H)
    BY <1>2, <1>5, <1>6, <1>7, NewSub
  <1>. HIDE DEF D
  <1>9. Acts(Top.dst, m, Copies(S), D)
    BY <1>1, <1>2, <1>3, <1>4, <1>8, UpdateActs
  <1>. QED
    BY <1>9

LEMMA AssignSubsAndGrowActs ==
    ASSUME Shape(obj, live), Top.dst \in live, AssignSubsAndGrow
    PROVE  \E m, new, D : Acts(Top.dst, m, new, D)
  <1> DEFINE x == obj[Top.dst]
             y == obj[Top.src]
             E == Range(y.subs)
             D == Range(x.subs)
             S == InSubs(Top.src)
             s == CopiesOf(y.subs, S)
             m == [x EXCEPT !.subs = s]
             H == {CopyOf(e, S) : e \in E}
  <1>1. /\ Top.src \in live
        /\ Update(Top.dst, m, Copies(S), InSubs(Top.dst))
    BY DEF AssignSubsAndGrow, At, Dst, Src
  <1>2. /\ x \in Object /\ Distinct(x) /\ D \subseteq Kids(x)
        /\ obj \in Seq(Object) /\ Len(obj) \in Nat
    BY LiveMessage
  <1>3. E \subseteq Kids(y) /\ y.subs \in Seq(Nat) /\ OneToOne(y.subs)
    BY <1>1, LiveMessage
  <1>4. S = Gone(obj, E) /\ InSubs(Top.dst) = Gone(obj, D)
    BY GoneTrees
  <1>. HIDE DEF S
  <1>5. /\ Forest(Len(obj), Copies(S), H)
        /\ H \cap Kids(x) = {}
        /\ S \subseteq DOMAIN obj /\ E \subseteq S
    <2>1. Copied(Top.dst, E, S)
      BY <1>1, <1>3, <1>4, PartsCopied
    <2>. QED
      BY <2>1 DEF Copied
  <1>6. s \in Seq(Nat) /\ OneToOne(s) /\ Range(s) = H
    BY <1>2, <1>3, <1>5, CopiedElements
  <1>. HIDE DEF s, H
  <1>7. m \in Object /\ m.sub = x.sub /\ m.subs = s
    BY <1>2, <1>6 DEF Object
  <1>. HIDE DEF m
  <1>8. Replaces(x, m, D, H)
    BY <1>2, <1>5, <1>6, <1>7, NewElements
  <1>. HIDE DEF D
  <1>9. Acts(Top.dst, m, Copies(S), D)
    BY <1>1, <1>2, <1>4, <1>5, <1>8, UpdateActs
  <1>. QED
    BY <1>9

LEMMA LesserIs ==
    ASSUME NEW a \in Nat, NEW b \in Nat
    PROVE  Min({a, b}) \in Nat /\ Min({a, b}) <= a /\ Min({a, b}) <= b
  <1>1. \E x \in {a, b} : \A y \in {a, b} : x <= y
    <2>1. CASE a <= b
      BY <2>1
    <2>2. CASE ~ (a <= b)
      BY <2>2
    <2>. QED
      BY <2>1, <2>2
  <1>. QED
    BY <1>1 DEF Min

LEMMA AssignRestActs ==
    ASSUME Shape(obj, live), Top.dst \in live, AssignRest
    PROVE  \E m, new, D : Acts(Top.dst, m, new, D)
  <1> DEFINE x == obj[Top.dst]
             y == obj[Top.src]
             k == Min({Len(y.subs), Len(x.subs)})
             first == SubSeq(x.subs, 1, k)
             r == SubSeq(x.subs, k + 1, Len(x.subs))
             more == SubSeq(y.subs, k + 1, Len(y.subs))
             D == Range(r)
             E == Range(more)
             S == UNION {Tree[e] : e \in E}
             gone == UNION {Tree[e] : e \in D}
             c == CopiesOf(more, S)
             s == first \o c
             m == [x EXCEPT !.subs = s]
             H == {CopyOf(e, S) : e \in E}
  <1>1. /\ Top.src \in live
        /\ Update(Top.dst, [x EXCEPT !.subs =
                        SubSeq(@, 1, Len(@) - Len(r)) \o c], Copies(S), gone)
    BY Zenon DEF AssignRest, At, Dst, Src
  <1>2. /\ x \in Object /\ Distinct(x) /\ Range(x.subs) \subseteq Kids(x)
        /\ x.subs \in Seq(Nat) /\ OneToOne(x.subs)
        /\ obj \in Seq(Object) /\ Len(obj) \in Nat
    BY LiveMessage
  <1>3. /\ Range(y.subs) \subseteq Kids(y)
        /\ y.subs \in Seq(Nat) /\ OneToOne(y.subs)
    BY <1>1, LiveMessage
  <1>4. k \in 0 .. Len(x.subs) /\ k \in 0 .. Len(y.subs)
    <2>1. Len(x.subs) \in Nat /\ Len(y.subs) \in Nat
      BY <1>2, <1>3, LenProperties
    <2>2. k \in Nat /\ k <= Len(y.subs) /\ k <= Len(x.subs)
      BY <2>1, LesserIs
    <2>. HIDE DEF k
    <2>. QED
      BY <2>1, <2>2
  <1>. HIDE DEF k
  <1>5. /\ first \in Seq(Nat) /\ OneToOne(first)
        /\ Range(first) = Range(x.subs) \ D
        /\ D \subseteq Range(x.subs)
        /\ Len(r) = Len(x.subs) - k
    BY <1>2, <1>4, SplitElements
  <1>6. more \in Seq(Nat) /\ OneToOne(more) /\ E \subseteq Range(y.subs)
    BY <1>3, <1>4, SplitElements
  <1>7. Len(x.subs) - Len(r) = k
    <2>1. Len(x.subs) \in Nat
      BY <1>2, LenProperties
    <2>. HIDE DEF r
    <2>. QED
      BY <1>4, <1>5, <2>1
  <1>8. Update(Top.dst, m, Copies(S), gone)
    BY <1>1, <1>7
  <1>9. S = Gone(obj, E) /\ gone = Gone(obj, D)
    BY GoneTrees
  <1>. HIDE DEF first, r, more, S, gone
  <1>10. /\ Forest(Len(obj), Copies(S), H)
         /\ H \cap Kids(x) = {}
         /\ S \subseteq DOMAIN obj /\ E \subseteq S
    <2>1. E \subseteq Kids(y)
      BY <1>3, <1>6
    <2>2. Copied(Top.dst, E, S)
      BY <1>1, <1>9, <2>1, PartsCopied
    <2>. QED
      BY <2>2 DEF Copied
  <1>11. c \in Seq(Nat) /\ OneToOne(c) /\ Range(c) = H
    BY <1>2, <1>6, <1>10, CopiedElements
  <1>. HIDE DEF c, H, D
  <1>12. /\ s \in Seq(Nat)
         /\ OneToOne(s)
         /\ Range(s) = (Range(x.subs) \ D) \cup H
    <2>1. Range(first) \cap Range(c) = {}
      BY <1>2, <1>5, <1>10, <1>11
    <2>. QED
      BY <1>5, <1>11, <2>1, JoinedElements
  <1>. HIDE DEF s
  <1>13. m \in Object /\ m.sub = x.sub /\ m.subs = s
    BY <1>2, <1>12 DEF Object
  <1>. HIDE DEF m
  <1>14. Replaces(x, m, D, H)
    BY <1>2, <1>5, <1>10, <1>12, <1>13, NewElements
  <1>15. D \subseteq Kids(x)
    BY <1>2, <1>5
  <1>16. Acts(Top.dst, m, Copies(S), D)
    BY <1>2, <1>8, <1>9, <1>10, <1>14, <1>15, UpdateActs
  <1>. QED
    BY <1>16

-----------------------------------------------------------------------------
(* The invariant. *)

FrameType == [dst : Nat, src : Nat, at : {"num", "sub", "has", "subs", "rest"}]

\* The activations fs of operator= assign to parts of one message, and the
\* inner ones do not assign to anything around what the outer ones assign to.
Stacked(h, L, fs) ==
    /\ fs \in Seq(FrameType)
    /\ \A i \in DOMAIN fs :
        fs[i].dst \in L /\ fs[i].dst \in TreeOf(h)[fs[1].dst]
    /\ \A i \in DOMAIN fs, j \in DOMAIN fs :
        i < j => fs[i].dst \notin TreeOf(h)[fs[j].dst]

\* They copy from parts of another message, or a message is assigned to itself.
Apart(h, L, fs) ==
    /\ \A i \in DOMAIN fs :
        fs[i].src \in L /\ fs[i].src \in TreeOf(h)[fs[1].src]
    /\ fs # <<>> =>
        \/ Len(fs) = 1 /\ fs[1].src = fs[1].dst
        \/ TreeOf(h)[fs[1].src] \cap TreeOf(h)[fs[1].dst] = {}

OwnInv ==
    /\ Shape(obj, live)
    /\ Stacked(obj, live, frames)
    /\ ~ Nested => Apart(obj, live, frames)

LEMMA StepKeepsStack ==
    ASSUME Shape(obj, live), NEW fs, Stacked(obj, live, fs), fs # <<>>,
           NEW m, NEW new, NEW D, Acts(fs[Len(fs)].dst, m, new, D)
    PROVE  /\ Shape(obj', live')
           /\ Stacked(obj', live', fs)
           /\ Apart(obj, live, fs) => Apart(obj', live', fs)
           /\ live \ live' \subseteq TreeOf(obj)[fs[1].dst] \ {fs[1].dst}
  <1> DEFINE p == fs[Len(fs)].dst
             G == Gone(obj, D)
             F == Fresh(obj, new)
             u == obj'
             K == (live \ G) \cup F
  <1>1. /\ Change(obj, live, p, m, new, D)
        /\ live' = K
        /\ After(obj, p, m, new, D, u)
    BY UpdatedIsAfter DEF Acts
  <1>2. Shape(u, K)
    BY <1>1, ChangeKeepsShape
  <1>3. /\ fs \in Seq(FrameType)
        /\ Len(fs) \in DOMAIN fs /\ 1 \in DOMAIN fs
        /\ \A i \in DOMAIN fs : i \in Nat /\ i <= Len(fs) /\ 1 <= i
    BY EmptySeq, LenProperties DEF Stacked
  <1>4. /\ \A i \in DOMAIN fs :
            fs[i].dst \in live /\ fs[i].dst \in TreeOf(obj)[fs[1].dst]
        /\ \A i \in DOMAIN fs, j \in DOMAIN fs :
            i < j => fs[i].dst \notin TreeOf(obj)[fs[j].dst]
    BY DEF Stacked
  <1>5. p \in live /\ p \in TreeOf(obj)[fs[1].dst]
    BY <1>3, <1>4
  <1>6. G \subseteq TreeOf(obj)[p] \ {p}
    BY <1>1, <1>5, GoneIs DEF Change
  <1>7. \A a \in live \ G :
            /\ TreeOf(u)[a] \subseteq (TreeOf(obj)[a] \ G) \cup F
            /\ TreeOf(obj)[a] \ G \subseteq TreeOf(u)[a]
            /\ p \notin TreeOf(obj)[a] => TreeOf(u)[a] = TreeOf(obj)[a]
    BY <1>1, TreesAfter
  <1>8. /\ Memory(obj) /\ live \subseteq DOMAIN obj
        /\ live \cap F = {}
    BY <1>1 DEF Shape, After
  <1>9. \A a \in live : /\ a \in TreeOf(obj)[a]
                        /\ TreeOf(obj)[a] \subseteq live
                        /\ \A b \in TreeOf(obj)[a] :
                            TreeOf(obj)[b] \subseteq TreeOf(obj)[a]
    BY <1>8, TreeIsLive, TreeProperties
  <1> HIDE DEF p, G, F, u
  <1>10. ASSUME NEW i \in DOMAIN fs
         PROVE  fs[i].dst \in live \ G
    <2>1. CASE i = Len(fs)
      BY <1>4, <1>6, <2>1 DEF p
    <2>2. CASE i # Len(fs)
      <3>1. i < Len(fs)
        BY <1>3, <2>2
      <3>2. fs[i].dst \notin TreeOf(obj)[p]
        BY <1>3, <1>4, <3>1 DEF p
      <3>. QED
        BY <1>4, <1>6, <3>2
    <2>. QED
      BY <2>1, <2>2
  <1>11. G \subseteq TreeOf(obj)[fs[1].dst]
    BY <1>3, <1>4, <1>5, <1>6, <1>9
  <1>12. Stacked(u, K, fs)
    <2>1. ASSUME NEW i \in DOMAIN fs
          PROVE  fs[i].dst \in K /\ fs[i].dst \in TreeOf(u)[fs[1].dst]
      BY <1>3, <1>4, <1>7, <1>10
    <2>2. ASSUME NEW i \in DOMAIN fs, NEW j \in DOMAIN fs, i < j
          PROVE  fs[i].dst \notin TreeOf(u)[fs[j].dst]
      BY <1>4, <1>7, <1>8, <1>10, <2>2
    <2> HIDE DEF K
    <2>. QED
      BY <1>3, <2>1, <2>2 DEF Stacked
  <1>13. ASSUME Apart(obj, live, fs)
         PROVE  Apart(u, K, fs)
    <2>1. CASE Len(fs) = 1 /\ fs[1].src = fs[1].dst
      <3>1. \A i \in DOMAIN fs : i = 1
        BY <1>3, <2>1
      <3>2. fs[1].dst \in K /\ fs[1].dst \in TreeOf(u)[fs[1].dst]
        BY <1>3, <1>4, <1>7, <1>10
      <3>. HIDE DEF K
      <3>. QED
        BY <2>1, <3>1, <3>2 DEF Apart
    <2>2. CASE TreeOf(obj)[fs[1].src] \cap TreeOf(obj)[fs[1].dst] = {}
      <3>1. \A i \in DOMAIN fs :
                fs[i].src \in live /\ fs[i].src \in TreeOf(obj)[fs[1].src]
        BY <1>13 DEF Apart
      <3>2. \A i \in DOMAIN fs : fs[i].src \in live \ G
        BY <1>11, <2>2, <3>1
      <3>3. TreeOf(u)[fs[1].src] = TreeOf(obj)[fs[1].src]
        BY <1>3, <1>5, <1>7, <2>2, <3>2
      <3>4. TreeOf(u)[fs[1].src] \cap TreeOf(u)[fs[1].dst] = {}
        BY <1>3, <1>7, <1>8, <1>9, <1>10, <2>2, <3>2, <3>3
      <3>5. \A i \in DOMAIN fs : fs[i].src \in K
        BY <3>2
      <3>. HIDE DEF K
      <3>. QED
        BY <3>1, <3>3, <3>4, <3>5 DEF Apart
    <2>. QED
      BY <1>13, <2>1, <2>2 DEF Apart
  <1>14. live \ K \subseteq TreeOf(obj)[fs[1].dst] \ {fs[1].dst}
    BY <1>3, <1>10, <1>11
  <1>. QED
    BY <1>1, <1>2, <1>12, <1>13, <1>14 DEF u

\* Of the activations fs, some of the inner ones have returned, or gone on.
Fewer(fs, gs) ==
    /\ gs \in Seq(FrameType)
    /\ Len(gs) <= Len(fs)
    /\ \A i \in DOMAIN gs : gs[i].dst = fs[i].dst /\ gs[i].src = fs[i].src

LEMMA FewerKeep ==
    ASSUME NEW h, NEW L, NEW fs, Stacked(h, L, fs), NEW gs, Fewer(fs, gs)
    PROVE  Stacked(h, L, gs) /\ (Apart(h, L, fs) => Apart(h, L, gs))
  <1>1. /\ Len(fs) \in Nat /\ DOMAIN fs = 1 .. Len(fs)
        /\ Len(gs) \in Nat /\ DOMAIN gs = 1 .. Len(gs)
        /\ Len(gs) <= Len(fs)
        /\ gs # <<>> => Len(gs) # 0
    BY EmptySeq, LenProperties DEF Stacked, Fewer
  <1>2. \A i \in DOMAIN gs :
            /\ i \in DOMAIN fs /\ 1 \in DOMAIN gs
            /\ gs[i].dst = fs[i].dst /\ gs[i].src = fs[i].src
    BY <1>1 DEF Fewer
  <1>3. Stacked(h, L, gs)
    <2>1. gs \in Seq(FrameType)
      BY DEF Fewer
    <2>. QED
      BY <1>2, <2>1 DEF Stacked
  <1>4. ASSUME Apart(h, L, fs)
        PROVE  Apart(h, L, gs)
    <2>1. \A i \in DOMAIN gs :
            gs[i].src \in L /\ gs[i].src \in TreeOf(h)[gs[1].src]
      BY <1>2, <1>4 DEF Apart
    <2>2. ASSUME gs # <<>>
          PROVE  \/ Len(gs) = 1 /\ gs[1].src = gs[1].dst
                 \/ TreeOf(h)[gs[1].src] \cap TreeOf(h)[gs[1].dst] = {}
      <3>1. 1 \in DOMAIN gs /\ fs # <<>> /\ Len(gs) # 0
        BY <1>1, <2>2
      <3>2. \/ Len(fs) = 1 /\ fs[1].src = fs[1].dst
            \/ TreeOf(h)[fs[1].src] \cap TreeOf(h)[fs[1].dst] = {}
        BY <1>4, <3>1 DEF Apart
      <3>3. gs[1].src = fs[1].src /\ gs[1].dst = fs[1].dst
        BY <1>2, <3>1
      <3>4. Len(fs) = 1 => Len(gs) = 1
        BY <1>1, <3>1
      <3>. QED
        BY <3>2, <3>3, <3>4
    <2>. QED
      BY <2>1, <2>2 DEF Apart
  <1>. QED
    BY <1>3, <1>4

LEMMA TopIs ==
    ASSUME frames \in Seq(FrameType), frames # <<>>
    PROVE  /\ Len(frames) \in DOMAIN frames
           /\ 1 \in DOMAIN frames
           /\ DOMAIN frames = 1 .. Len(frames)
           /\ Len(frames) \in Nat \ {0}
           /\ \A i \in DOMAIN frames : frames[i] \in FrameType
           /\ Top = frames[Len(frames)]
  <1>1. DOMAIN frames = 1 .. Len(frames) /\ Len(frames) \in Nat \ {0}
    BY EmptySeq, LenProperties
  <1>2. \A i \in DOMAIN frames : frames[i] \in FrameType
    BY <1>1, ElementOfSeq
  <1>. QED
    BY <1>1, <1>2 DEF Top

LEMMA GotoKeeps ==
    ASSUME frames \in Seq(FrameType), frames # <<>>,
           NEW at \in {"num", "sub", "has", "subs", "rest"}
    PROVE  Fewer(frames, Goto(at)) /\ Len(Goto(at)) = Len(frames)
  <1> DEFINE n == Len(frames)
             g == Goto(at)
             e == [frames[n] EXCEPT !.at = at]
  <1>1. /\ n \in 1 .. n /\ n \in Nat /\ DOMAIN frames = 1 .. n
        /\ \A i \in 1 .. n : frames[i] \in FrameType
    BY TopIs
  <1>2. /\ e \in FrameType
        /\ e.dst = frames[n].dst /\ e.src = frames[n].src
    BY <1>1 DEF FrameType
  <1>3. g = [frames EXCEPT ![n] = e]
    BY DEF Goto
  <1> HIDE DEF e, g
  <1>4. /\ g \in [1 .. n -> FrameType]
        /\ g[n] = e
        /\ \A i \in 1 .. n : i # n => g[i] = frames[i]
    <2>1. frames \in [1 .. n -> FrameType]
      BY <1>1
    <2>. HIDE DEF n
    <2>. QED
      BY <1>1, <1>2, <1>3, <2>1
  <1>5. g \in Seq(FrameType) /\ Len(g) = n /\ DOMAIN g = 1 .. n
    BY <1>1, <1>4, ArrayIsSeq
  <1>6. \A i \in 1 .. n : g[i].dst = frames[i].dst /\ g[i].src = frames[i].src
    BY <1>2, <1>4
  <1>7. Fewer(frames, g)
    BY <1>1, <1>5, <1>6 DEF Fewer
  <1>. QED
    BY <1>5, <1>7 DEF g

LEMMA PopKeeps ==
    ASSUME frames \in Seq(FrameType), frames # <<>>
    PROVE  Fewer(frames, Pop)
  <1> DEFINE n == Len(frames)
  <1>1. /\ n \in Nat \ {0} /\ DOMAIN frames = 1 .. n
        /\ \A i \in 1 .. n : frames[i] \in FrameType
    BY TopIs
  <1>2. n - 1 \in Nat /\ \A i \in 1 .. n - 1 : i \in 1 .. n
    BY <1>1
  <1>3. /\ Pop \in Seq(FrameType)
        /\ Len(Pop) = IF 1 <= n - 1 THEN n - 1 - 1 + 1 ELSE 0
        /\ \A i \in 1 .. n - 1 - 1 + 1 : Pop[i] = frames[1 + i - 1]
    BY <1>1, <1>2, SubSeqProperties DEF Pop
  <1> HIDE DEF n
  <1>4. Len(Pop) = n - 1 /\ \A i \in 1 .. n - 1 : Pop[i] = frames[i]
    BY <1>1, <1>2, <1>3
  <1>5. DOMAIN Pop = 1 .. n - 1
    BY <1>3, <1>4, LenProperties
  <1>6. Len(Pop) <= n
    BY <1>1, <1>4
  <1>. QED
    BY <1>3, <1>4, <1>5, <1>6 DEF Fewer, n

\* The activations that AssignSubsInPlace adds assign to the elements of one
\* message.
LEMMA ElementsStacked ==
    ASSUME OwnInv, AssignSubsInPlace
    PROVE  OwnInv'
  <1> DEFINE n == Len(frames)
             p == Top.dst
             q == Top.src
             x == obj[p]
             y == obj[q]
             k == Min({Len(y.subs), Len(x.subs)})
             g == Goto("rest")
             e == [i \in 1 .. k |-> Frame(x.subs[k + 1 - i], y.subs[k + 1 - i])]
             fs == frames'
             T == TreeOf(obj)
  <1>1. /\ Shape(obj, live)
        /\ Stacked(obj, live, frames)
        /\ frames # <<>> /\ q \in live /\ q # p
        /\ fs = g \o e
        /\ obj' = obj /\ live' = live
    BY DEF OwnInv, AssignSubsInPlace, At, Dst, Src
  <1>2. /\ n \in Nat \ {0} /\ DOMAIN frames = 1 .. n
        /\ p = frames[n].dst /\ q = frames[n].src
        /\ n \in 1 .. n /\ 1 \in 1 .. n
    BY <1>1, TopIs DEF Stacked
  <1>3. /\ \A i \in 1 .. n :
            frames[i].dst \in live /\ frames[i].dst \in T[frames[1].dst]
        /\ \A i \in 1 .. n, j \in 1 .. n :
            i < j => frames[i].dst \notin T[frames[j].dst]
        /\ p \in live /\ p \in T[frames[1].dst]
    BY <1>1, <1>2 DEF Stacked
  <1>4. /\ Memory(obj) /\ live \subseteq DOMAIN obj
        /\ \A a \in live : Kids(obj[a]) \subseteq live
        /\ \A a \in live : \A c \in Kids(obj[a]) : a < c
        /\ DOMAIN obj \subseteq Nat
    <2>1. /\ Memory(obj) /\ live \subseteq DOMAIN obj
          /\ \A a \in live : Kids(obj[a]) \subseteq live
      BY <1>1 DEF Shape
    <2>2. \A a \in live : \A c \in Kids(obj[a]) : a < c
      BY <2>1, Zenon DEF Memory, Forward
    <2>3. obj \in Seq(Object)
      BY <2>1 DEF Memory
    <2>4. DOMAIN obj = 1 .. Len(obj) /\ Len(obj) \in Nat
      BY <2>3, LenProperties
    <2>5. DOMAIN obj \subseteq Nat
      BY <2>4
    <2>. QED
      BY <2>1, <2>2, <2>5
  <1>5. /\ x.subs \in Seq(Nat) /\ OneToOne(x.subs)
        /\ Range(x.subs) \subseteq Kids(x)
        /\ y.subs \in Seq(Nat)
        /\ Range(y.subs) \subseteq Kids(y)
    BY <1>1, <1>3, LiveMessage
  <1>6. /\ k \in Nat
        /\ \A i \in 1 .. k : k + 1 - i \in DOMAIN x.subs
        /\ \A i \in 1 .. k : k + 1 - i \in DOMAIN y.subs
    <2>1. /\ Len(x.subs) \in Nat /\ Len(y.subs) \in Nat
          /\ DOMAIN x.subs = 1 .. Len(x.subs)
          /\ DOMAIN y.subs = 1 .. Len(y.subs)
      BY <1>5, LenProperties
    <2>2. k \in Nat /\ k <= Len(y.subs) /\ k <= Len(x.subs)
      BY <2>1, LesserIs
    <2> HIDE DEF k
    <2>. QED
      BY <2>1, <2>2
  <1> HIDE DEF k
  <1>7. \A i \in 1 .. k : /\ x.subs[k + 1 - i] \in Kids(x)
                          /\ y.subs[k + 1 - i] \in Kids(y)
                          /\ x.subs[k + 1 - i] \in Nat
                          /\ y.subs[k + 1 - i] \in Nat
    BY <1>1, <1>3, <1>4, <1>5, <1>6 DEF Range
  <1>8. /\ e \in [1 .. k -> FrameType]
        /\ \A i \in 1 .. k : /\ e[i].dst = x.subs[k + 1 - i]
                             /\ e[i].src = y.subs[k + 1 - i]
    BY <1>7 DEF Frame, FrameType
  <1>9. e \in Seq(FrameType) /\ Len(e) = k
    BY <1>6, <1>8, ArrayIsSeq
  <1>10. \A i \in 1 .. k : e[i].dst \in Kids(x) /\ e[i].src \in Kids(y)
    BY <1>7, <1>8
  <1>11. \A i \in 1 .. k, j \in 1 .. k : i < j => e[i].dst # e[j].dst
    <2>1. ASSUME NEW i \in 1 .. k, NEW j \in 1 .. k, i < j
          PROVE  e[i].dst # e[j].dst
      <3>1. k + 1 - i # k + 1 - j
        BY <1>6, <2>1
      <3>2. k + 1 - i \in DOMAIN x.subs /\ k + 1 - j \in DOMAIN x.subs
        BY <1>6
      <3>3. x.subs[k + 1 - i] # x.subs[k + 1 - j]
        BY <1>5, <3>1, <3>2, Zenon DEF OneToOne
      <3>. QED
        BY <1>8, <3>3, Zenon
    <2>. QED
      BY <2>1
  <1> HIDE DEF e
  <1>12. /\ g \in Seq(FrameType) /\ Len(g) = n
         /\ \A i \in 1 .. n :
            g[i].dst = frames[i].dst /\ g[i].src = frames[i].src
    <2>1. Fewer(frames, g) /\ Len(g) = n
      BY <1>1, GotoKeeps DEF Stacked
    <2>2. g \in Seq(FrameType)
      BY <2>1 DEF Fewer
    <2>3. DOMAIN g = 1 .. n
      BY <2>1, <2>2, LenProperties
    <2>. QED
      BY <2>1, <2>2, <2>3 DEF Fewer
  <1> HIDE DEF g
  <1>13. /\ fs \in Seq(FrameType)
         /\ Len(fs) = n + k
         /\ \A i \in 1 .. n + k : fs[i] = IF i <= n THEN g[i] ELSE e[i - n]
    <2>1. /\ g \o e \in Seq(FrameType)
          /\ Len(g \o e) = Len(g) + Len(e)
          /\ \A i \in 1 .. Len(g) + Len(e) :
                (g \o e)[i] = IF i <= Len(g) THEN g[i] ELSE e[i - Len(g)]
      BY <1>9, <1>12, ConcatProperties, Zenon
    <2>2. Len(g) = n /\ Len(e) = k
      BY <1>9, <1>12
    <2>. QED
      BY <1>1, <2>1, <2>2
  <1>14. DOMAIN fs = 1 .. n + k
    BY <1>13, LenProperties
  <1> HIDE DEF fs, n, p, q
  <1>15. /\ \A i \in 1 .. n :
                fs[i].dst = frames[i].dst /\ fs[i].src = frames[i].src
         /\ \A i \in 1 .. n + k :
                \/ i \in 1 .. n
                \/ /\ i > n /\ i - n \in 1 .. k
                   /\ fs[i] = e[i - n]
    <2>1. \A i \in 1 .. n : i \in 1 .. n + k /\ fs[i] = g[i]
      BY <1>2, <1>6, <1>13
    <2>2. \A i \in 1 .. n + k : i \in 1 .. n \/ (i > n /\ i - n \in 1 .. k)
      BY <1>2, <1>6
    <2>3. \A i \in 1 .. n + k : i > n => fs[i] = e[i - n]
      BY <1>2, <1>6, <1>13
    <2>. QED
      BY <1>12, <2>1, <2>2, <2>3
  <1>16. /\ \A a \in live : Closed(obj, T[a]) /\ a \in T[a]
         /\ \A a \in live : \A b \in T[a] : a <= b /\ T[b] \subseteq T[a]
    BY <1>4, TreeProperties, TreeClosed
  <1>17. \A c \in Kids(x) :
            /\ c \in live /\ c \in T[p] /\ c \in T[frames[1].dst]
            /\ T[c] \subseteq T[p]
            /\ p \notin T[c]
    <2>1. ASSUME NEW c \in Kids(x)
          PROVE  /\ c \in live /\ c \in T[p] /\ c \in T[frames[1].dst]
                 /\ T[c] \subseteq T[p]
                 /\ p \notin T[c]
      <3>1. c \in live /\ p < c
        BY <1>3, <1>4
      <3>2. c \in T[p]
        BY <1>3, <1>16 DEF Closed
      <3>3. T[c] \subseteq T[p] /\ T[p] \subseteq T[frames[1].dst]
        BY <1>2, <1>3, <1>16, <3>2
      <3>4. p \notin T[c]
        <4>1. \A b \in T[c] : c <= b
          BY <1>16, <3>1
        <4>2. p \in Nat /\ c \in Nat
          BY <1>3, <1>4, <3>1
        <4>. QED
          BY <3>1, <4>1, <4>2
      <3>. QED
        BY <3>1, <3>2, <3>3, <3>4
    <2>. QED
      BY <2>1
  <1>18. Stacked(obj, live, fs)
    <2>1. ASSUME NEW i \in 1 .. n + k
          PROVE  fs[i].dst \in live /\ fs[i].dst \in T[fs[1].dst]
      <3>1. CASE i \in 1 .. n
        BY <1>2, <1>3, <1>15, <3>1
      <3>2. CASE i \notin 1 .. n
        <4>1. fs[i].dst \in Kids(x)
          BY <1>10, <1>15, <3>2
        <4>. QED
          BY <1>2, <1>15, <1>17, <4>1
      <3>. QED
        BY <3>1, <3>2
    <2>2. ASSUME NEW i \in 1 .. n + k, NEW j \in 1 .. n + k, i < j
          PROVE  fs[i].dst \notin T[fs[j].dst]
      <3>1. CASE i \in 1 .. n /\ j \in 1 .. n
        BY <1>3, <1>15, <2>2, <3>1
      <3>2. CASE i \in 1 .. n /\ j \notin 1 .. n
        <4>1. fs[j].dst \in Kids(x)
          BY <1>10, <1>15, <3>2
        <4>2. T[fs[j].dst] \subseteq T[p] /\ p \notin T[fs[j].dst]
          BY <1>17, <4>1
        <4>3. i = n \/ i < n
          BY <1>2, <3>2
        <4>. QED
          BY <1>2, <1>3, <1>15, <3>2, <4>2, <4>3
      <3>3. CASE i \notin 1 .. n /\ j \in 1 .. n
        BY <1>2, <2>2, <3>3
      <3>4. CASE i \notin 1 .. n /\ j \notin 1 .. n
        <4>1. /\ fs[i] = e[i - n] /\ fs[j] = e[j - n]
              /\ i - n \in 1 .. k /\ j - n \in 1 .. k /\ i - n < j - n
          BY <1>2, <1>15, <2>2, <3>4
        <4>2. /\ fs[i].dst \in Kids(x) /\ fs[j].dst \in Kids(x)
              /\ fs[i].dst # fs[j].dst
          BY <1>10, <1>11, <4>1
        <4>3. fs[j].dst \in live /\ p \notin T[fs[j].dst]
          BY <1>17, <4>2
        <4>. QED
          BY <1>1, <1>3, <4>2, <4>3, ParentInTree
      <3>. QED
        BY <3>1, <3>2, <3>3, <3>4
    <2>. QED
      BY <1>13, <1>14, <2>1, <2>2 DEF Stacked
  <1>19. ASSUME Apart(obj, live, frames)
         PROVE  Apart(obj, live, fs)
    <2>1. \A i \in 1 .. n :
            frames[i].src \in live /\ frames[i].src \in T[frames[1].src]
      BY <1>2, <1>19 DEF Apart
    <2>2. T[frames[1].src] \cap T[frames[1].dst] = {}
      BY <1>1, <1>2, <1>19 DEF Apart, n
    <2>3. ASSUME NEW i \in 1 .. n + k
          PROVE  fs[i].src \in live /\ fs[i].src \in T[fs[1].src]
      <3>1. CASE i \in 1 .. n
        BY <1>2, <1>15, <2>1, <3>1
      <3>2. CASE i \notin 1 .. n
        <4>1. fs[i].src \in Kids(y)
          BY <1>10, <1>15, <3>2
        <4>2. fs[i].src \in live
          BY <1>1, <1>4, <4>1
        <4>3. fs[i].src \in T[frames[1].src]
          BY <1>2, <1>16, <2>1, <4>1 DEF Closed
        <4>. QED
          BY <1>2, <1>15, <4>2, <4>3
      <3>. QED
        BY <3>1, <3>2
    <2>. QED
      BY <1>2, <1>14, <1>15, <2>2, <2>3 DEF Apart
  <1>. QED
    BY <1>1, <1>18, <1>19 DEF OwnInv, fs

LEMMA InitOwn == ASSUME Init PROVE OwnInv
  <1>1. /\ obj = [r \in 1 .. Declared |-> New]
        /\ live = 1 .. Declared /\ Roots = 1 .. Declared
        /\ frames = <<>>
    BY DEF Init, Roots
  <1>2. Declared \in Nat
    BY MessageObjectAssumption
  <1>3. New \in Object /\ Kids(New) = {} /\ Slots(New) = {}
    BY NewIsEmpty
  <1>4. obj \in [1 .. Declared -> Object]
    BY <1>1, <1>3
  <1>5. obj \in Seq(Object) /\ DOMAIN obj = 1 .. Declared
    BY <1>2, <1>4, ArrayIsSeq
  <1>6. \A a \in live : obj[a] = New
    BY <1>1
  <1>7. Memory(obj)
    BY <1>1, <1>3, <1>5, <1>6 DEF Memory, Forward
  <1>8. Unshared(obj, live)
    BY <1>3, <1>6 DEF Unshared
  <1>9. Shape(obj, live)
    BY <1>1, <1>3, <1>5, <1>6, <1>7, <1>8 DEF Shape
  <1>10. frames \in Seq(FrameType) /\ DOMAIN frames = {}
    BY <1>1
  <1>. QED
    BY <1>1, <1>9, <1>10 DEF OwnInv, Stacked, Apart

\* A call of the application, on the message at p.
LEMMA CallKeeps ==
    ASSUME OwnInv, frames = <<>>, frames' = <<>>,
           NEW p, NEW m, NEW new, NEW D, Acts(p, m, new, D)
    PROVE  OwnInv' /\ live \ live' \subseteq Gone(obj, D)
  <1>1. Shape(obj, live)
    BY DEF OwnInv
  <1>2. /\ Change(obj, live, p, m, new, D)
        /\ After(obj, p, m, new, D, obj')
        /\ live' = (live \ Gone(obj, D)) \cup Fresh(obj, new)
    BY <1>1, UpdatedIsAfter DEF Acts
  <1>3. Shape(obj', live')
    BY <1>1, <1>2, ChangeKeepsShape
  <1>4. frames' \in Seq(FrameType) /\ DOMAIN frames' = {}
    OBVIOUS
  <1>5. Stacked(obj', live', frames') /\ Apart(obj', live', frames')
    BY <1>4 DEF Stacked, Apart
  <1>. QED
    BY <1>2, <1>3, <1>5 DEF OwnInv

\* A step of the innermost activation.
LEMMA ActivationKeeps ==
    ASSUME OwnInv, frames # <<>>, Fewer(frames, frames'),
           NEW m, NEW new, NEW D, Acts(Top.dst, m, new, D)
    PROVE  OwnInv' /\ live \ live' \subseteq Endangered
  <1>1. /\ Shape(obj, live)
        /\ Stacked(obj, live, frames)
        /\ ~ Nested => Apart(obj, live, frames)
    BY DEF OwnInv
  <1>2. Acts(frames[Len(frames)].dst, m, new, D)
    BY DEF Top
  <1>3. /\ Shape(obj', live')
        /\ Stacked(obj', live', frames)
        /\ Apart(obj, live, frames) => Apart(obj', live', frames)
        /\ live \ live' \subseteq TreeOf(obj)[frames[1].dst] \ {frames[1].dst}
    BY <1>1, <1>2, StepKeepsStack
  <1>4. /\ Stacked(obj', live', frames')
        /\ Apart(obj', live', frames) => Apart(obj', live', frames')
    BY <1>3, FewerKeep
  <1>5. Endangered = TreeOf(obj)[frames[1].dst] \ {frames[1].dst}
    BY TreesAre DEF Endangered
  <1>. QED
    BY <1>1, <1>3, <1>4, <1>5 DEF OwnInv

\* A step that changes the activations only.
LEMMA ReturnKeeps ==
    ASSUME OwnInv, Fewer(frames, frames'), obj' = obj, live' = live
    PROVE  OwnInv'
  <1>1. /\ Stacked(obj, live, frames')
        /\ Apart(obj, live, frames) => Apart(obj, live, frames')
    BY FewerKeep DEF OwnInv
  <1>. QED
    BY <1>1 DEF OwnInv

LEMMA AssignKeeps ==
    ASSUME OwnInv, NEW p \in live, NEW q \in live, Assign(p, q)
    PROVE  OwnInv'
  <1>1. /\ Shape(obj, live)
        /\ frames' = <<Frame(p, q)>> /\ obj' = obj /\ live' = live
        /\ Nested \/ p = q \/ (q \notin Tree[p] /\ p \notin Tree[q])
    BY DEF OwnInv, Assign
  <1>2. p \in Nat /\ q \in Nat
    <2>1. live \subseteq DOMAIN obj /\ obj \in Seq(Object)
      BY <1>1 DEF Shape, Memory
    <2>. QED
      BY <2>1, LenProperties
  <1>3. /\ Frame(p, q) \in FrameType
        /\ Frame(p, q).dst = p /\ Frame(p, q).src = q
    BY <1>2 DEF Frame, FrameType
  <1>4. /\ frames' \in Seq(FrameType)
        /\ Len(frames') = 1 /\ DOMAIN frames' = {1}
        /\ frames'[1] = Frame(p, q)
    BY <1>1, <1>3
  <1>5. p \in TreeOf(obj)[p] /\ q \in TreeOf(obj)[q]
    BY <1>1, TreeProperties DEF Shape
  <1>6. Stacked(obj, live, frames')
    BY <1>3, <1>4, <1>5 DEF Stacked
  <1>7. ASSUME ~ Nested
        PROVE  Apart(obj, live, frames')
    <2>1. p = q \/ TreeOf(obj)[q] \cap TreeOf(obj)[p] = {}
      BY <1>1, <1>7, TreesAre, TreesApart
    <2>. QED
      BY <1>3, <1>4, <1>5, <2>1 DEF Apart
  <1>. QED
    BY <1>1, <1>6, <1>7 DEF OwnInv

\* What a call keeps, and what it destroys.
LEMMA CallsOwn ==
    ASSUME OwnInv, NEW p \in live,
           \/ Sub(p) \/ SetNum(p) \/ MutableSub(p) \/ ClearSub(p)
           \/ AddSubs(p) \/ AddSubsAndGrow(p) \/ ClearSubs(p)
    PROVE  OwnInv' /\ live \ live' \subseteq Endangered
  <1>1. Shape(obj, live)
    BY DEF OwnInv
  <1>2. frames = <<>> /\ frames' = <<>>
    BY DEF Sub, SetNum, MutableSub, ClearSub, AddSubs, AddSubsAndGrow,
           ClearSubs, Called, Callable
  <1>3. /\ InSub(p) = Gone(obj, {obj[p].sub} \ {0})
        /\ InSubs(p) = Gone(obj, Range(obj[p].subs))
        /\ Gone(obj, {}) = {}
    BY GoneTrees
  <1>4. CASE Sub(p)
    <2>1. PICK m, new : Acts(p, m, new, {})
      BY <1>1, <1>4, SubActs
    <2>. QED
      BY <1>2, <1>3, <2>1, CallKeeps
  <1>5. CASE SetNum(p)
    <2>1. PICK m, new : Acts(p, m, new, {})
      BY <1>1, <1>5, SetNumActs
    <2>. QED
      BY <1>2, <1>3, <2>1, CallKeeps
  <1>6. CASE MutableSub(p)
    <2>1. PICK m, new : Acts(p, m, new, {})
      BY <1>1, <1>6, MutableSubActs
    <2>. QED
      BY <1>2, <1>3, <2>1, CallKeeps
  <1>7. CASE ClearSub(p)
    <2>1. PICK m, new : Acts(p, m, new, {obj[p].sub} \ {0})
      BY <1>1, <1>7, ClearSubActs
    <2>2. last'.op = "clear_sub" /\ last'.on = p
      BY <1>7 DEF ClearSub, Called, Returned
    <2>3. Endangered = InSub(p)
      BY <1>2, <2>2 DEF Endangered
    <2>. QED
      BY <1>2, <1>3, <2>1, <2>3, CallKeeps
  <1>8. CASE AddSubs(p)
    <2>1. PICK m, new : Acts(p, m, new, {})
      BY <1>1, <1>8, AddSubsActs
    <2>. QED
      BY <1>2, <1>3, <2>1, CallKeeps
  <1>9. CASE AddSubsAndGrow(p)
    <2>1. PICK m, new : Acts(p, m, new, Range(obj[p].subs))
      BY <1>1, <1>9, AddSubsAndGrowActs
    <2>2. last'.op = "add_subs" /\ last'.on = p
      BY <1>9 DEF AddSubsAndGrow, Called, Returned
    <2>3. Endangered = InSubs(p)
      BY <1>2, <2>2 DEF Endangered
    <2>. QED
      BY <1>2, <1>3, <2>1, <2>3, CallKeeps
  <1>10. CASE ClearSubs(p)
    <2>1. PICK m, new : Acts(p, m, new, Range(obj[p].subs))
      BY <1>1, <1>10, ClearSubsActs
    <2>2. last'.op = "clear_subs" /\ last'.on = p
      BY <1>10 DEF ClearSubs, Called, Returned
    <2>3. Endangered = InSubs(p)
      BY <1>2, <2>2 DEF Endangered
    <2>. QED
      BY <1>2, <1>3, <2>1, <2>3, CallKeeps
  <1>. QED
    BY <1>4, <1>5, <1>6, <1>7, <1>8, <1>9, <1>10

\* The same of a step of operator=.
LEMMA StepsOwn ==
    ASSUME OwnInv,
           \/ AssignNum \/ AssignSub \/ AssignHas
           \/ AssignSubsToItself \/ AssignSubsAndGrow
           \/ AssignSubsInPlace \/ AssignRest
    PROVE  OwnInv' /\ live \ live' \subseteq Endangered
  <1>1. Shape(obj, live) /\ Stacked(obj, live, frames)
    BY DEF OwnInv
  <1>2. frames # <<>>
    BY DEF AssignNum, AssignSub, AssignHas, AssignSubsToItself,
           AssignSubsAndGrow, AssignSubsInPlace, AssignRest, At
  <1>3. frames \in Seq(FrameType)
    BY <1>1 DEF Stacked
  <1>4. Top.dst \in live
    <2>1. Len(frames) \in DOMAIN frames /\ Top = frames[Len(frames)]
      BY <1>2, <1>3, TopIs
    <2>. QED
      BY <1>1, <2>1 DEF Stacked
  <1>5. /\ Fewer(frames, Pop)
        /\ \A at \in {"sub", "has", "subs"} : Fewer(frames, Goto(at))
    BY <1>2, <1>3, PopKeeps, GotoKeeps
  <1>6. CASE AssignNum
    <2>1. PICK m, new, D : Acts(Top.dst, m, new, D)
      BY <1>1, <1>4, <1>6, AssignNumActs
    <2>2. Fewer(frames, frames')
      BY <1>5, <1>6 DEF AssignNum
    <2>. QED
      BY <1>2, <2>1, <2>2, ActivationKeeps
  <1>7. CASE AssignSub
    <2>1. PICK m, new, D : Acts(Top.dst, m, new, D)
      BY <1>1, <1>4, <1>7, AssignSubActs
    <2>2. Fewer(frames, frames')
      BY <1>5, <1>7 DEF AssignSub
    <2>. QED
      BY <1>2, <2>1, <2>2, ActivationKeeps
  <1>8. CASE AssignHas
    <2>1. PICK m, new, D : Acts(Top.dst, m, new, D)
      BY <1>1, <1>4, <1>8, AssignHasActs
    <2>2. Fewer(frames, frames')
      BY <1>5, <1>8 DEF AssignHas
    <2>. QED
      BY <1>2, <2>1, <2>2, ActivationKeeps
  <1>9. CASE AssignSubsToItself
    <2>1. Fewer(frames, frames') /\ obj' = obj /\ live' = live
      BY <1>5, <1>9 DEF AssignSubsToItself, ReturnFromAssign
    <2>. QED
      BY <2>1, ReturnKeeps
  <1>10. CASE AssignSubsAndGrow
    <2>1. PICK m, new, D : Acts(Top.dst, m, new, D)
      BY <1>1, <1>4, <1>10, AssignSubsAndGrowActs
    <2>2. Fewer(frames, frames')
      BY <1>5, <1>10 DEF AssignSubsAndGrow, ReturnFromAssign
    <2>. QED
      BY <1>2, <2>1, <2>2, ActivationKeeps
  <1>11. CASE AssignSubsInPlace
    <2>1. live' = live
      BY <1>11 DEF AssignSubsInPlace
    <2>. QED
      BY <1>11, <2>1, ElementsStacked
  <1>12. CASE AssignRest
    <2>1. PICK m, new, D : Acts(Top.dst, m, new, D)
      BY <1>1, <1>4, <1>12, AssignRestActs
    <2>2. Fewer(frames, frames')
      BY <1>5, <1>12 DEF AssignRest, ReturnFromAssign
    <2>. QED
      BY <1>2, <2>1, <2>2, ActivationKeeps
  <1>. QED
    BY <1>6, <1>7, <1>8, <1>9, <1>10, <1>11, <1>12

LEMMA NextOwn ==
    ASSUME OwnInv, [Next]_vars
    PROVE  OwnInv' /\ live \ live' \subseteq Endangered
  <1>1. CASE \E p \in live : Sub(p)
    BY <1>1, CallsOwn
  <1>2. CASE \E p \in live \ Constant :
                \/ SetNum(p) \/ MutableSub(p) \/ ClearSub(p)
                \/ AddSubs(p) \/ AddSubsAndGrow(p) \/ ClearSubs(p)
    BY <1>2, CallsOwn
  <1>3. CASE \E p \in live \ Constant, q \in live : Assign(p, q)
    <2>1. PICK p \in live, q \in live : Assign(p, q)
      BY <1>3
    <2>2. live' = live
      BY <2>1 DEF Assign
    <2>. QED
      BY <2>1, <2>2, AssignKeeps
  <1>4. CASE \/ AssignNum \/ AssignSub \/ AssignHas
             \/ AssignSubsToItself \/ AssignSubsAndGrow
             \/ AssignSubsInPlace \/ AssignRest
    BY <1>4, StepsOwn
  <1>5. CASE UNCHANGED vars
    <2>1. obj' = obj /\ live' = live /\ frames' = frames
      BY <1>5 DEF vars
    <2>. QED
      BY <2>1 DEF OwnInv
  <1>. QED
    BY <1>1, <1>2, <1>3, <1>4, <1>5 DEF Next

-----------------------------------------------------------------------------
(* The theorems. *)

\* Always: the objects are trees, whatever was called.
LEMMA AlwaysOwn == Spec => []OwnInv
  <1>1. Init => OwnInv
    BY InitOwn
  <1>2. OwnInv /\ [Next]_vars => OwnInv'
    BY NextOwn
  <1>. QED
    BY <1>1, <1>2, PTL DEF Spec

\* Between its messages, and while it assigns one: every object but those that
\* the application declared is held by one pointer of one live object.
LEMMA ShapeOwns ==
    ASSUME Shape(obj, live), NEW a \in live
    PROVE  /\ Children(a) \subseteq live \ Roots
           /\ a \in Roots \/ \E p \in live :
                /\ {q \in live : a \in Children(q)} = {p}
                /\ Cardinality({i \in DOMAIN obj[p].subs : obj[p].subs[i] = a})
                   + (IF obj[p].sub = a THEN 1 ELSE 0) = 1
  <1>1. \A q : Children(q) = Kids(obj[q])
    BY TreesAre
  <1>2. Children(a) \subseteq live \ Roots
    BY <1>1 DEF Shape
  <1>3. ASSUME a \notin Roots
        PROVE  \E p \in live :
                /\ {q \in live : a \in Children(q)} = {p}
                /\ Cardinality({i \in DOMAIN obj[p].subs : obj[p].subs[i] = a})
                   + (IF obj[p].sub = a THEN 1 ELSE 0) = 1
    <2>1. PICK p \in live : a \in Kids(obj[p])
      BY <1>3 DEF Shape
    <2>2. {q \in live : a \in Children(q)} = {p}
      BY <1>1, <2>1, OneParent
    <2> DEFINE I == {i \in DOMAIN obj[p].subs : obj[p].subs[i] = a}
    <2>3. /\ OneToOne(obj[p].subs)
          /\ obj[p] \in Object /\ Distinct(obj[p])
      BY LiveMessage
    <2>4. obj[p].sub # 0 => obj[p].sub \notin Range(obj[p].subs)
      BY <2>3, DistinctIs
    <2>5. a # 0
      <3>1. obj \in Seq(Object) /\ a \in DOMAIN obj
        BY DEF Shape, Memory
      <3>. QED
        BY <3>1, LenProperties
    <2>6. ASSUME obj[p].sub = a
          PROVE  Cardinality(I) + (IF obj[p].sub = a THEN 1 ELSE 0) = 1
      <3>1. I = {}
        BY <2>4, <2>5, <2>6 DEF Range
      <3>2. Cardinality(I) = 0
        BY <3>1, FS_EmptySet
      <3>. QED
        BY <2>6, <3>2
    <2>7. ASSUME obj[p].sub # a
          PROVE  Cardinality(I) + (IF obj[p].sub = a THEN 1 ELSE 0) = 1
      <3>1. a \in Range(obj[p].subs)
        BY <2>1, <2>7 DEF Kids
      <3>2. PICK i \in DOMAIN obj[p].subs : obj[p].subs[i] = a
        BY <3>1 DEF Range
      <3>3. I = {i}
        BY <2>3, <3>2 DEF OneToOne
      <3>4. Cardinality(I) = 1
        BY <3>3, FS_Singleton
      <3>. QED
        BY <2>7, <3>4
    <2>8. Cardinality(I) + (IF obj[p].sub = a THEN 1 ELSE 0) = 1
      BY <2>6, <2>7
    <2>. QED
      BY <2>2, <2>8, Zenon
  <1>. QED
    BY <1>2, <1>3

\* Whatever was called, and also when a message was assigned one inside or
\* around it: between calls, every object but the declared ones has one owner,
\* which holds it in one place (the std::shared_ptr of SubMessagePtr, and the
\* std::vector of a repeated field).
THEOREM OneOwner == Spec => []OwnedOnce
  <1>1. OwnInv => OwnedOnce
    BY ShapeOwns DEF OwnInv, OwnedOnce
  <1>. QED
    BY <1>1, AlwaysOwn, PTL

\* A call destroys nothing but what it clears, moves or assigns to: pointers to
\* all other objects stay valid.
THEOREM OnlyEndangeredDie == Spec => PointersSurvive
  <1>1. OwnInv /\ [Next]_vars => [live \ live' \subseteq Endangered]_vars
    BY NextOwn
  <1>. QED
    BY <1>1, AlwaysOwn, PTL DEF Spec, PointersSurvive

\* Unless a message is assigned one inside or around it, an assignment reads
\* live objects only.
THEOREM AssignmentReadsLive ==
    ASSUME ~ Nested
    PROVE  Spec => []NeverReadsDestroyed
  <1>1. ASSUME OwnInv
        PROVE  NeverReadsDestroyed
    <2>1. /\ Shape(obj, live)
          /\ Stacked(obj, live, frames)
          /\ Apart(obj, live, frames)
      BY <1>1 DEF OwnInv
    <2>2. ASSUME frames # <<>>
          PROVE  Tree[Top.src] \subseteq live
      <3>1. Len(frames) \in DOMAIN frames /\ Top = frames[Len(frames)]
        BY <2>1, <2>2, TopIs DEF Stacked
      <3>2. Top.src \in live
        BY <2>1, <3>1 DEF Apart
      <3>. QED
        BY <2>1, <3>2, TreesAre, TreeIsLive
    <2>. QED
      BY <2>2 DEF NeverReadsDestroyed
  <1>2. Spec => []OwnInv
    BY AlwaysOwn
  <1>3. OwnInv => NeverReadsDestroyed
    BY <1>1
  <1>. QED
    BY <1>2, <1>3, PTL

=============================================================================
