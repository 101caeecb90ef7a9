-------------------------- MODULE RoundTripProofs --------------------------
(***************************************************************************)
(* DecodeMessage fills in what Encode wrote.  The inductive invariant,     *)
(* Mirrors (defined in CodecProofs), says which of the writer's messages   *)
(* every message object of the reader is made of, how many elements of     *)
(* each field it holds, and that the bytes before the end of each          *)
(* activation of DecodeMessage are those of the elements to come.          *)
(* Referring says which objects may still be incomplete.                   *)
(***************************************************************************)
EXTENDS CodecProofs

-----------------------------------------------------------------------------
(* The decoder is in the innermost activation.                             *)

\* The bytes to come of its message.
Win(h, st, c) == Window(BodyOf(h), c, EndOf(h, st))

Static(h, hp, st, c, who, got) ==
    /\ Objects(h, hp, who, got)
    /\ Finished(h, hp, st, who, got)
    /\ Activations(h, hp, st, who, got, c)

But(st, lbl, fd) == IF lbl = "string" THEN <<TopOf(st), fd.num>> ELSE Nowhere

Here(h, hp, st, c, lbl, call, fd, who, got) ==
    Cursor(h, hp, TopOf(st), who[TopOf(st)], got[TopOf(st)], Win(h, st, c),
           Len(st) # 1, lbl, call, fd)

Going(h, hp, st, c, lbl, call, fd, who, got) ==
    /\ lbl # "done"
    /\ Static(h, hp, st, c, who, got)
    /\ FieldsOK(h, hp, who, got, But(st, lbl, fd))
    /\ Here(h, hp, st, c, lbl, call, fd, who, got)

Gone(h, hp, st, lbl, res, who, got) ==
    /\ Objects(h, hp, who, got)
    /\ Finished(h, hp, st, who, got)
    /\ Returned(h, hp, st, lbl, res, who, got)

LEMMA FollowsIs ==
    ASSUME NEW h, NEW hp, NEW st, NEW c, NEW lbl, NEW call, NEW fd, NEW res,
           NEW who, NEW got
    PROVE  Follows(h, hp, st, c, lbl, call, fd, res, who, got) <=>
                \/ Going(h, hp, st, c, lbl, call, fd, who, got)
                \/ Gone(h, hp, st, lbl, res, who, got)
  BY Zenon DEF Follows, Running, Going, Gone, Static, Here, But, Win, TopOf,
               EndOf, BodyOf

\* Where the innermost activation is in its message.
Place(h, hp, st, c, who, got) ==
    /\ TopOf(st) \in DOMAIN hp
    /\ who[TopOf(st)] \in DOMAIN h
    /\ got[TopOf(st)] \in Counts(h, who[TopOf(st)])
    /\ Ordered(BodyOf(h), c, EndOf(h, st))
    /\ BodyOf(h) \in Seq(Byte)
    /\ Len(st) \in Nat \ {0}
    /\ OnStack(st, TopOf(st))
    /\ hp[TopOf(st)].type = h[who[TopOf(st)]].type
    /\ hp[TopOf(st)].type \in DOMAIN ReaderSchema

LEMMA PlaceOf ==
    ASSUME NEW h, Enc!SizableMessages(h), NEW hp, NEW st, NEW c, NEW who, NEW got,
           Static(h, hp, st, c, who, got)
    PROVE  Place(h, hp, st, c, who, got)
  <1>0. Activations(h, hp, st, who, got, c) /\ Objects(h, hp, who, got)
    BY Zenon DEF Static
  <1>1. /\ IsSeq(st) /\ st # <<>>
        /\ st[1].msg = 1 /\ st[1].start = 0 /\ st[1].size = SIZE_MAX
        /\ c \in Nat /\ c <= EndOf(h, st)
        /\ \A a \in DOMAIN st : st[a].msg \in DOMAIN hp
        /\ Len(st) \in Nat \ {0} /\ DOMAIN st = 1 .. Len(st)
        /\ Len(st) \in DOMAIN st
        /\ EndOf(h, st) \in Nat /\ EndOf(h, st) <= Len(BodyOf(h))
    BY <1>0, ActivationsAre
  <1>2. TopOf(st) \in DOMAIN hp /\ OnStack(st, TopOf(st))
    BY <1>1, Zenon DEF TopOf, OnStack
  <1> DEFINE n == TopOf(st)
  <1> HIDE DEF n
  <1>3. n \in DOMAIN hp
    BY <1>2, Zenon DEF n
  <1>4. /\ who[n] \in DOMAIN h
        /\ got[n] \in Counts(h, who[n])
        /\ hp[n].type = h[who[n]].type
        /\ hp[n].type \in DOMAIN ReaderSchema
    BY <1>0, <1>3, ObjectsAre
  <1>5. Ordered(BodyOf(h), c, EndOf(h, st))
    BY <1>1, Zenon DEF Ordered
  <1>6. BodyOf(h) \in Seq(Byte)
    BY BodyOfTyped
  <1>. QED
    BY <1>1, <1>2, <1>4, <1>5, <1>6, Zenon DEF n, Place

\* Bytes are read, and the object on top of the stack changes.
LEMMA StaticMoves ==
    ASSUME NEW h, Enc!SizableMessages(h), NEW hp, NEW st, NEW c, NEW who, NEW got,
           Static(h, hp, st, c, who, got),
           NEW cq \in Nat, c <= cq, cq <= EndOf(h, st),
           NEW hq, DOMAIN hq = DOMAIN hp, NEW gq, Objects(h, hq, who, gq),
           \A n \in DOMAIN hp : n # TopOf(st) => gq[n] = got[n]
    PROVE  Static(h, hq, st, cq, who, gq)
  <1>1. Activations(h, hp, st, who, got, c) /\ Finished(h, hp, st, who, got)
    BY Zenon DEF Static
  <1>2. \A n \in DOMAIN hp :
                n # TopOf(st) => who[n] = who[n] /\ gq[n] = got[n]
    BY Zenon
  <1>3. DOMAIN hp \subseteq DOMAIN hq
    BY Zenon
  <1>4. Activations(h, hq, st, who, gq, cq)
    BY <1>1, <1>2, <1>3, ActivationsMove
  <1>5. OnStack(st, TopOf(st))
    BY PlaceOf, Zenon DEF Place
  <1>6. Finished(h, hq, st, who, gq)
    BY <1>1, <1>5, Zenon DEF Finished
  <1>. QED
    BY <1>4, <1>6, Zenon DEF Static

\* Nothing but the position changes.
LEMMA StaticReads ==
    ASSUME NEW h, Enc!SizableMessages(h), NEW hp, NEW st, NEW c, NEW who, NEW got,
           Static(h, hp, st, c, who, got), c + 1 <= EndOf(h, st)
    PROVE  Static(h, hp, st, c + 1, who, got)
  <1>1. c \in Nat
    BY PlaceOf, Zenon DEF Place, Ordered
  <1>2. c + 1 \in Nat /\ c <= c + 1
    BY <1>1
  <1>3. Objects(h, hp, who, got)
    BY Zenon DEF Static
  <1>4. \A n \in DOMAIN hp : n # TopOf(st) => got[n] = got[n]
    OBVIOUS
  <1>. QED
    BY <1>2, <1>3, <1>4, StaticMoves

-----------------------------------------------------------------------------
(* The decoder reads a byte of a number or of a payload.                   *)

NumberLabels == {"skip", "skiplen", "value", "len"}

\* What the label lbl says about the field i of which a number is read.
About(h, hp, n, m, i, lbl, fd) ==
    /\ lbl \in {"skip", "skiplen"} => IsUnknown(h, hp, n, m, i)
    /\ lbl = "skip" => FieldOf(h, m, i).type \notin LenTypes
    /\ lbl = "skiplen" => FieldOf(h, m, i).type \in LenTypes
    /\ lbl \in {"value", "len"} => IsField(h, hp, n, m, i, fd)
    /\ lbl = "value" => fd.type \notin LenTypes
    /\ lbl = "len" => fd.type \in LenTypes

NumberAt(h, hp, n, m, d, win, lbl, call, fd) ==
    \E i \in FieldsOf(h, m) :
        AtNumber(h, m, d, i, win, call) /\ About(h, hp, n, m, i, lbl, fd)

LEMMA CursorsAre ==
    ASSUME NEW h, NEW hp, NEW n, NEW m, NEW d, NEW win, NEW deep, NEW call, NEW fd
    PROVE  /\ Cursor(h, hp, n, m, d, win, deep, "loop", call, fd)
                <=> win = Rest(h, m, d)
           /\ Cursor(h, hp, n, m, d, win, deep, "tag", call, fd) <=>
                /\ win = Rest(h, m, d)
                /\ call = NewVarint
                /\ deep => win # <<>>
           /\ Cursor(h, hp, n, m, d, win, deep, "skip", call, fd) <=>
                \E i \in FieldsOf(h, m) :
                    /\ AtNumber(h, m, d, i, win, call)
                    /\ IsUnknown(h, hp, n, m, i)
                    /\ FieldOf(h, m, i).type \notin LenTypes
           /\ Cursor(h, hp, n, m, d, win, deep, "skiplen", call, fd) <=>
                \E i \in FieldsOf(h, m) :
                    /\ AtNumber(h, m, d, i, win, call)
                    /\ IsUnknown(h, hp, n, m, i)
                    /\ FieldOf(h, m, i).type \in LenTypes
           /\ Cursor(h, hp, n, m, d, win, deep, "value", call, fd) <=>
                \E i \in FieldsOf(h, m) :
                    /\ AtNumber(h, m, d, i, win, call)
                    /\ IsField(h, hp, n, m, i, fd)
                    /\ fd.type \notin LenTypes
           /\ Cursor(h, hp, n, m, d, win, deep, "len", call, fd) <=>
                \E i \in FieldsOf(h, m) :
                    /\ AtNumber(h, m, d, i, win, call)
                    /\ IsField(h, hp, n, m, i, fd)
                    /\ fd.type \in LenTypes
           /\ Cursor(h, hp, n, m, d, win, deep, "skipbytes", call, fd) <=>
                \E i \in FieldsOf(h, m) : \E q :
                    /\ AtPayload(h, m, d, i, win, call, q)
                    /\ IsUnknown(h, hp, n, m, i)
           /\ Cursor(h, hp, n, m, d, win, deep, "string", call, fd) <=>
                \E i \in FieldsOf(h, m) : \E q :
                    /\ AtPayload(h, m, d, i, win, call, q)
                    /\ IsField(h, hp, n, m, i, fd)
                    /\ fd.type = "string"
                    /\ Begun(fd, Elems(h, m, i), d[i] + 1, hp[n].val[fd.num], q)
  <1>1. Cursor(h, hp, n, m, d, win, deep, "loop", call, fd)
                <=> win = Rest(h, m, d)
    BY SMT DEF Cursor
  <1>2. Cursor(h, hp, n, m, d, win, deep, "tag", call, fd) <=>
                /\ win = Rest(h, m, d)
                /\ call = NewVarint
                /\ deep => win # <<>>
    BY SMT DEF Cursor
  <1>3. Cursor(h, hp, n, m, d, win, deep, "skip", call, fd) <=>
                \E i \in FieldsOf(h, m) :
                    /\ AtNumber(h, m, d, i, win, call)
                    /\ IsUnknown(h, hp, n, m, i)
                    /\ FieldOf(h, m, i).type \notin LenTypes
    BY SMT DEF Cursor
  <1>4. Cursor(h, hp, n, m, d, win, deep, "skiplen", call, fd) <=>
                \E i \in FieldsOf(h, m) :
                    /\ AtNumber(h, m, d, i, win, call)
                    /\ IsUnknown(h, hp, n, m, i)
                    /\ FieldOf(h, m, i).type \in LenTypes
    BY SMT DEF Cursor
  <1>5. Cursor(h, hp, n, m, d, win, deep, "value", call, fd) <=>
                \E i \in FieldsOf(h, m) :
                    /\ AtNumber(h, m, d, i, win, call)
                    /\ IsField(h, hp, n, m, i, fd)
                    /\ fd.type \notin LenTypes
    BY SMT DEF Cursor
  <1>6. Cursor(h, hp, n, m, d, win, deep, "len", call, fd) <=>
                \E i \in FieldsOf(h, m) :
                    /\ AtNumber(h, m, d, i, win, call)
                    /\ IsField(h, hp, n, m, i, fd)
                    /\ fd.type \in LenTypes
    BY SMT DEF Cursor
  <1>7. Cursor(h, hp, n, m, d, win, deep, "skipbytes", call, fd) <=>
                \E i \in FieldsOf(h, m) : \E q :
                    /\ AtPayload(h, m, d, i, win, call, q)
                    /\ IsUnknown(h, hp, n, m, i)
    BY SMT DEF Cursor
  <1>8. Cursor(h, hp, n, m, d, win, deep, "string", call, fd) <=>
                \E i \in FieldsOf(h, m) : \E q :
                    /\ AtPayload(h, m, d, i, win, call, q)
                    /\ IsField(h, hp, n, m, i, fd)
                    /\ fd.type = "string"
                    /\ Begun(fd, Elems(h, m, i), d[i] + 1, hp[n].val[fd.num], q)
    BY SMT DEF Cursor
  <1>. QED
    BY <1>1, <1>2, <1>3, <1>4, <1>5, <1>6, <1>7, <1>8, Zenon

LEMMA NumberCursor ==
    ASSUME NEW h, NEW hp, NEW n, NEW m, NEW d, NEW win, NEW deep, NEW call, NEW fd,
           NEW lbl \in NumberLabels
    PROVE  Cursor(h, hp, n, m, d, win, deep, lbl, call, fd) <=>
                NumberAt(h, hp, n, m, d, win, lbl, call, fd)
  <1>1. CASE lbl = "skip"
    <2>1. \A i : About(h, hp, n, m, i, "skip", fd) <=>
                    /\ IsUnknown(h, hp, n, m, i)
                    /\ FieldOf(h, m, i).type \notin LenTypes
      BY DEF About
    <2>2. Cursor(h, hp, n, m, d, win, deep, "skip", call, fd) <=>
                \E i \in FieldsOf(h, m) :
                    /\ AtNumber(h, m, d, i, win, call)
                    /\ IsUnknown(h, hp, n, m, i)
                    /\ FieldOf(h, m, i).type \notin LenTypes
      BY CursorsAre
    <2>3. Cursor(h, hp, n, m, d, win, deep, "skip", call, fd) <=>
                NumberAt(h, hp, n, m, d, win, "skip", call, fd)
      BY <2>1, <2>2, Zenon DEF NumberAt
    <2>. QED
      BY <1>1, <2>3, Zenon
  <1>2. CASE lbl = "skiplen"
    <2>1. \A i : About(h, hp, n, m, i, "skiplen", fd) <=>
                    /\ IsUnknown(h, hp, n, m, i)
                    /\ FieldOf(h, m, i).type \in LenTypes
      BY DEF About
    <2>2. Cursor(h, hp, n, m, d, win, deep, "skiplen", call, fd) <=>
                \E i \in FieldsOf(h, m) :
                    /\ AtNumber(h, m, d, i, win, call)
                    /\ IsUnknown(h, hp, n, m, i)
                    /\ FieldOf(h, m, i).type \in LenTypes
      BY CursorsAre
    <2>3. Cursor(h, hp, n, m, d, win, deep, "skiplen", call, fd) <=>
                NumberAt(h, hp, n, m, d, win, "skiplen", call, fd)
      BY <2>1, <2>2, Zenon DEF NumberAt
    <2>. QED
      BY <1>2, <2>3, Zenon
  <1>3. CASE lbl = "value"
    <2>1. \A i : About(h, hp, n, m, i, "value", fd) <=>
                    /\ IsField(h, hp, n, m, i, fd)
                    /\ fd.type \notin LenTypes
      BY DEF About
    <2>2. Cursor(h, hp, n, m, d, win, deep, "value", call, fd) <=>
                \E i \in FieldsOf(h, m) :
                    /\ AtNumber(h, m, d, i, win, call)
                    /\ IsField(h, hp, n, m, i, fd)
                    /\ fd.type \notin LenTypes
      BY CursorsAre
    <2>3. Cursor(h, hp, n, m, d, win, deep, "value", call, fd) <=>
                NumberAt(h, hp, n, m, d, win, "value", call, fd)
      BY <2>1, <2>2, Zenon DEF NumberAt
    <2>. QED
      BY <1>3, <2>3, Zenon
  <1>4. CASE lbl = "len"
    <2>1. \A i : About(h, hp, n, m, i, "len", fd) <=>
                    /\ IsField(h, hp, n, m, i, fd)
                    /\ fd.type \in LenTypes
      BY DEF About
    <2>2. Cursor(h, hp, n, m, d, win, deep, "len", call, fd) <=>
                \E i \in FieldsOf(h, m) :
                    /\ AtNumber(h, m, d, i, win, call)
                    /\ IsField(h, hp, n, m, i, fd)
                    /\ fd.type \in LenTypes
      BY CursorsAre
    <2>3. Cursor(h, hp, n, m, d, win, deep, "len", call, fd) <=>
                NumberAt(h, hp, n, m, d, win, "len", call, fd)
      BY <2>1, <2>2, Zenon DEF NumberAt
    <2>. QED
      BY <1>4, <2>3, Zenon
  <1>. QED
    BY <1>1, <1>2, <1>3, <1>4 DEF NumberLabels

\* A number has been read: its element is known, and the bytes that follow.
NumberCame(h, hp, st, c, lbl, fd, w, who, got) ==
    \E i \in FieldsOf(h, who[TopOf(st)]) :
        /\ NumberDone(h, who[TopOf(st)], got[TopOf(st)], i, Win(h, st, c), w)
        /\ About(h, hp, TopOf(st), who[TopOf(st)], i, lbl, fd)

\* What the byte b of a number leads to.
NumberStep(h, hp, st, c, lbl, call, fd, who, got, b) ==
    /\ b \in Byte
    /\ c + 1 <= EndOf(h, st)
    /\ ~ Overflows(call, b)
    /\ ~ Ends(call, b) =>
            Going(h, hp, st, c + 1, lbl, Feed(call, b), fd, who, got)
    /\ Ends(call, b) =>
            NumberCame(h, hp, st, c + 1, lbl, fd, Feed(call, b).acc, who, got)
    /\ Static(h, hp, st, c + 1, who, got)
    /\ FieldsOK(h, hp, who, got, Nowhere)

LEMMA NumberSteps ==
    ASSUME NEW h, Enc!SizableMessages(h), NEW hp, NEW st, NEW c,
           NEW lbl \in NumberLabels, NEW call, NEW fd, NEW who, NEW got,
           Going(h, hp, st, c, lbl, call, fd, who, got)
    PROVE  NumberStep(h, hp, st, c, lbl, call, fd, who, got, BodyOf(h)[c + 1])
  <1> DEFINE n == TopOf(st)
             m == who[n]
             d == got[n]
             s == BodyOf(h)
             e == EndOf(h, st)
             b == s[c + 1]
             deep == (Len(st) # 1)
  <1>1. /\ Static(h, hp, st, c, who, got)
        /\ FieldsOK(h, hp, who, got, But(st, lbl, fd))
        /\ Here(h, hp, st, c, lbl, call, fd, who, got)
    BY Zenon DEF Going
  <1>2. lbl # "string" /\ lbl # "done"
    BY DEF NumberLabels
  <1>3. FieldsOK(h, hp, who, got, Nowhere)
    BY <1>1, <1>2, Zenon DEF But
  <1>4. /\ n \in DOMAIN hp /\ m \in DOMAIN h
        /\ Ordered(s, c, e) /\ s \in Seq(Byte)
    BY <1>1, PlaceOf, Zenon DEF Place
  <1>5. Cursor(h, hp, n, m, d, Window(s, c, e), deep, lbl, call, fd)
    BY <1>1, Zenon DEF Here, Win
  <1> HIDE DEF n, m, d, s, e, b, deep
  <1>6. NumberAt(h, hp, n, m, d, Window(s, c, e), lbl, call, fd)
    BY <1>5, NumberCursor
  <1>7. PICK i \in FieldsOf(h, m) :
            /\ AtNumber(h, m, d, i, Window(s, c, e), call)
            /\ About(h, hp, n, m, i, lbl, fd)
    BY <1>6, Zenon DEF NumberAt
  <1>8. /\ c + 1 <= e
        /\ b \in Byte
        /\ NumberReads(h, m, d, i, Window(s, c + 1, e), call, b)
    BY <1>4, <1>7, NumberNext DEF b
  <1>9. Static(h, hp, st, c + 1, who, got)
    BY <1>1, <1>8, StaticReads, Zenon DEF e
  <1>10. ASSUME ~ Ends(call, b)
         PROVE  Going(h, hp, st, c + 1, lbl, Feed(call, b), fd, who, got)
    <2>1. AtNumber(h, m, d, i, Window(s, c + 1, e), Feed(call, b))
      BY <1>8, <1>10, Zenon DEF NumberReads
    <2>2. NumberAt(h, hp, n, m, d, Window(s, c + 1, e), lbl, Feed(call, b), fd)
      BY <1>7, <2>1, Zenon DEF NumberAt
    <2>3. Cursor(h, hp, n, m, d, Window(s, c + 1, e), deep, lbl, Feed(call, b), fd)
      BY <2>2, NumberCursor
    <2>4. Here(h, hp, st, c + 1, lbl, Feed(call, b), fd, who, got)
      BY <2>3, Zenon DEF Here, Win, n, m, d, s, e, deep
    <2>. QED
      BY <1>1, <1>2, <1>9, <2>4, Zenon DEF Going
  <1>11. ASSUME Ends(call, b)
         PROVE  NumberCame(h, hp, st, c + 1, lbl, fd, Feed(call, b).acc, who, got)
    <2>1. NumberDone(h, m, d, i, Window(s, c + 1, e), Feed(call, b).acc)
      BY <1>8, <1>11, Zenon DEF NumberReads
    <2>. QED
      BY <1>7, <2>1, Zenon DEF NumberCame, Win, n, m, d, s, e
  <1>12. ~ Overflows(call, b)
    BY <1>8, Zenon DEF NumberReads
  <1>13. NumberStep(h, hp, st, c, lbl, call, fd, who, got, b)
    BY <1>3, <1>8, <1>9, <1>10, <1>11, <1>12, Zenon DEF NumberStep, e
  <1>. QED
    BY <1>13, Zenon DEF b, s

-----------------------------------------------------------------------------
(* An element of a field has been read.                                    *)

\* The decoder is in the loop again.
LEMMA LoopAgain ==
    ASSUME NEW h, Enc!SizableMessages(h), NEW hp, NEW st, NEW c, NEW who, NEW got,
           Static(h, hp, st, c, who, got), NEW n, n = TopOf(st),
           NEW i \in FieldsOf(h, who[n]),
           got[n][i] + 1 <= Len(Elems(h, who[n], i)),
           NEW hq, StoredOK(h, hp, hq, who, got, n, i),
           Win(h, st, c) = Rest(h, who[n], Further(got[n], i)),
           NEW call, NEW fd
    PROVE  Going(h, hq, st, c, "loop", call, fd, who, Advance(got, n, i))
  <1> DEFINE gq == Advance(got, n, i)
             deep == (Len(st) # 1)
  <1>1. /\ n \in DOMAIN hp /\ c \in Nat /\ c <= EndOf(h, st)
    BY PlaceOf, Zenon DEF Place, Ordered
  <1>2. Objects(h, hp, who, got) /\ DOMAIN got = DOMAIN hp
    BY Zenon DEF Static, Objects
  <1>3. /\ gq[n] = Further(got[n], i)
        /\ \A j \in DOMAIN got : j # n => gq[j] = got[j]
    BY <1>1, <1>2, AdvanceIs
  <1> HIDE DEF gq, deep
  <1>4. /\ Objects(h, hq, who, gq)
        /\ FieldsOK(h, hq, who, gq, Nowhere)
        /\ DOMAIN hq = DOMAIN hp
    BY Zenon DEF StoredOK, gq
  <1>5. \A j \in DOMAIN hp : j # TopOf(st) => gq[j] = got[j]
    BY <1>2, <1>3, Zenon
  <1>6. c <= c
    BY <1>1
  <1>7. Static(h, hq, st, c, who, gq)
    BY <1>1, <1>4, <1>5, <1>6, StaticMoves
  <1>8. Win(h, st, c) = Rest(h, who[n], gq[n])
    BY <1>3, Zenon
  <1>9. Cursor(h, hq, n, who[n], gq[n], Win(h, st, c), deep, "loop", call, fd)
    BY <1>8, CursorsAre
  <1>10. Here(h, hq, st, c, "loop", call, fd, who, gq)
    BY <1>9, Zenon DEF Here, deep
  <1>11. FieldsOK(h, hq, who, gq, But(st, "loop", fd))
    BY <1>4, Zenon DEF But
  <1>12. Going(h, hq, st, c, "loop", call, fd, who, gq)
    BY <1>7, <1>10, <1>11, Zenon DEF Going
  <1>. QED
    BY <1>12, Zenon DEF gq

\* What is known when a number of the element has been read.
LEMMA NumberIsRead ==
    ASSUME NEW h, Enc!SizableMessages(h), NEW m \in DOMAIN h, NEW d, NEW i,
           NEW win, NEW w, NumberDone(h, m, d, i, win, w)
    PROVE  /\ i \in FieldsOf(h, m) /\ d[i] + 1 <= Len(Elems(h, m, i))
           /\ w \in 0 .. (U64 - 1)
           /\ Pay(h, m, i, d[i] + 1) \in Seq(Byte)
           /\ FieldOf(h, m, i).type \in LenTypes =>
                /\ w = Len(Pay(h, m, i, d[i] + 1)) /\ w < U32
                /\ w = 0 => Pay(h, m, i, d[i] + 1) = <<>>
           /\ FieldOf(h, m, i).type \notin LenTypes =>
                /\ Pay(h, m, i, d[i] + 1) = <<>>
                /\ Elems(h, m, i)[d[i] + 1] \in CppValues(FieldOf(h, m, i).type) =>
                    Convert(FieldOf(h, m, i).type, w) = Elems(h, m, i)[d[i] + 1]
           /\ win = Pay(h, m, i, d[i] + 1) \o Rest(h, m, Further(d, i))
           /\ Pay(h, m, i, d[i] + 1) = <<>> => win = Rest(h, m, Further(d, i))
  <1> DEFINE p == Pay(h, m, i, d[i] + 1)
             type == FieldOf(h, m, i).type
             y == Rest(h, m, Further(d, i))
             v == Elems(h, m, i)[d[i] + 1]
  <1>1. /\ i \in FieldsOf(h, m) /\ d[i] + 1 <= Len(Elems(h, m, i))
        /\ win = p \o y
        /\ Numbered(h, m, i, d[i] + 1, w)
    BY Zenon DEF NumberDone
  <1>2. /\ w \in 0 .. (U64 - 1)
        /\ p \in Seq(Byte)
        /\ type \in LenTypes => w = Len(p) /\ w < U32
        /\ type \notin LenTypes =>
            /\ p = <<>>
            /\ v \in CppValues(type) => Convert(type, w) = v
    BY <1>1, Zenon DEF Numbered
  <1>3. y \in Seq(Byte)
    BY RestTyped
  <1> HIDE DEF p, type, y, v
  <1>4. <<>> \o y = y
    BY <1>3, ConcatEmpty
  <1>5. p = <<>> => win = y
    BY <1>1, <1>4, Zenon
  <1>6. p \in Seq(Byte)
    BY <1>2, Zenon
  <1>7. Len(p) = 0 => p = <<>>
    BY <1>6, EmptySeq
  <1>. QED
    BY <1>1, <1>2, <1>5, <1>7, Zenon DEF p, type, y, v

LEMMA GoingMirrors ==
    ASSUME NEW h, NEW hp, NEW st, NEW c, NEW lbl, NEW call, NEW fd, NEW res,
           NEW who, NEW got, Going(h, hp, st, c, lbl, call, fd, who, got)
    PROVE  Mirror(h, hp, st, c, lbl, call, fd, res)
  <1>1. Follows(h, hp, st, c, lbl, call, fd, res, who, got)
    BY FollowsIs
  <1>. QED
    BY <1>1, Zenon DEF Mirror

LEMMA GoneMirrors ==
    ASSUME NEW h, NEW hp, NEW st, NEW c, NEW lbl, NEW call, NEW fd, NEW res,
           NEW who, NEW got, Gone(h, hp, st, lbl, res, who, got)
    PROVE  Mirror(h, hp, st, c, lbl, call, fd, res)
  <1>1. Follows(h, hp, st, c, lbl, call, fd, res, who, got)
    BY FollowsIs
  <1>. QED
    BY <1>1, Zenon DEF Mirror

\* The reader does not know the field.
LEMMA UnknownEnds ==
    ASSUME NEW h, Enc!SizableMessages(h), Readable(h), NEW hp, NEW st, NEW c,
           NEW who, NEW got, Static(h, hp, st, c, who, got),
           FieldsOK(h, hp, who, got, Nowhere), NEW n, n = TopOf(st),
           NEW i \in FieldsOf(h, who[n]),
           got[n][i] + 1 <= Len(Elems(h, who[n], i)),
           IsUnknown(h, hp, n, who[n], i),
           Win(h, st, c) = Rest(h, who[n], Further(got[n], i)),
           NEW call, NEW fd, NEW res
    PROVE  Mirror(h, hp, st, c, "loop", call, fd, res)
  <1>1. n \in DOMAIN hp
    BY PlaceOf, Zenon DEF Place
  <1>2. Objects(h, hp, who, got)
    BY Zenon DEF Static
  <1>3. StoredOK(h, hp, hp, who, got, n, i)
    BY <1>1, <1>2, UnknownAdvances
  <1>4. Going(h, hp, st, c, "loop", call, fd, who, Advance(got, n, i))
    BY <1>3, LoopAgain
  <1>. QED
    BY <1>4, GoingMirrors

LEMMA SkipEnds ==
    ASSUME NEW h, Enc!SizableMessages(h), Readable(h), NEW hp, NEW st, NEW c,
           NEW who, NEW got, Static(h, hp, st, c, who, got),
           FieldsOK(h, hp, who, got, Nowhere), NEW fd, NEW w,
           NumberCame(h, hp, st, c, "skip", fd, w, who, got),
           NEW call, NEW res
    PROVE  Mirror(h, hp, st, c, "loop", call, fd, res)
  <1> DEFINE n == TopOf(st)
             m == who[n]
             d == got[n]
  <1>1. PICK i \in FieldsOf(h, m) :
            /\ NumberDone(h, m, d, i, Win(h, st, c), w)
            /\ About(h, hp, n, m, i, "skip", fd)
    BY Zenon DEF NumberCame
  <1>2. m \in DOMAIN h /\ n = TopOf(st)
    BY PlaceOf, Zenon DEF Place
  <1>3. IsUnknown(h, hp, n, m, i) /\ FieldOf(h, m, i).type \notin LenTypes
    BY <1>1 DEF About
  <1> HIDE DEF n, m, d
  <1>4. /\ d[i] + 1 <= Len(Elems(h, m, i))
        /\ Win(h, st, c) = Rest(h, m, Further(d, i))
    BY <1>1, <1>2, <1>3, NumberIsRead, Zenon
  <1>5. IsUnknown(h, hp, n, who[n], i) /\ i \in FieldsOf(h, who[n])
        /\ Win(h, st, c) = Rest(h, who[n], Further(got[n], i))
        /\ got[n][i] + 1 <= Len(Elems(h, who[n], i))
    BY <1>3, <1>4, Zenon DEF m, d
  <1>. QED
    BY <1>2, <1>5, UnknownEnds

\* The length of an unknown string or sub-message has been read.
LEMMA SkipLenEnds ==
    ASSUME NEW h, Enc!SizableMessages(h), Readable(h), NEW hp, NEW st, NEW c,
           NEW who, NEW got, Static(h, hp, st, c, who, got),
           FieldsOK(h, hp, who, got, Nowhere), NEW fd, NEW w,
           NumberCame(h, hp, st, c, "skiplen", fd, w, who, got), NEW res
    PROVE  /\ w < U32
           /\ Mirror(h, hp, st, c, IF w = 0 THEN "loop" ELSE "skipbytes",
                     NewFixed(w), fd, res)
  <1> DEFINE n == TopOf(st)
             m == who[n]
             d == got[n]
             call == NewFixed(w)
  <1>1. PICK i \in FieldsOf(h, m) :
            /\ NumberDone(h, m, d, i, Win(h, st, c), w)
            /\ About(h, hp, n, m, i, "skiplen", fd)
    BY Zenon DEF NumberCame
  <1>2. m \in DOMAIN h /\ n = TopOf(st)
    BY PlaceOf, Zenon DEF Place
  <1>3. IsUnknown(h, hp, n, m, i) /\ FieldOf(h, m, i).type \in LenTypes
    BY <1>1 DEF About
  <1> DEFINE p == Pay(h, m, i, d[i] + 1)
  <1> HIDE DEF n, m, d
  <1>4. /\ d[i] + 1 <= Len(Elems(h, m, i))
        /\ p \in Seq(Byte)
        /\ w = Len(p) /\ w < U32
        /\ w = 0 => p = <<>>
        /\ Win(h, st, c) = p \o Rest(h, m, Further(d, i))
        /\ p = <<>> => Win(h, st, c) = Rest(h, m, Further(d, i))
    <2>1. /\ d[i] + 1 <= Len(Elems(h, m, i))
          /\ p \in Seq(Byte)
          /\ FieldOf(h, m, i).type \in LenTypes =>
                /\ w = Len(p) /\ w < U32
                /\ w = 0 => p = <<>>
          /\ Win(h, st, c) = p \o Rest(h, m, Further(d, i))
          /\ p = <<>> => Win(h, st, c) = Rest(h, m, Further(d, i))
      BY <1>1, <1>2, NumberIsRead
    <2>. QED
      BY <1>3, <2>1, Zenon
  <1> HIDE DEF p, call
  <1>5. CASE w = 0
    <2>1. IsUnknown(h, hp, n, who[n], i) /\ i \in FieldsOf(h, who[n])
          /\ Win(h, st, c) = Rest(h, who[n], Further(got[n], i))
          /\ got[n][i] + 1 <= Len(Elems(h, who[n], i))
      BY <1>3, <1>4, <1>5, Zenon DEF m, d
    <2>2. Mirror(h, hp, st, c, "loop", call, fd, res)
      BY <1>2, <2>1, UnknownEnds
    <2>. QED
      BY <1>4, <1>5, <2>2, Zenon DEF call
  <1>6. CASE w # 0
    <2>1. p # <<>>
      BY <1>4, <1>6, EmptySeq
    <2>2. AtPayload(h, m, d, i, Win(h, st, c), call, p)
      BY <1>4, <2>1, Zenon DEF AtPayload, call
    <2> DEFINE deep == (Len(st) # 1)
    <2> HIDE DEF deep
    <2>3. Cursor(h, hp, n, m, d, Win(h, st, c), deep, "skipbytes", call, fd)
      <3>1. \E j \in FieldsOf(h, m) : \E q :
                    /\ AtPayload(h, m, d, j, Win(h, st, c), call, q)
                    /\ IsUnknown(h, hp, n, m, j)
        BY <1>3, <2>2, Zenon
      <3>. QED
        BY <3>1, CursorsAre
    <2>4. Here(h, hp, st, c, "skipbytes", call, fd, who, got)
      BY <2>3, Zenon DEF Here, n, m, d, deep
    <2>5. FieldsOK(h, hp, who, got, But(st, "skipbytes", fd))
      BY Zenon DEF But
    <2>6. Going(h, hp, st, c, "skipbytes", call, fd, who, got)
      BY <2>4, <2>5, Zenon DEF Going
    <2>7. Mirror(h, hp, st, c, "skipbytes", call, fd, res)
      BY <2>6, GoingMirrors
    <2>. QED
      BY <1>4, <1>6, <2>7, Zenon DEF call
  <1>. QED
    BY <1>5, <1>6

\* What Store and PushBack change.
LEMMA StoreStores ==
    ASSUME NEW h, NEW hp, NEW who, NEW got, Objects(h, hp, who, got),
           NEW n \in DOMAIN hp, NEW g, g.num \in DOMAIN hp[n].val
    PROVE  /\ \A y : Stored(hp, Dec!Store(hp, n, g, y), n, g,
                            Dec!Added(g, hp[n].val[g.num], y))
           /\ \A b : Stored(hp, Dec!PushBack(hp, n, g, b), n, g,
                            Dec!Extended(g, hp[n].val[g.num], b))
  <1> DEFINE num == g.num
  <1>1. IsSeq(hp) /\ DOMAIN hp[n] = {"type", "val"} /\ num \in DOMAIN hp[n].val
    BY ObjectsAre
  <1> HIDE DEF num
  <1>2. ASSUME NEW v
        PROVE  /\ Changed(hp, Dec!Assign(hp, n, num, v), n, num)
               /\ Dec!Assign(hp, n, num, v)[n].val[num] = v
    BY <1>1, AssignChanges
  <1>3. \A v : Stored(hp, Dec!Assign(hp, n, num, v), n, g, v)
    BY <1>2, Zenon DEF Stored, num
  <1>4. ASSUME NEW y
        PROVE  Stored(hp, Dec!Store(hp, n, g, y), n, g,
                            Dec!Added(g, hp[n].val[g.num], y))
    <2>1. Dec!Store(hp, n, g, y) =
            Dec!Assign(hp, n, num, Dec!Added(g, hp[n].val[g.num], y))
      BY DEF Dec!Store, num
    <2>. QED
      BY <1>3, <2>1, Zenon
  <1>5. ASSUME NEW b
        PROVE  Stored(hp, Dec!PushBack(hp, n, g, b), n, g,
                            Dec!Extended(g, hp[n].val[g.num], b))
    <2>1. Dec!PushBack(hp, n, g, b) =
            Dec!Assign(hp, n, num, Dec!Extended(g, hp[n].val[g.num], b))
      BY DEF Dec!PushBack, num
    <2>. QED
      BY <1>3, <2>1, Zenon
  <1>. QED
    BY <1>4, <1>5

\* The element i of the message on top of the stack has been stored.
LEMMA StoreEnds ==
    ASSUME NEW h, Enc!SizableMessages(h), Readable(h), NEW hp, NEW st, NEW c,
           NEW who, NEW got, Static(h, hp, st, c, who, got),
           FieldsOK(h, hp, who, got, Nowhere), NEW n, n = TopOf(st),
           NEW i \in FieldsOf(h, who[n]),
           got[n][i] + 1 <= Len(Elems(h, who[n], i)),
           NEW g, IsField(h, hp, n, who[n], i, g), g.type # "message",
           Win(h, st, c) = Rest(h, who[n], Further(got[n], i)),
           NEW v, v = Elems(h, who[n], i)[got[n][i] + 1],
           NEW call, NEW fd, NEW res
    PROVE  Mirror(h, Dec!Store(hp, n, g, v), st, c, "loop", call, fd, res)
  <1>1. n \in DOMAIN hp
    BY PlaceOf, Zenon DEF Place
  <1>2. Objects(h, hp, who, got)
    BY Zenon DEF Static
  <1>3. g.num \in DOMAIN hp[n].val
    BY <1>1, <1>2, FieldMatches
  <1> DEFINE hq == Dec!Store(hp, n, g, v)
  <1>4. Stored(hp, hq, n, g, Dec!Added(g, hp[n].val[g.num], v))
    BY <1>1, <1>2, <1>3, StoreStores
  <1> HIDE DEF hq
  <1>5. Matches(g, hp, who, Elems(h, who[n], i)[got[n][i] + 1], v)
    BY Zenon DEF Matches
  <1>6. StoredOK(h, hp, hq, who, got, n, i)
    BY <1>1, <1>2, <1>4, <1>5, StoreAdvances
  <1>7. Going(h, hq, st, c, "loop", call, fd, who, Advance(got, n, i))
    BY <1>6, LoopAgain
  <1>8. Mirror(h, hq, st, c, "loop", call, fd, res)
    BY <1>7, GoingMirrors
  <1>. QED
    BY <1>8, Zenon DEF hq

LEMMA ValueEnds ==
    ASSUME NEW h, Enc!SizableMessages(h), Readable(h), NEW hp, NEW st, NEW c,
           NEW who, NEW got, Static(h, hp, st, c, who, got),
           FieldsOK(h, hp, who, got, Nowhere), NEW g, NEW w,
           NumberCame(h, hp, st, c, "value", g, w, who, got),
           NEW call, NEW fd, NEW res
    PROVE  Mirror(h, Dec!Store(hp, TopOf(st), g, Convert(g.type, w)), st, c,
                  "loop", call, fd, res)
  <1> DEFINE n == TopOf(st)
             m == who[n]
             d == got[n]
  <1>1. PICK i \in FieldsOf(h, m) :
            /\ NumberDone(h, m, d, i, Win(h, st, c), w)
            /\ About(h, hp, n, m, i, "value", g)
    BY Zenon DEF NumberCame
  <1>2. m \in DOMAIN h /\ n = TopOf(st) /\ n \in DOMAIN hp
    BY PlaceOf, Zenon DEF Place
  <1>3. IsField(h, hp, n, m, i, g) /\ g.type \notin LenTypes
    BY <1>1 DEF About
  <1>4. Objects(h, hp, who, got)
    BY Zenon DEF Static
  <1>0. m = who[n] /\ d = got[n]
    OBVIOUS
  <1> HIDE DEF n, m, d
  <1> DEFINE v == Elems(h, m, i)[d[i] + 1]
             f == FieldOf(h, m, i)
             win == Win(h, st, c)
             y == Rest(h, m, Further(d, i))
  <1>5. NumberDone(h, m, d, i, win, w)
    BY <1>1
  <1>6. /\ d[i] + 1 <= Len(Elems(h, m, i))
        /\ f.type \notin LenTypes =>
                /\ Pay(h, m, i, d[i] + 1) = <<>>
                /\ v \in CppValues(f.type) => Convert(f.type, w) = v
        /\ Pay(h, m, i, d[i] + 1) = <<>> => win = y
    <2> HIDE DEF win
    <2>. QED
      BY <1>2, <1>5, NumberIsRead
  <1> HIDE DEF v, f, win, y
  <1>7. /\ Fits(h, f, Elems(h, m, i), g)
        /\ g.type = f.type
    <2>1. /\ Fits(h, FieldOf(h, m, i), Elems(h, m, i), g)
          /\ g.type = FieldOf(h, m, i).type
      BY <1>0, <1>2, <1>3, <1>4, FieldAgrees
    <2>. QED
      BY <2>1, Zenon DEF f
  <1>8. d[i] + 1 \in DOMAIN Elems(h, m, i)
    <2>1. d \in Counts(h, m)
      BY <1>0, <1>2, <1>4, ObjectsAre, Zenon
    <2>2. i \in FieldsOf(h, m)
      BY <1>1
    <2>. QED
      BY <1>2, <1>6, <2>1, <2>2, CountOf
  <1>9. f.type \notin LenTypes
    BY <1>3, <1>7, Zenon
  <1>10. v \in CppValues(f.type)
    BY <1>7, <1>8, <1>9, Zenon DEF Fits, v
  <1>11. Convert(g.type, w) = v /\ win = y
    BY <1>6, <1>7, <1>9, <1>10, Zenon
  <1>12. g.type # "message"
    BY <1>3 DEF LenTypes
  <1> DEFINE u == Convert(g.type, w)
  <1> HIDE DEF u
  <1>13. /\ IsField(h, hp, n, who[n], i, g) /\ i \in FieldsOf(h, who[n])
         /\ got[n][i] + 1 <= Len(Elems(h, who[n], i))
         /\ Win(h, st, c) = Rest(h, who[n], Further(got[n], i))
         /\ u = Elems(h, who[n], i)[got[n][i] + 1]
    BY <1>0, <1>1, <1>3, <1>6, <1>11, Zenon DEF win, y, u, v
  <1>14. Mirror(h, Dec!Store(hp, n, g, u), st, c, "loop", call, fd, res)
    BY <1>2, <1>12, <1>13, StoreEnds
  <1>. QED
    BY <1>14, Zenon DEF u, n

-----------------------------------------------------------------------------
(* A string is read.                                                       *)

LEMMA StringStatic ==
    ASSUME NEW h, Enc!SizableMessages(h), NEW hp, NEW st, NEW c,
           NEW who, NEW got, Static(h, hp, st, c, who, got), NEW n,
           NEW i, NEW g, NEW hq, NEW q,
           StringOK(h, hp, hq, who, got, n, i, g, q), IsField(h, hp, n, who[n], i, g)
    PROVE  /\ Static(h, hq, st, c, who, got)
           /\ IsField(h, hq, n, who[n], i, g)
  <1>1. c \in Nat /\ c <= EndOf(h, st)
    BY PlaceOf, Zenon DEF Place, Ordered
  <1>2. c <= c
    BY <1>1
  <1>3. Objects(h, hq, who, got) /\ DOMAIN hq = DOMAIN hp
        /\ hq[n].type = hp[n].type
    BY Zenon DEF StringOK
  <1>4. \A j \in DOMAIN hp : j # TopOf(st) => got[j] = got[j]
    OBVIOUS
  <1>5. Static(h, hq, st, c, who, got)
    BY <1>1, <1>2, <1>3, <1>4, StaticMoves
  <1>6. IsField(h, hq, n, who[n], i, g)
    BY <1>3, Zenon DEF IsField
  <1>. QED
    BY <1>5, <1>6

LEMMA StringHere ==
    ASSUME NEW h, Enc!SizableMessages(h), NEW hp, NEW st, NEW c,
           NEW who, NEW got, Static(h, hp, st, c, who, got), NEW n, n = TopOf(st),
           NEW i \in FieldsOf(h, who[n]), NEW g, NEW hq, NEW q,
           StringOK(h, hp, hq, who, got, n, i, g, q),
           IsField(h, hp, n, who[n], i, g), g.type = "string", NEW call,
           AtPayload(h, who[n], got[n], i, Win(h, st, c), call, q), NEW res
    PROVE  Mirror(h, hq, st, c, "string", call, g, res)
  <1>1. /\ Static(h, hq, st, c, who, got)
        /\ IsField(h, hq, n, who[n], i, g)
    BY StringStatic
  <1>2. /\ FieldsOK(h, hq, who, got, <<n, g.num>>)
        /\ Begun(g, Elems(h, who[n], i), got[n][i] + 1, hq[n].val[g.num], q)
    BY Zenon DEF StringOK
  <1> DEFINE m == who[n]
             d == got[n]
             deep == (Len(st) # 1)
             win == Win(h, st, c)
  <1>3. \E j \in FieldsOf(h, m) : \E r :
                    /\ AtPayload(h, m, d, j, win, call, r)
                    /\ IsField(h, hq, n, m, j, g)
                    /\ g.type = "string"
                    /\ Begun(g, Elems(h, m, j), d[j] + 1, hq[n].val[g.num], r)
    BY <1>1, <1>2, Zenon
  <1> HIDE DEF m, d, deep, win
  <1>4. Cursor(h, hq, n, m, d, win, deep, "string", call, g)
    BY <1>3, CursorsAre
  <1>5. Here(h, hq, st, c, "string", call, g, who, got)
    BY <1>4, Zenon DEF Here, m, d, deep, win
  <1>6. FieldsOK(h, hq, who, got, But(st, "string", g))
    BY <1>2, Zenon DEF But
  <1>7. "string" # "done"
    OBVIOUS
  <1>8. Going(h, hq, st, c, "string", call, g, who, got)
    BY <1>1, <1>5, <1>6, <1>7, Zenon DEF Going
  <1>. QED
    BY <1>8, GoingMirrors

LEMMA StringComplete ==
    ASSUME NEW h, Enc!SizableMessages(h), Readable(h), NEW hp, NEW st, NEW c,
           NEW who, NEW got, Static(h, hp, st, c, who, got), NEW n, n = TopOf(st),
           NEW i \in FieldsOf(h, who[n]),
           got[n][i] + 1 <= Len(Elems(h, who[n], i)), NEW g, NEW hq,
           StringOK(h, hp, hq, who, got, n, i, g, <<>>),
           IsField(h, hp, n, who[n], i, g), g.type = "string",
           Win(h, st, c) = Rest(h, who[n], Further(got[n], i)),
           NEW call, NEW fd, NEW res
    PROVE  Mirror(h, hq, st, c, "loop", call, fd, res)
  <1>1. /\ Static(h, hq, st, c, who, got)
        /\ IsField(h, hq, n, who[n], i, g)
    BY StringStatic
  <1>2. /\ FieldsOK(h, hq, who, got, <<n, g.num>>)
        /\ Begun(g, Elems(h, who[n], i), got[n][i] + 1, hq[n].val[g.num], <<>>)
        /\ Objects(h, hq, who, got)
    BY Zenon DEF StringOK
  <1>3. n \in DOMAIN hq
    BY <1>1, PlaceOf, Zenon DEF Place
  <1>4. StoredOK(h, hq, hq, who, got, n, i)
    BY <1>1, <1>2, <1>3, StringEnds
  <1>5. Going(h, hq, st, c, "loop", call, fd, who, Advance(got, n, i))
    BY <1>1, <1>4, LoopAgain
  <1>. QED
    BY <1>5, GoingMirrors

\* The length of a string has been read.
LEMMA StringEnters ==
    ASSUME NEW h, Enc!SizableMessages(h), Readable(h), NEW hp, NEW st, NEW c,
           NEW who, NEW got, Static(h, hp, st, c, who, got),
           FieldsOK(h, hp, who, got, Nowhere), NEW g, NEW w,
           NumberCame(h, hp, st, c, "len", g, w, who, got), g.type = "string",
           NEW res
    PROVE  Mirror(h, Dec!Store(hp, TopOf(st), g, <<>>), st, c,
                  IF w = 0 THEN "loop" ELSE "string", NewFixed(w), g, res)
  <1> DEFINE n == TopOf(st)
             m == who[n]
             d == got[n]
             call == NewFixed(w)
  <1>1. PICK i \in FieldsOf(h, m) :
            /\ NumberDone(h, m, d, i, Win(h, st, c), w)
            /\ About(h, hp, n, m, i, "len", g)
    BY Zenon DEF NumberCame
  <1>2. m \in DOMAIN h /\ n = TopOf(st) /\ n \in DOMAIN hp
    BY PlaceOf, Zenon DEF Place
  <1>3. IsField(h, hp, n, m, i, g)
    BY <1>1 DEF About
  <1>4. Objects(h, hp, who, got)
    BY Zenon DEF Static
  <1>0. m = who[n] /\ d = got[n]
    OBVIOUS
  <1> HIDE DEF n, m, d
  <1> DEFINE v == Elems(h, m, i)[d[i] + 1]
             f == FieldOf(h, m, i)
             win == Win(h, st, c)
             y == Rest(h, m, Further(d, i))
             p == Pay(h, m, i, d[i] + 1)
  <1>5. NumberDone(h, m, d, i, win, w)
    BY <1>1
  <1>6. /\ d[i] + 1 <= Len(Elems(h, m, i))
        /\ p \in Seq(Byte)
        /\ f.type \in LenTypes =>
                /\ w = Len(p) /\ w < U32
                /\ w = 0 => p = <<>>
        /\ win = p \o y
        /\ p = <<>> => win = y
    <2> HIDE DEF win
    <2>. QED
      BY <1>2, <1>5, NumberIsRead
  <1>7. f.type = "string"
    <2>1. g.type = FieldOf(h, m, i).type
      BY <1>0, <1>2, <1>3, <1>4, FieldAgrees
    <2>. QED
      BY <1>3, <2>1, Zenon DEF f
  <1>8. p = v
    BY <1>7, Zenon DEF Pay
  <1> HIDE DEF v, f, win, y, p, call
  <1>9. w = Len(p) /\ (w = 0 => p = <<>>)
    <2>1. f.type \in LenTypes
      BY <1>7 DEF LenTypes
    <2>. QED
      BY <1>6, <2>1, Zenon
  <1>10. /\ IsField(h, hp, n, who[n], i, g) /\ i \in FieldsOf(h, who[n])
         /\ got[n][i] + 1 <= Len(Elems(h, who[n], i))
    BY <1>0, <1>1, <1>3, <1>6, Zenon
  <1> DEFINE hq == Dec!Store(hp, n, g, <<>>)
  <1>11. CASE w = 0
    <2>1. g.type # "message"
      OBVIOUS
    <2>2. Win(h, st, c) = Rest(h, who[n], Further(got[n], i))
      BY <1>0, <1>6, <1>9, <1>11, Zenon DEF win, y
    <2>3. <<>> = Elems(h, who[n], i)[got[n][i] + 1]
      BY <1>0, <1>8, <1>9, <1>11, Zenon DEF v
    <2>4. Mirror(h, hq, st, c, "loop", call, g, res)
      <3>1. n = TopOf(st)
        BY <1>2
      <3>. QED
        BY <1>10, <2>1, <2>2, <2>3, <3>1, StoreEnds
    <2>. QED
      BY <1>11, <2>4, Zenon DEF n, call
  <1>12. CASE w # 0
    <2>1. p \in Seq(Byte) /\ p # <<>>
      <3>1. p \in Seq(Byte) /\ Len(p) # 0
        BY <1>6, <1>9, <1>12, Zenon
      <3>. QED
        BY <3>1, EmptySeq
    <2>2. g.num \in DOMAIN hp[n].val
      BY <1>2, <1>4, <1>10, FieldMatches
    <2>3. Stored(hp, hq, n, g, Dec!Added(g, hp[n].val[g.num], <<>>))
      BY <1>2, <1>4, <2>2, StoreStores
    <2> HIDE DEF hq
    <2>4. Elems(h, who[n], i)[got[n][i] + 1] = p
      BY <1>0, <1>8, Zenon DEF v
    <2>5. StringOK(h, hp, hq, who, got, n, i, g, p)
      BY <1>2, <1>4, <1>10, <2>1, <2>3, <2>4, StringStarts
    <2>6. AtPayload(h, m, d, i, win, call, p)
      BY <1>1, <1>6, <1>9, <2>1, Zenon DEF AtPayload, call, y
    <2>7. AtPayload(h, who[n], got[n], i, Win(h, st, c), call, p)
      BY <1>0, <2>6, Zenon DEF win
    <2>8. Mirror(h, hq, st, c, "string", call, g, res)
      BY <1>2, <1>10, <2>5, <2>7, StringHere
    <2>. QED
      BY <1>12, <2>8, Zenon DEF n, call, hq
  <1>. QED
    BY <1>11, <1>12

\* A byte of a string is read.
StringStep(h, hp, st, c, call, g, b) ==
    /\ b \in Byte
    /\ c + 1 <= EndOf(h, st)
    /\ \A res :
        Mirror(h, Dec!PushBack(hp, TopOf(st), g, b), st, c + 1,
               IF call.left = 1 THEN "loop" ELSE "string",
               NewFixed(call.left - 1), g, res)

LEMMA StringSteps ==
    ASSUME NEW h, Enc!SizableMessages(h), Readable(h), NEW hp, NEW st, NEW c,
           NEW call, NEW g, NEW who, NEW got,
           Going(h, hp, st, c, "string", call, g, who, got)
    PROVE  StringStep(h, hp, st, c, call, g, BodyOf(h)[c + 1])
  <1> DEFINE n == TopOf(st)
             m == who[n]
             d == got[n]
             s == BodyOf(h)
             e == EndOf(h, st)
             b == s[c + 1]
             deep == (Len(st) # 1)
  <1>1. /\ Static(h, hp, st, c, who, got)
        /\ FieldsOK(h, hp, who, got, <<n, g.num>>)
        /\ Here(h, hp, st, c, "string", call, g, who, got)
    BY Zenon DEF Going, But
  <1>2. /\ n \in DOMAIN hp /\ m \in DOMAIN h /\ n = TopOf(st)
        /\ Ordered(s, c, e) /\ s \in Seq(Byte)
    BY <1>1, PlaceOf, Zenon DEF Place
  <1>3. Cursor(h, hp, n, m, d, Window(s, c, e), deep, "string", call, g)
    BY <1>1, Zenon DEF Here, Win
  <1>0. m = who[n] /\ d = got[n]
    OBVIOUS
  <1> HIDE DEF n, m, d, s, e, b, deep
  <1>q. PICK i \in FieldsOf(h, m) : \E q :
            /\ AtPayload(h, m, d, i, Window(s, c, e), call, q)
            /\ IsField(h, hp, n, m, i, g)
            /\ g.type = "string"
            /\ Begun(g, Elems(h, m, i), d[i] + 1, hp[n].val[g.num], q)
    BY <1>3, CursorsAre
  <1>4. PICK q :
            /\ AtPayload(h, m, d, i, Window(s, c, e), call, q)
            /\ IsField(h, hp, n, m, i, g)
            /\ g.type = "string"
            /\ Begun(g, Elems(h, m, i), d[i] + 1, hp[n].val[g.num], q)
    BY <1>q, Zenon
  <1>5. /\ c + 1 <= e
        /\ s[c + 1] = Head(q) /\ Head(q) \in Byte
        /\ PayloadReads(h, m, d, i, Window(s, c + 1, e), call, q)
    BY <1>2, <1>4, PayloadNext
  <1>6. q \in Seq(Byte) /\ q # <<>> /\ d[i] + 1 <= Len(Elems(h, m, i))
    BY <1>4, Zenon DEF AtPayload
  <1>7. Objects(h, hp, who, got)
    BY <1>1, Zenon DEF Static
  <1>8. Static(h, hp, st, c + 1, who, got)
    BY <1>1, <1>5, StaticReads, Zenon DEF e
  <1>9. /\ i \in FieldsOf(h, who[n])
        /\ got[n][i] + 1 <= Len(Elems(h, who[n], i))
        /\ IsField(h, hp, n, who[n], i, g)
        /\ Begun(g, Elems(h, who[n], i), got[n][i] + 1, hp[n].val[g.num], q)
    BY <1>0, <1>4, <1>6, Zenon
  <1> DEFINE hq == Dec!PushBack(hp, n, g, Head(q))
  <1>10. StringOK(h, hp, hq, who, got, n, i, g, Tail(q))
    <2>1. g.num \in DOMAIN hp[n].val
      BY <1>2, <1>7, <1>9, FieldMatches
    <2>2. Stored(hp, hq, n, g, Dec!Extended(g, hp[n].val[g.num], Head(q)))
      BY <1>2, <1>7, <2>1, StoreStores
    <2> HIDE DEF hq
    <2>. QED
      BY <1>1, <1>2, <1>6, <1>7, <1>9, <2>2, StringGoesOn
  <1> HIDE DEF hq
  <1>11. ASSUME call.left = 1, NEW res
         PROVE  Mirror(h, hq, st, c + 1, "loop", NewFixed(call.left - 1), g, res)
    <2>1. Tail(q) = <<>> /\ Window(s, c + 1, e) = Rest(h, m, Further(d, i))
      BY <1>5, <1>11, Zenon DEF PayloadReads
    <2>2. /\ StringOK(h, hp, hq, who, got, n, i, g, <<>>)
          /\ Win(h, st, c + 1) = Rest(h, who[n], Further(got[n], i))
      BY <1>0, <1>10, <2>1, Zenon DEF Win, s, e
    <2> DEFINE call2 == NewFixed(call.left - 1)
               c2 == c + 1
    <2> HIDE DEF call2, c2
    <2>3. /\ Static(h, hp, st, c2, who, got)
          /\ Win(h, st, c2) = Rest(h, who[n], Further(got[n], i))
      BY <1>8, <2>2, Zenon DEF c2
    <2>4. Mirror(h, hq, st, c2, "loop", call2, g, res)
      <3>1. g.type = "string"
        BY <1>4
      <3>. QED
        BY <1>2, <1>9, <2>2, <2>3, <3>1, StringComplete
    <2>. QED
      BY <2>4, Zenon DEF call2, c2
  <1>12. ASSUME call.left # 1, NEW res
         PROVE  Mirror(h, hq, st, c + 1, "string", NewFixed(call.left - 1), g, res)
    <2> DEFINE call2 == NewFixed(call.left - 1)
               c2 == c + 1
    <2>1. AtPayload(h, m, d, i, Window(s, c2, e), call2, Tail(q))
      BY <1>5, <1>12, Zenon DEF PayloadReads
    <2> HIDE DEF call2, c2
    <2>2. AtPayload(h, who[n], got[n], i, Win(h, st, c2), call2, Tail(q))
      BY <1>0, <2>1, Zenon DEF Win, s, e
    <2>3. Static(h, hp, st, c2, who, got)
      BY <1>8, Zenon DEF c2
    <2>4. Mirror(h, hq, st, c2, "string", call2, g, res)
      <3>1. g.type = "string"
        BY <1>4
      <3>. QED
        BY <1>2, <1>9, <1>10, <2>2, <2>3, <3>1, StringHere
    <2>. QED
      BY <2>4, Zenon DEF call2, c2
  <1>13. b = Head(q)
    BY <1>5, Zenon DEF b
  <1>14. b \in Byte /\ c + 1 <= EndOf(h, st)
    BY <1>5, <1>13, Zenon DEF e
  <1>15. \A res : Mirror(h, hq, st, c + 1,
                         IF call.left = 1 THEN "loop" ELSE "string",
                         NewFixed(call.left - 1), g, res)
    BY <1>11, <1>12, Zenon
  <1>16. StringStep(h, hp, st, c, call, g, b)
    BY <1>13, <1>14, <1>15, Zenon DEF StringStep, hq, n
  <1>. QED
    BY <1>16, Zenon DEF b, s

\* A byte of an unknown field is read.
SkipStep(h, hp, st, c, call, fd, b) ==
    /\ b \in Byte
    /\ c + 1 <= EndOf(h, st)
    /\ \A res :
        Mirror(h, hp, st, c + 1, IF call.left = 1 THEN "loop" ELSE "skipbytes",
               NewFixed(call.left - 1), fd, res)

LEMMA SkipSteps ==
    ASSUME NEW h, Enc!SizableMessages(h), Readable(h), NEW hp, NEW st, NEW c,
           NEW call, NEW fd, NEW who, NEW got,
           Going(h, hp, st, c, "skipbytes", call, fd, who, got)
    PROVE  SkipStep(h, hp, st, c, call, fd, BodyOf(h)[c + 1])
  <1> DEFINE n == TopOf(st)
             m == who[n]
             d == got[n]
             s == BodyOf(h)
             e == EndOf(h, st)
             b == s[c + 1]
             deep == (Len(st) # 1)
  <1>1. /\ Static(h, hp, st, c, who, got)
        /\ FieldsOK(h, hp, who, got, Nowhere)
        /\ Here(h, hp, st, c, "skipbytes", call, fd, who, got)
    <2>1. "skipbytes" # "string"
      OBVIOUS
    <2>. QED
      BY <2>1, Zenon DEF Going, But
  <1>2. /\ n \in DOMAIN hp /\ m \in DOMAIN h /\ n = TopOf(st)
        /\ Ordered(s, c, e) /\ s \in Seq(Byte)
    BY <1>1, PlaceOf, Zenon DEF Place
  <1>3. Cursor(h, hp, n, m, d, Window(s, c, e), deep, "skipbytes", call, fd)
    BY <1>1, Zenon DEF Here, Win
  <1>0. m = who[n] /\ d = got[n]
    OBVIOUS
  <1> HIDE DEF n, m, d, s, e, b, deep
  <1>q. PICK i \in FieldsOf(h, m) : \E q :
            /\ AtPayload(h, m, d, i, Window(s, c, e), call, q)
            /\ IsUnknown(h, hp, n, m, i)
    BY <1>3, CursorsAre
  <1>4. PICK q :
            /\ AtPayload(h, m, d, i, Window(s, c, e), call, q)
            /\ IsUnknown(h, hp, n, m, i)
    BY <1>q, Zenon
  <1>5. /\ c + 1 <= e
        /\ s[c + 1] = Head(q) /\ Head(q) \in Byte
        /\ PayloadReads(h, m, d, i, Window(s, c + 1, e), call, q)
    BY <1>2, <1>4, PayloadNext
  <1>6. d[i] + 1 <= Len(Elems(h, m, i))
    BY <1>4, Zenon DEF AtPayload
  <1>7. Static(h, hp, st, c + 1, who, got)
    BY <1>1, <1>5, StaticReads, Zenon DEF e
  <1>8. /\ i \in FieldsOf(h, who[n])
        /\ got[n][i] + 1 <= Len(Elems(h, who[n], i))
        /\ IsUnknown(h, hp, n, who[n], i)
    BY <1>0, <1>4, <1>6, Zenon
  <1> DEFINE call2 == NewFixed(call.left - 1)
             c2 == c + 1
  <1>9. Static(h, hp, st, c2, who, got)
    BY <1>7
  <1>10. /\ call.left = 1 => Window(s, c2, e) = Rest(h, m, Further(d, i))
         /\ call.left # 1 => AtPayload(h, m, d, i, Window(s, c2, e), call2, Tail(q))
    BY <1>5, Zenon DEF PayloadReads
  <1> HIDE DEF call2, c2
  <1>11. ASSUME call.left = 1, NEW res
         PROVE  Mirror(h, hp, st, c2, "loop", call2, fd, res)
    <2>1. Win(h, st, c2) = Rest(h, who[n], Further(got[n], i))
      BY <1>0, <1>10, <1>11, Zenon DEF Win, s, e
    <2>. QED
      BY <1>1, <1>2, <1>8, <1>9, <2>1, UnknownEnds
  <1>12. ASSUME call.left # 1, NEW res
         PROVE  Mirror(h, hp, st, c2, "skipbytes", call2, fd, res)
    <2> DEFINE win == Window(s, c2, e)
    <2> HIDE DEF win
    <2>1. \E j \in FieldsOf(h, m) : \E r :
                    /\ AtPayload(h, m, d, j, win, call2, r)
                    /\ IsUnknown(h, hp, n, m, j)
      BY <1>4, <1>10, <1>12, Zenon DEF win
    <2>2. Cursor(h, hp, n, m, d, win, deep, "skipbytes", call2, fd)
      BY <2>1, CursorsAre
    <2>3. Here(h, hp, st, c2, "skipbytes", call2, fd, who, got)
      BY <2>2, Zenon DEF Here, Win, n, m, d, s, e, deep, win
    <2>4. FieldsOK(h, hp, who, got, But(st, "skipbytes", fd))
      BY <1>1, Zenon DEF But
    <2>5. Going(h, hp, st, c2, "skipbytes", call2, fd, who, got)
      BY <1>9, <2>3, <2>4, Zenon DEF Going
    <2>. QED
      BY <2>5, GoingMirrors
  <1>13. b = Head(q)
    BY <1>5, Zenon DEF b
  <1>14. b \in Byte /\ c + 1 <= EndOf(h, st)
    BY <1>5, <1>13, Zenon DEF e
  <1>15. \A res : Mirror(h, hp, st, c + 1,
                         IF call.left = 1 THEN "loop" ELSE "skipbytes",
                         NewFixed(call.left - 1), fd, res)
    BY <1>11, <1>12, Zenon DEF c2, call2
  <1>16. SkipStep(h, hp, st, c, call, fd, b)
    BY <1>14, <1>15, Zenon DEF SkipStep
  <1>. QED
    BY <1>16, Zenon DEF b, s

-----------------------------------------------------------------------------
(* A sub-message is entered.                                               *)

\* The innermost activation after a call.
LEMMA TopOfCalled ==
    ASSUME NEW h, NEW st, IsSeq(st), st # <<>>, NEW fr
    PROVE  /\ TopOf(Append(st, fr)) = fr.msg
           /\ EndOf(h, Append(st, fr)) = fr.start + fr.size
           /\ Len(Append(st, fr)) # 1
           /\ \A n : OnStack(Append(st, fr), n) <=> OnStack(st, n) \/ n = fr.msg
  <1> DEFINE z == Len(st)
             tt == Append(st, fr)
             L == Len(BodyOf(h))
  <1>1. z \in Nat \ {0} /\ DOMAIN st = 1 .. z
    <2>1. z \in Nat /\ DOMAIN st = 1 .. z
      BY IsSeqLen
    <2>2. st \in Seq({st[i] : i \in DOMAIN st})
      BY DEF IsSeq, Enc!IsSeq
    <2>3. z # 0
      BY <2>2, EmptySeq
    <2>. QED
      BY <2>1, <2>3
  <1>2. Called(st, fr, tt)
    BY AppendCalls
  <1> HIDE DEF tt, L
  <1>3. EndAt(tt, L, z + 1) = fr.start + fr.size
    BY <1>1, <1>2, EndsOfCalled
  <1>4. /\ DOMAIN tt = 1 .. (z + 1) /\ Len(tt) = z + 1
        /\ \A a \in DOMAIN st : tt[a] = st[a]
        /\ tt[z + 1] = fr
    BY <1>2, Zenon DEF Called
  <1> HIDE DEF z
  <1>5. /\ DOMAIN st \subseteq DOMAIN tt
        /\ z + 1 \in DOMAIN tt /\ z + 1 # 1
        /\ \A a \in DOMAIN tt : a \in DOMAIN st \/ a = z + 1
    BY <1>1, <1>4
  <1>6. TopOf(tt) = fr.msg
    BY <1>4, Zenon DEF TopOf
  <1>7. EndOf(h, tt) = fr.start + fr.size
    BY <1>3, <1>4, Zenon DEF EndOf, L
  <1>8. Len(tt) # 1
    BY <1>4, <1>5, Zenon
  <1>9. \A n : OnStack(tt, n) <=> OnStack(st, n) \/ n = fr.msg
    BY <1>4, <1>5, Zenon DEF OnStack
  <1>. QED
    BY <1>6, <1>7, <1>8, <1>9, Zenon DEF tt

\* The objects after the call.
Entered(h, hp, who, got, n, i, e, wo, go) ==
    /\ DOMAIN wo = 1 .. (Len(hp) + 1)
    /\ wo[Len(hp) + 1] = e /\ go[Len(hp) + 1] = NoneDone(h, e)
    /\ \A j \in DOMAIN hp : wo[j] = who[j]
    /\ \A j \in DOMAIN hp : j # n => go[j] = got[j]
    /\ go[n] = Further(got[n], i)

LEMMA EnteredIs ==
    ASSUME NEW h, NEW hp, NEW who, NEW got, Objects(h, hp, who, got),
           NEW n \in DOMAIN hp, NEW i, NEW e
    PROVE  Entered(h, hp, who, got, n, i, e, Grown(who, Len(hp), e),
                   Advance(Grown(got, Len(hp), NoneDone(h, e)), n, i))
  <1> DEFINE N == Len(hp)
             wo == Grown(who, N, e)
             gg == Grown(got, N, NoneDone(h, e))
             go == Advance(gg, n, i)
  <1>1. N \in Nat /\ DOMAIN hp = 1 .. N /\ n \in 1 .. N
    BY ObjectsAre
  <1> HIDE DEF N
  <1>2. /\ DOMAIN wo = 1 .. (N + 1)
        /\ wo[N + 1] = e
        /\ \A j \in 1 .. N : wo[j] = who[j]
        /\ DOMAIN gg = 1 .. (N + 1)
        /\ gg[N + 1] = NoneDone(h, e)
        /\ \A j \in 1 .. N : gg[j] = got[j]
    BY <1>1, GrownIs
  <1>3. /\ n \in 1 .. (N + 1) /\ N + 1 \in 1 .. (N + 1) /\ N + 1 # n
        /\ \A j \in 1 .. N : j \in 1 .. (N + 1)
    BY <1>1
  <1> HIDE DEF wo, gg
  <1>4. /\ go[n] = Further(gg[n], i)
        /\ \A j \in DOMAIN gg : j # n => go[j] = gg[j]
    BY <1>2, <1>3, Zenon DEF Advance
  <1> HIDE DEF go
  <1>5. Entered(h, hp, who, got, n, i, e, wo, go)
    BY <1>1, <1>2, <1>3, <1>4, Zenon DEF Entered, N
  <1>. QED
    BY <1>5, Zenon DEF wo, go, gg, N

LEMMA EnterStatic ==
    ASSUME NEW h, Enc!SizableMessages(h), NEW hp, NEW st, NEW c,
           NEW who, NEW got, Static(h, hp, st, c, who, got), NEW n, n = TopOf(st),
           NEW i, NEW e, NEW wo, NEW go, Entered(h, hp, who, got, n, i, e, wo, go),
           NEW hq, Objects(h, hq, wo, go), DOMAIN hq = 1 .. (Len(hp) + 1),
           NEW s \in Nat, c + s <= EndOf(h, st),
           Window(BodyOf(h), c + s, EndOf(h, st)) = Rest(h, who[n], Further(got[n], i)),
           NEW fr, fr.msg = Len(hp) + 1, fr.start = c, fr.size = s
    PROVE  Static(h, hq, Append(st, fr), c, wo, go)
  <1> DEFINE y == Len(hp) + 1
  <1>1. Activations(h, hp, st, who, got, c) /\ Finished(h, hp, st, who, got)
        /\ Objects(h, hp, who, got)
    BY Zenon DEF Static
  <1>2. /\ n \in DOMAIN hp /\ OnStack(st, n)
        /\ c \in Nat /\ c <= EndOf(h, st)
    BY PlaceOf, Zenon DEF Place, Ordered
  <1>3. Len(hp) \in Nat /\ DOMAIN hp = 1 .. Len(hp)
    BY <1>1, <1>2, ObjectsAre
  <1>4. /\ DOMAIN hp \subseteq DOMAIN hq /\ y \in DOMAIN hq /\ y \notin DOMAIN hp
        /\ \A j \in DOMAIN hq : j \in DOMAIN hp \/ j = y
    BY <1>3
  <1>5. /\ \A j \in DOMAIN hp : wo[j] = who[j]
        /\ \A j \in DOMAIN hp : j # n => go[j] = got[j]
        /\ go[n] = Further(got[n], i)
    BY Zenon DEF Entered
  <1>6. IsSeq(st) /\ st # <<>> /\ \A a \in DOMAIN st : st[a].msg \in DOMAIN hp
    BY <1>1, ActivationsAre
  <1>0. fr.msg = y
    OBVIOUS
  <1> HIDE DEF y
  <1>7. \A j \in DOMAIN hp : j # TopOf(st) => wo[j] = who[j] /\ go[j] = got[j]
    BY <1>5, Zenon
  <1>8. c <= c
    BY <1>2
  <1>9. Activations(h, hq, st, wo, go, c)
    BY <1>1, <1>2, <1>4, <1>7, <1>8, ActivationsMove
  <1>10. \A a \in DOMAIN st : st[a].msg # y
    BY <1>4, <1>6, Zenon
  <1>11. Window(BodyOf(h), c + s, EndOf(h, st)) = Left(h, wo, go, TopOf(st))
    BY <1>2, <1>5, Zenon DEF Left
  <1>12. Activations(h, hq, Append(st, fr), wo, go, c)
    BY <1>0, <1>4, <1>9, <1>10, <1>11, ActivationsPush
  <1>13. \A j : OnStack(Append(st, fr), j) <=> OnStack(st, j) \/ j = fr.msg
    BY <1>6, TopOfCalled
  <1>14. Finished(h, hq, Append(st, fr), wo, go)
    <2>1. ASSUME NEW j \in DOMAIN hq
          PROVE  OnStack(Append(st, fr), j) \/ IsDone(h, wo[j], go[j])
      <3>1. CASE j = y
        BY <1>0, <1>13, <3>1, Zenon
      <3>2. CASE j \in DOMAIN hp /\ OnStack(st, j)
        BY <1>13, <3>2, Zenon
      <3>3. CASE j \in DOMAIN hp /\ ~ OnStack(st, j)
        <4>1. j # n /\ IsDone(h, who[j], got[j])
          BY <1>1, <1>2, <3>3, Zenon DEF Finished
        <4>2. wo[j] = who[j] /\ go[j] = got[j]
          BY <1>5, <3>3, <4>1, Zenon
        <4>. QED
          BY <4>1, <4>2, Zenon
      <3>. QED
        BY <1>4, <3>1, <3>2, <3>3, Zenon
    <2>. QED
      BY <2>1, Zenon DEF Finished
  <1>. QED
    BY <1>12, <1>14, Zenon DEF Static

\* The element of a sub-message field is a younger message.
LEMMA SubMessageIs ==
    ASSUME NEW h, Enc!SizableMessages(h), NEW m \in DOMAIN h,
           NEW i \in FieldsOf(h, m), NEW k \in DOMAIN Elems(h, m, i),
           FieldOf(h, m, i).type = "message"
    PROVE  /\ Elems(h, m, i)[k] \in DOMAIN h
           /\ Elems(h, m, i)[k] > m
           /\ Pay(h, m, i, k) = Body(h, Elems(h, m, i)[k])
  <1> DEFINE v == Elems(h, m, i)[k]
             f == FieldOf(h, m, i)
  <1>1. Enc!Sizable(h, m, f, v)
    BY ElemsAreSizable DEF FieldsOf
  <1>2. DOMAIN h = 1 .. Len(h) /\ Len(h) \in Nat
    BY MessagesAreSeq
  <1> HIDE DEF v, f
  <1>3. f.type = "message"
    BY Zenon DEF f
  <1>4. f.type \notin NumberTypes /\ f.type # "string"
    BY <1>3 DEF NumberTypes, Signed32, Signed64, Unsigned32, Unsigned64
  <1>5. v \in (m + 1) .. Len(h)
    BY <1>1, <1>4, ElemKinds, Zenon
  <1>6. v \in DOMAIN h /\ v > m
    BY <1>2, <1>5
  <1>7. Pay(h, m, i, k) = Body(h, v)
    <2>1. "message" # "string"
      OBVIOUS
    <2>. QED
      BY <1>3, <2>1 DEF Pay, v, f
  <1>. QED
    BY <1>6, <1>7, Zenon DEF v

\* Where a call of DecodeMessage for a sub-message starts.
LEMMA SubMessageStarts ==
    ASSUME NEW h, Enc!SizableMessages(h), NEW hp, NEW st, NEW c,
           NEW who, NEW got, Static(h, hp, st, c, who, got), NEW n, n = TopOf(st),
           NEW i, NEW e \in DOMAIN h,
           NEW wo, NEW go, Entered(h, hp, who, got, n, i, e, wo, go),
           NEW hq, Objects(h, hq, wo, go), FieldsOK(h, hq, wo, go, Nowhere),
           DOMAIN hq = 1 .. (Len(hp) + 1),
           Win(h, st, c) = Body(h, e) \o Rest(h, who[n], Further(got[n], i)),
           NEW s, s = Len(Body(h, e)),
           NEW fr, fr.msg = Len(hp) + 1, fr.start = c, fr.size = s,
           NEW call, NEW fd, NEW res
    PROVE  Mirror(h, hq, Append(st, fr), c, "loop", call, fd, res)
  <1> DEFINE B == BodyOf(h)
             x == Body(h, e)
             y == Rest(h, who[n], Further(got[n], i))
             E == EndOf(h, st)
             tt == Append(st, fr)
  <1>1. /\ who[n] \in DOMAIN h
        /\ c \in Nat /\ E \in Nat /\ c <= E /\ E <= Len(B)
        /\ B \in Seq(Byte)
    BY PlaceOf, Zenon DEF Place, Ordered
  <1>2. x \in Seq(Byte) /\ s \in Nat
    <2>1. Len(Body(h, e)) \in Nat
      BY BodyTyped
    <2>2. x \in Seq(Byte)
      BY BodyTyped
    <2>. QED
      BY <2>1, <2>2, Zenon
  <1>3. y \in Seq(Byte)
    BY <1>1, RestTyped
  <1>4. Window(B, c, E) = x \o y
    BY Zenon DEF Win
  <1>5. x = Rest(h, e, NoneDone(h, e))
    BY BodyIsRest
  <1>0. s = Len(x) /\ n = TopOf(st) /\ fr.msg = Len(hp) + 1 /\ fr.start = c
        /\ fr.size = s
    OBVIOUS
  <1>6. IsSeq(st) /\ st # <<>>
    <2>1. Activations(h, hp, st, who, got, c)
      BY Zenon DEF Static
    <2>. QED
      BY <2>1, ActivationsAre
  <1>7. wo[Len(hp) + 1] = e /\ go[Len(hp) + 1] = NoneDone(h, e)
    BY Zenon DEF Entered
  <1>8. TopOf(tt) = Len(hp) + 1 /\ EndOf(h, tt) = c + s
    BY <1>0, <1>6, TopOfCalled
  <1> HIDE DEF B, x, y, E, tt
  <1>9. CutInto(B, c, E, x, y)
    BY <1>1, <1>2, <1>3, <1>4, WindowCut
  <1>10. /\ c + s <= E
         /\ Window(B, c, c + s) = x
         /\ Window(B, c + s, E) = y
    BY <1>0, <1>9, Zenon DEF CutInto
  <1>11. Static(h, hq, tt, c, wo, go)
    <2>1. /\ c + s <= EndOf(h, st)
          /\ Window(BodyOf(h), c + s, EndOf(h, st)) =
                Rest(h, who[n], Further(got[n], i))
      BY <1>10, Zenon DEF B, E, y
    <2>2. Static(h, hq, Append(st, fr), c, wo, go)
      BY <1>2, <2>1, EnterStatic
    <2>. QED
      BY <2>2, Zenon DEF tt
  <1> DEFINE z == Len(hp) + 1
             deep == (Len(tt) # 1)
             win == Win(h, tt, c)
  <1>12. Win(h, tt, c) = x
    BY <1>8, <1>10, Zenon DEF Win, B
  <1>13. win = Rest(h, wo[z], go[z])
    BY <1>5, <1>7, <1>12, Zenon
  <1> HIDE DEF z, deep, win
  <1>14. Cursor(h, hq, z, wo[z], go[z], win, deep, "loop", call, fd)
    BY <1>13, CursorsAre
  <1>15. Here(h, hq, tt, c, "loop", call, fd, wo, go)
    BY <1>8, <1>14, Zenon DEF Here, z, deep, win
  <1>16. FieldsOK(h, hq, wo, go, But(tt, "loop", fd))
    BY Zenon DEF But
  <1>17. Going(h, hq, tt, c, "loop", call, fd, wo, go)
    BY <1>11, <1>15, <1>16, Zenon DEF Going
  <1>18. Mirror(h, hq, tt, c, "loop", call, fd, res)
    BY <1>17, GoingMirrors
  <1>. QED
    BY <1>18, Zenon DEF tt

EntersOK(h, hp, st, c, g, fr, res) ==
    /\ ~ g.repeated => hp[TopOf(st)].val[g.num] = 0
    /\ \A call :
        Mirror(h, Append(Dec!Store(hp, TopOf(st), g, Len(hp) + 1),
                         Dec!NewMessage(g.sub)),
               Append(st, fr), c, "loop", call, g, res)

LEMMA MessageEnters ==
    ASSUME NEW h, Enc!SizableMessages(h), Readable(h), NEW hp, NEW st, NEW c,
           NEW who, NEW got, Static(h, hp, st, c, who, got),
           FieldsOK(h, hp, who, got, Nowhere), NEW g, NEW w,
           NumberCame(h, hp, st, c, "len", g, w, who, got), g.type = "message",
           NEW fr, fr.msg = Len(hp) + 1, fr.start = c, fr.size = w, NEW res
    PROVE  EntersOK(h, hp, st, c, g, fr, res)
  <1> DEFINE n == TopOf(st)
             m == who[n]
             d == got[n]
  <1>1. PICK i \in FieldsOf(h, m) :
            /\ NumberDone(h, m, d, i, Win(h, st, c), w)
            /\ About(h, hp, n, m, i, "len", g)
    BY Zenon DEF NumberCame
  <1>2. m \in DOMAIN h /\ n = TopOf(st) /\ n \in DOMAIN hp
    BY PlaceOf, Zenon DEF Place
  <1>3. IsField(h, hp, n, m, i, g)
    BY <1>1 DEF About
  <1>4. Objects(h, hp, who, got)
    BY Zenon DEF Static
  <1>0. m = who[n] /\ d = got[n]
    OBVIOUS
  <1> HIDE DEF n, m, d
  <1> DEFINE k == d[i] + 1
             e == Elems(h, m, i)[k]
             f == FieldOf(h, m, i)
             win == Win(h, st, c)
             y == Rest(h, m, Further(d, i))
             p == Pay(h, m, i, k)
  <1>5. NumberDone(h, m, d, i, win, w)
    BY <1>1
  <1>6. /\ k <= Len(Elems(h, m, i))
        /\ f.type \in LenTypes => w = Len(p)
        /\ win = p \o y
    <2> HIDE DEF win
    <2>. QED
      BY <1>2, <1>5, NumberIsRead
  <1>7. f.type = "message"
    <2>1. g.type = FieldOf(h, m, i).type
      BY <1>0, <1>2, <1>3, <1>4, FieldAgrees
    <2>. QED
      BY <1>3, <2>1, Zenon DEF f
  <1>8. d[i] + 1 \in DOMAIN Elems(h, m, i)
    <2>1. d \in Counts(h, m)
      BY <1>0, <1>2, <1>4, ObjectsAre, Zenon
    <2>2. i \in FieldsOf(h, m)
      BY <1>1
    <2>3. d[i] + 1 <= Len(Elems(h, m, i))
      BY <1>6
    <2>. QED
      BY <1>2, <2>1, <2>2, <2>3, CountOf
  <1>9. e \in DOMAIN h /\ p = Body(h, e)
    <2>1. FieldOf(h, m, i).type = "message"
      BY <1>7
    <2>2. k \in DOMAIN Elems(h, m, i)
      BY <1>8
    <2> HIDE DEF k
    <2>. QED
      BY <1>2, <2>1, <2>2, SubMessageIs
  <1>10. f.type \in LenTypes
    BY <1>7 DEF LenTypes
  <1>11. got[n][i] + 1 = k /\ Elems(h, who[n], i)[got[n][i] + 1] = e
    BY <1>0, Zenon
  <1> HIDE DEF k, e, f, win, y, p
  <1>12. w = Len(Body(h, e)) /\ win = Body(h, e) \o y
    BY <1>6, <1>9, <1>10, Zenon
  <1>13. /\ IsField(h, hp, n, who[n], i, g) /\ i \in FieldsOf(h, who[n])
         /\ got[n][i] + 1 <= Len(Elems(h, who[n], i))
         /\ e \in DOMAIN h
    BY <1>0, <1>1, <1>3, <1>6, <1>9, <1>11, Zenon
  <1>14. ASSUME ~ g.repeated
         PROVE  hp[n].val[g.num] = 0
    BY <1>2, <1>4, <1>13, <1>14, NoMerge
  <1> DEFINE hq == Append(Dec!Store(hp, n, g, Len(hp) + 1), Dec!NewMessage(g.sub))
             wo == Grown(who, Len(hp), e)
             go == Advance(Grown(got, Len(hp), NoneDone(h, e)), n, i)
  <1>15. EnterOK(h, hp, hq, who, got, n, i, e)
    BY <1>2, <1>4, <1>11, <1>13, EnterAdvances
  <1>16. Entered(h, hp, who, got, n, i, e, wo, go)
    BY <1>2, <1>4, EnteredIs
  <1> HIDE DEF hq, wo, go
  <1>17. Objects(h, hq, wo, go) /\ FieldsOK(h, hq, wo, go, Nowhere)
         /\ DOMAIN hq = 1 .. (Len(hp) + 1)
    BY <1>15, Zenon DEF EnterOK, wo, go
  <1>18. Win(h, st, c) = Body(h, e) \o Rest(h, who[n], Further(got[n], i))
    BY <1>0, <1>12, Zenon DEF win, y
  <1>19. ASSUME NEW call
         PROVE  Mirror(h, hq, Append(st, fr), c, "loop", call, g, res)
    BY <1>2, <1>9, <1>12, <1>16, <1>17, <1>18, SubMessageStarts
  <1>. QED
    BY <1>14, <1>19, Zenon DEF EntersOK, hq, n

-----------------------------------------------------------------------------
(* A tag is read.                                                          *)

\* A varint of one byte.
LEMMA ByteIsVarint ==
    ASSUME NEW b \in Byte, b < Base, b < U32
    PROVE  /\ Ends(NewVarint, b) /\ ~ Overflows(NewVarint, b)
           /\ ~ TooBig(NewVarint, b)
           /\ Feed(NewVarint, b).acc = b
  <1>1. b \in Nat
    BY WireAssumption DEF Byte
  <1>2. b % Base = b
    BY <1>1, WireAssumption, SmallMod
  <1>3. b % U64 = b
    <2>1. b \in 0 .. (U64 - 1)
      BY <1>1, WireAssumption
    <2>. QED
      BY <2>1, WireAssumption, SmallMod
  <1>4. ~ Continues(b)
    BY <1>1, WireAssumption DEF Continues
  <1>5. Feed(NewVarint, b).acc = b
    <2>1. Feed(NewVarint, b).acc = (0 + (b % Base) * 1) % U64
      BY DEF Feed, NewVarint, FeedVarint, Payload
    <2>2. (0 + b * 1) = b
      BY <1>1
    <2>. QED
      BY <1>2, <1>3, <2>1, <2>2, Zenon
  <1>6. Ends(NewVarint, b) /\ ~ Overflows(NewVarint, b)
    BY <1>4 DEF Ends, Overflows, NewVarint
  <1>7. ~ TooBig(NewVarint, b)
    <2>1. ~ (b >= U32)
      BY <1>1, WireAssumption
    <2>. QED
      BY <1>5, <2>1, Zenon DEF TooBig
  <1>. QED
    BY <1>5, <1>6, <1>7

LenLabel(t, a, b) == IF t \in LenTypes THEN a ELSE b

TagStep(h, hp, st, c, call, fd, b, t) ==
    LET type == hp[TopOf(st)].type
        g == Dec!FindFieldByNumber(type, b \div 8)
    IN  /\ b \in Byte
        /\ c + 1 <= EndOf(h, st)
        /\ Ends(call, b) /\ ~ Overflows(call, b) /\ ~ TooBig(call, b)
        /\ Feed(call, b).acc = b
        /\ t \in FieldTypes /\ b % 8 = GetWireType(t)
        /\ Dec!Known(type, b \div 8) =>
            /\ g.type = t /\ ~ g.packed
            /\ \A res : Mirror(h, hp, st, c + 1, LenLabel(t, "len", "value"),
                               StartOf(t), g, res)
        /\ ~ Dec!Known(type, b \div 8) =>
            \A res : Mirror(h, hp, st, c + 1, LenLabel(t, "skiplen", "skip"),
                            StartOf(t), fd, res)

\* The number of a field comes next.
LEMMA NumberStarts ==
    ASSUME NEW h, NEW hp, NEW st, NEW c, NEW who, NEW got,
           Static(h, hp, st, c, who, got), FieldsOK(h, hp, who, got, Nowhere),
           NEW n, n = TopOf(st), NEW i \in FieldsOf(h, who[n]), NEW call,
           AtNumber(h, who[n], got[n], i, Win(h, st, c), call), NEW fd,
           NEW lbl \in NumberLabels, About(h, hp, n, who[n], i, lbl, fd), NEW res
    PROVE  Mirror(h, hp, st, c, lbl, call, fd, res)
  <1> DEFINE m == who[n]
             d == got[n]
             deep == (Len(st) # 1)
             win == Win(h, st, c)
  <1>1. NumberAt(h, hp, n, m, d, win, lbl, call, fd)
    BY Zenon DEF NumberAt
  <1> HIDE DEF m, d, deep, win
  <1>2. Cursor(h, hp, n, m, d, win, deep, lbl, call, fd)
    BY <1>1, NumberCursor
  <1>3. Here(h, hp, st, c, lbl, call, fd, who, got)
    BY <1>2, Zenon DEF Here, m, d, deep, win
  <1>4. lbl # "string" /\ lbl # "done"
    BY DEF NumberLabels
  <1>5. FieldsOK(h, hp, who, got, But(st, lbl, fd))
    BY <1>4, Zenon DEF But
  <1>6. Going(h, hp, st, c, lbl, call, fd, who, got)
    BY <1>3, <1>4, <1>5, Zenon DEF Going
  <1>. QED
    BY <1>6, GoingMirrors

LEMMA TagSteps ==
    ASSUME NEW h, Enc!SizableMessages(h), Readable(h), NEW hp, NEW st, NEW c,
           NEW call, NEW fd, NEW who, NEW got,
           Going(h, hp, st, c, "tag", call, fd, who, got),
           c + 1 <= Len(BodyOf(h))
    PROVE  \E t : TagStep(h, hp, st, c, call, fd, BodyOf(h)[c + 1], t)
  <1> DEFINE n == TopOf(st)
             m == who[n]
             d == got[n]
             B == BodyOf(h)
             E == EndOf(h, st)
             b == B[c + 1]
             deep == (Len(st) # 1)
             win == Window(B, c, E)
             type == hp[n].type
  <1>1. /\ Static(h, hp, st, c, who, got)
        /\ FieldsOK(h, hp, who, got, Nowhere)
        /\ Here(h, hp, st, c, "tag", call, fd, who, got)
    <2>1. But(st, "tag", fd) = Nowhere
      <3>1. "tag" # "string"
        OBVIOUS
      <3>. QED
        BY <3>1, Zenon DEF But
    <2>2. FieldsOK(h, hp, who, got, But(st, "tag", fd))
      BY Zenon DEF Going
    <2>3. FieldsOK(h, hp, who, got, Nowhere)
      BY <2>1, <2>2
    <2>. QED
      BY <2>3, Zenon DEF Going
  <1>2. /\ n \in DOMAIN hp /\ m \in DOMAIN h /\ n = TopOf(st)
        /\ d \in Counts(h, m)
        /\ Ordered(B, c, E) /\ B \in Seq(Byte)
        /\ type = h[m].type /\ type \in DOMAIN ReaderSchema
    <2>1. Place(h, hp, st, c, who, got)
      BY <1>1, PlaceOf
    <2>. QED
      BY <2>1, Zenon DEF Place
  <1>3. Objects(h, hp, who, got)
    BY <1>1, Zenon DEF Static
  <1>4. Cursor(h, hp, n, m, d, win, deep, "tag", call, fd)
    BY <1>1, Zenon DEF Here, Win
  <1>5. c + 1 <= Len(B)
    OBVIOUS
  <1>6. ~ deep => E = Len(B)
    BY Zenon DEF EndOf, EndAt
  <1>0. m = who[n] /\ d = got[n]
    OBVIOUS
  <1> HIDE DEF n, m, d, B, E, b, deep, win, type
  <1>7. win = Rest(h, m, d) /\ call = NewVarint /\ (deep => win # <<>>)
    BY <1>4, CursorsAre
  <1>8. c \in Nat /\ E \in Nat /\ c <= E /\ E <= Len(B)
    BY <1>2, Zenon DEF Ordered
  <1>9. win # <<>>
    <2>1. CASE ~ deep
      <3>1. c # E
        BY <1>5, <1>6, <1>8, <2>1
      <3>2. Window(B, c, E) # <<>>
        BY <1>2, <1>8, <3>1, WindowEmpty
      <3>. QED
        BY <3>2, Zenon DEF win
    <2>. QED
      BY <1>7, <2>1
  <1>10. ~ IsDone(h, m, d)
    BY <1>2, <1>7, <1>9, RestEmpty, Zenon
  <1>11. PICK i, z : NextElement(h, m, d, i, z)
    BY <1>2, <1>10, NextElementComes
  <1> DEFINE f == FieldOf(h, m, i)
             tag == TagOf(f)
             t == f.type
  <1>12. /\ i \in FieldsOf(h, m) /\ d[i] + 1 <= Len(Elems(h, m, i))
         /\ tag \in Byte /\ tag < Base /\ tag < U32
         /\ tag \div 8 = f.num /\ tag % 8 = GetWireType(t)
         /\ f.num \in Nat /\ t \in FieldTypes /\ t # "bytes"
         /\ z \in Seq(Byte)
         /\ Rest(h, m, d) = <<tag>> \o z
         /\ AtNumber(h, m, d, i, z, StartOf(t))
    BY <1>11, Zenon DEF NextElement
  <1> HIDE DEF f, tag, t
  <1>13. /\ c + 1 <= E /\ b = tag
         /\ Window(B, c + 1, E) = z
    <2>1. Window(B, c, E) = <<tag>> \o z
      BY <1>7, <1>12, Zenon DEF win
    <2>2. BeginsWith(B, c, E, tag, z)
      BY <1>2, <1>8, <1>12, <2>1, WindowCons
    <2>. QED
      BY <2>2, Zenon DEF BeginsWith, b
  <1>14. /\ Ends(call, b) /\ ~ Overflows(call, b) /\ ~ TooBig(call, b)
         /\ Feed(call, b).acc = b
    <2>1. /\ Ends(NewVarint, tag) /\ ~ Overflows(NewVarint, tag)
          /\ ~ TooBig(NewVarint, tag)
          /\ Feed(NewVarint, tag).acc = tag
      BY <1>12, ByteIsVarint
    <2>. QED
      BY <1>7, <1>13, <2>1, Zenon
  <1> DEFINE c2 == c + 1
             call2 == StartOf(t)
  <1>15. Static(h, hp, st, c2, who, got)
    BY <1>1, <1>13, StaticReads, Zenon DEF E
  <1>16. Win(h, st, c2) = z
    BY <1>13, Zenon DEF Win, B, E
  <1> HIDE DEF c2, call2
  <1>17. AtNumber(h, who[n], got[n], i, Win(h, st, c2), call2)
    BY <1>0, <1>12, <1>16, Zenon DEF call2
  <1>18. i \in FieldsOf(h, who[n])
    BY <1>0, <1>12, Zenon
  <1> DEFINE g == Dec!FindFieldByNumber(type, b \div 8)
  <1>19. b \div 8 = f.num /\ b % 8 = GetWireType(t) /\ b \in Byte
    BY <1>12, <1>13, Zenon
  <1>20. ASSUME Dec!Known(type, b \div 8)
         PROVE  /\ g.type = t /\ ~ g.packed
                /\ \A res : Mirror(h, hp, st, c2, LenLabel(t, "len", "value"),
                                   call2, g, res)
    <2>1. g \in Dec!Fields(type) /\ g.num = f.num
      BY <1>2, <1>12, <1>19, <1>20, FieldIsFound, Zenon
    <2> HIDE DEF g
    <2>2. IsField(h, hp, n, who[n], i, g)
      BY <1>0, <2>1, Zenon DEF IsField, type, f
    <2>3. /\ Fits(h, FieldOf(h, who[n], i), Elems(h, who[n], i), g)
          /\ g.type = FieldOf(h, who[n], i).type
      <3>1. n \in DOMAIN hp
        BY <1>2
      <3>2. Fits(h, FieldOf(h, who[n], i), Elems(h, who[n], i), g)
        BY <1>3, <1>18, <2>2, <3>1, FieldMatches, Zenon
      <3>. QED
        BY <3>2, Zenon DEF Fits
    <2>4. g.type = t /\ ~ g.packed
      BY <1>0, <2>3, Zenon DEF Fits, t, f
    <2> DEFINE lbl == LenLabel(t, "len", "value")
    <2>5. lbl \in NumberLabels
      BY DEF NumberLabels, LenLabel
    <2>6. About(h, hp, n, who[n], i, lbl, g)
      BY <2>2, <2>4 DEF About, LenLabel
    <2> HIDE DEF lbl
    <2>7. ASSUME NEW res
          PROVE  Mirror(h, hp, st, c2, lbl, call2, g, res)
      BY <1>1, <1>2, <1>15, <1>17, <1>18, <2>5, <2>6, NumberStarts
    <2>. QED
      BY <2>4, <2>7, Zenon DEF lbl
  <1>21. ASSUME ~ Dec!Known(type, b \div 8)
         PROVE  \A res : Mirror(h, hp, st, c2, LenLabel(t, "skiplen", "skip"),
                                call2, fd, res)
    <2>1. IsUnknown(h, hp, n, who[n], i)
      BY <1>0, <1>19, <1>21, Zenon DEF IsUnknown, f, type
    <2>2. t = FieldOf(h, who[n], i).type
      BY <1>0, Zenon DEF t, f
    <2> DEFINE lbl == LenLabel(t, "skiplen", "skip")
    <2>3. lbl \in NumberLabels
      BY DEF NumberLabels, LenLabel
    <2>4. About(h, hp, n, who[n], i, lbl, fd)
      BY <2>1, <2>2 DEF About, LenLabel
    <2> HIDE DEF lbl
    <2>5. ASSUME NEW res
          PROVE  Mirror(h, hp, st, c2, lbl, call2, fd, res)
      BY <1>1, <1>2, <1>15, <1>17, <1>18, <2>3, <2>4, NumberStarts
    <2>. QED
      BY <2>5, Zenon DEF lbl
  <1>22. c2 <= EndOf(h, st)
    BY <1>13, Zenon DEF c2, E
  <1>23. TagStep(h, hp, st, c, call, fd, b, t)
    BY <1>12, <1>14, <1>19, <1>20, <1>21, <1>22, Zenon
       DEF TagStep, c2, call2, type, n
  <1>. QED
    BY <1>23, Zenon DEF b, B

-----------------------------------------------------------------------------
(* The loop, and the end of an activation.                                 *)

LEMMA BodyFits ==
    ASSUME NEW h, Enc!SizableMessages(h), Readable(h)
    PROVE  Len(BodyOf(h)) \in Nat /\ Len(BodyOf(h)) <= SIZE_MAX
  <1>1. Len(BodyOf(h)) \in Nat /\ 1 \in DOMAIN h
    BY BodyOfTyped
  <1>2. Len(Body(h, 1)) = Sizes(h)[1]
    BY <1>1, BodyTyped
  <1>3. Enc!ComputeEncodedSize(h)[1] <= SIZE_MAX
    BY Zenon DEF Readable
  <1>. QED
    BY <1>1, <1>2, <1>3, Zenon DEF BodyOf, Sizes

TopStart(st) == st[Len(st)].start
TopSize(st) == st[Len(st)].size

\* What the top of the stack says of where its message ends.
LEMMA TopEnds ==
    ASSUME NEW h, Enc!SizableMessages(h), Readable(h), NEW hp, NEW st, NEW who,
           NEW got, NEW c, Static(h, hp, st, c, who, got)
    PROVE  /\ TopStart(st) \in Nat /\ TopSize(st) \in Nat
           /\ Len(st) = 1 => /\ TopStart(st) = 0 /\ TopSize(st) = SIZE_MAX
                             /\ EndOf(h, st) = Len(BodyOf(h))
                             /\ EndOf(h, st) <= SIZE_MAX
           /\ Len(st) # 1 => EndOf(h, st) = TopStart(st) + TopSize(st)
           /\ c \in Nat /\ EndOf(h, st) \in Nat /\ c <= EndOf(h, st)
           /\ EndOf(h, st) <= Len(BodyOf(h))
           /\ Len(BodyOf(h)) \in Nat
  <1>1. Activations(h, hp, st, who, got, c)
    BY Zenon DEF Static
  <1>2. /\ st[1].msg = 1 /\ st[1].start = 0 /\ st[1].size = SIZE_MAX
        /\ c \in Nat /\ c <= EndOf(h, st)
        /\ \A a \in DOMAIN st : st[a].start \in Nat /\ st[a].size \in Nat
        /\ Len(st) \in DOMAIN st
        /\ EndOf(h, st) \in Nat /\ EndOf(h, st) <= Len(BodyOf(h))
    BY <1>1, ActivationsAre
  <1>3. Len(BodyOf(h)) \in Nat /\ Len(BodyOf(h)) <= SIZE_MAX
    BY BodyFits
  <1>4. TopStart(st) \in Nat /\ TopSize(st) \in Nat
    BY <1>2, Zenon DEF TopStart, TopSize
  <1>5. Len(st) = 1 => /\ TopStart(st) = 0 /\ TopSize(st) = SIZE_MAX
                       /\ EndOf(h, st) = Len(BodyOf(h))
    BY <1>2, Zenon DEF TopStart, TopSize, EndOf, EndAt
  <1>6. Len(st) # 1 => EndOf(h, st) = TopStart(st) + TopSize(st)
    BY Zenon DEF TopStart, TopSize, EndOf, EndAt
  <1>. QED
    BY <1>2, <1>3, <1>4, <1>5, <1>6, Zenon

\* The innermost activation has read all of its message, and returns.
EndStep(h, hp, st, c, fd) ==
    /\ TopSize(st) = SIZE_MAX \/ c - TopStart(st) = TopSize(st)
    /\ Len(st) = 1 => \A call : Mirror(h, hp, <<>>, c, "done", call, fd, "true")
    /\ Len(st) # 1 =>
        \A call, res : Mirror(h, hp, SubSeq(st, 1, Len(st) - 1), c, "loop",
                              call, fd, res)

LEMMA EndSteps ==
    ASSUME NEW h, Enc!SizableMessages(h), Readable(h), NEW hp, NEW st, NEW who,
           NEW got, NEW c, Static(h, hp, st, c, who, got),
           FieldsOK(h, hp, who, got, Nowhere), NEW n, n = TopOf(st),
           Win(h, st, c) = Rest(h, who[n], got[n]), c = EndOf(h, st), NEW fd
    PROVE  EndStep(h, hp, st, c, fd)
  <1>1. /\ n \in DOMAIN hp /\ who[n] \in DOMAIN h
        /\ got[n] \in Counts(h, who[n])
        /\ Ordered(BodyOf(h), c, EndOf(h, st)) /\ BodyOf(h) \in Seq(Byte)
    BY PlaceOf, Zenon DEF Place
  <1>2. c \in Nat /\ EndOf(h, st) \in Nat /\ c <= EndOf(h, st)
        /\ EndOf(h, st) <= Len(BodyOf(h))
    BY <1>1, Zenon DEF Ordered
  <1>3. Activations(h, hp, st, who, got, c) /\ Finished(h, hp, st, who, got)
        /\ Objects(h, hp, who, got)
    BY Zenon DEF Static
  <1>4. Win(h, st, c) = <<>>
    BY <1>1, <1>2, WindowEmpty, Zenon DEF Win
  <1>5. IsDone(h, who[n], got[n])
    BY <1>1, <1>4, RestEmpty, Zenon
  <1>6. /\ TopStart(st) \in Nat /\ TopSize(st) \in Nat
        /\ Len(st) = 1 => TopSize(st) = SIZE_MAX
        /\ Len(st) # 1 => EndOf(h, st) = TopStart(st) + TopSize(st)
    BY TopEnds
  <1>0. c = EndOf(h, st) /\ n = TopOf(st)
    OBVIOUS
  <1>7. TopSize(st) = SIZE_MAX \/ c - TopStart(st) = TopSize(st)
    BY <1>0, <1>6
  <1>8. ASSUME Len(st) = 1, NEW call
        PROVE  Mirror(h, hp, <<>>, c, "done", call, fd, "true")
    <2>1. DOMAIN st = 1 .. Len(st) /\ Len(st) \in Nat \ {0}
      BY <1>3, ActivationsAre
    <2>2. \A a \in DOMAIN st : a = Len(st)
      BY <1>8, <2>1
    <2>3. \A j : OnStack(st, j) => j = n
      BY <1>0, <2>2, Zenon DEF OnStack, TopOf
    <2>4. \A j \in DOMAIN hp : IsDone(h, who[j], got[j])
      BY <1>3, <1>5, <2>3, Zenon DEF Finished
    <2>5. Finished(h, hp, <<>>, who, got)
      BY <2>4, Zenon DEF Finished
    <2>6. Gone(h, hp, <<>>, "done", "true", who, got)
      BY <1>3, <2>5, Zenon DEF Gone, Returned
    <2>. QED
      BY <2>6, GoneMirrors
  <1>9. ASSUME Len(st) # 1, NEW call, NEW res
        PROVE  Mirror(h, hp, SubSeq(st, 1, Len(st) - 1), c, "loop", call, fd, res)
    <2> DEFINE tt == SubSeq(st, 1, Len(st) - 1)
    <2>1. PopOK(h, hp, st, who, got, c, tt)
      BY <1>0, <1>3, <1>9, ActivationsPop
    <2> HIDE DEF tt
    <2>2. /\ Activations(h, hp, tt, who, got, c)
          /\ Window(BodyOf(h), c, EndOf(h, tt)) = Left(h, who, got, TopOf(tt))
          /\ \A j : OnStack(st, j) <=> OnStack(tt, j) \/ j = n
      BY <1>0, <2>1, Zenon DEF PopOK
    <2>3. Finished(h, hp, tt, who, got)
      BY <1>3, <1>5, <2>2, Zenon DEF Finished
    <2>4. Static(h, hp, tt, c, who, got)
      BY <1>3, <2>2, <2>3, Zenon DEF Static
    <2> DEFINE o == TopOf(tt)
               deep == (Len(tt) # 1)
               win == Win(h, tt, c)
    <2>5. win = Rest(h, who[o], got[o])
      BY <2>2, Zenon DEF Left, Win
    <2> HIDE DEF o, deep, win
    <2>6. Cursor(h, hp, o, who[o], got[o], win, deep, "loop", call, fd)
      BY <2>5, CursorsAre
    <2>7. Here(h, hp, tt, c, "loop", call, fd, who, got)
      BY <2>6, Zenon DEF Here, o, deep, win
    <2>8. FieldsOK(h, hp, who, got, But(tt, "loop", fd))
      BY Zenon DEF But
    <2>9. Going(h, hp, tt, c, "loop", call, fd, who, got)
      BY <2>4, <2>7, <2>8, Zenon DEF Going
    <2>10. Mirror(h, hp, tt, c, "loop", call, fd, res)
      BY <2>9, GoingMirrors
    <2>. QED
      BY <2>10, Zenon DEF tt
  <1>. QED
    BY <1>7, <1>8, <1>9, Zenon DEF EndStep

LoopStep(h, hp, st, c, fd) ==
    /\ c - TopStart(st) < TopSize(st) =>
        \A res : Mirror(h, hp, st, c, "tag", NewVarint, fd, res)
    /\ ~ (c - TopStart(st) < TopSize(st)) => EndStep(h, hp, st, c, fd)

LEMMA LoopSteps ==
    ASSUME NEW h, Enc!SizableMessages(h), Readable(h), NEW hp, NEW st, NEW who,
           NEW got, NEW c, NEW call, NEW fd,
           Going(h, hp, st, c, "loop", call, fd, who, got)
    PROVE  LoopStep(h, hp, st, c, fd)
  <1> DEFINE n == TopOf(st)
             m == who[n]
             d == got[n]
             E == EndOf(h, st)
             deep == (Len(st) # 1)
             win == Win(h, st, c)
  <1>1. /\ Static(h, hp, st, c, who, got)
        /\ FieldsOK(h, hp, who, got, Nowhere)
        /\ Here(h, hp, st, c, "loop", call, fd, who, got)
    <2>1. "loop" # "string"
      OBVIOUS
    <2>. QED
      BY <2>1, Zenon DEF Going, But
  <1>2. Ordered(BodyOf(h), c, E) /\ BodyOf(h) \in Seq(Byte) /\ n = TopOf(st)
    BY <1>1, PlaceOf, Zenon DEF Place
  <1>3. Cursor(h, hp, n, m, d, win, deep, "loop", call, fd)
    BY <1>1, Zenon DEF Here
  <1>4. /\ TopStart(st) \in Nat /\ TopSize(st) \in Nat
        /\ ~ deep => /\ TopStart(st) = 0 /\ TopSize(st) = SIZE_MAX
                     /\ E = Len(BodyOf(h)) /\ E <= SIZE_MAX
        /\ deep => E = TopStart(st) + TopSize(st)
        /\ c \in Nat /\ E \in Nat /\ c <= E
    BY <1>1, TopEnds
  <1>0. m = who[n] /\ d = got[n]
    OBVIOUS
  <1> HIDE DEF n, m, d, E, deep, win
  <1>5. win = Rest(h, m, d)
    BY <1>3, CursorsAre
  <1>6. ASSUME c - TopStart(st) < TopSize(st), NEW res
        PROVE  Mirror(h, hp, st, c, "tag", NewVarint, fd, res)
    <2>1. deep => win # <<>>
      <3>1. ASSUME deep
            PROVE  win # <<>>
        <4>1. c # E
          BY <1>4, <1>6, <3>1
        <4>2. E <= Len(BodyOf(h))
          BY <1>2, Zenon DEF Ordered
        <4>3. Window(BodyOf(h), c, E) # <<>>
          BY <1>2, <1>4, <4>1, <4>2, WindowEmpty
        <4>. QED
          BY <4>3, Zenon DEF win, Win, E
      <3>. QED
        BY <3>1
    <2> DEFINE v == NewVarint
    <2>2. v = NewVarint
      OBVIOUS
    <2> HIDE DEF v
    <2>3. Cursor(h, hp, n, m, d, win, deep, "tag", v, fd)
      BY <1>5, <2>1, <2>2, CursorsAre
    <2>4. Here(h, hp, st, c, "tag", v, fd, who, got)
      BY <2>3, Zenon DEF Here, n, m, d, win, deep
    <2>5. FieldsOK(h, hp, who, got, But(st, "tag", fd))
      <3>1. "tag" # "string"
        OBVIOUS
      <3>. QED
        BY <1>1, <3>1, Zenon DEF But
    <2>6. "tag" # "done"
      OBVIOUS
    <2>7. Going(h, hp, st, c, "tag", v, fd, who, got)
      BY <1>1, <2>4, <2>5, <2>6, Zenon DEF Going
    <2>8. Mirror(h, hp, st, c, "tag", v, fd, res)
      BY <2>7, GoingMirrors
    <2>. QED
      BY <2>2, <2>8, Zenon
  <1>7. ASSUME ~ (c - TopStart(st) < TopSize(st))
        PROVE  EndStep(h, hp, st, c, fd)
    <2>1. c = E
      BY <1>4, <1>7
    <2>2. Win(h, st, c) = Rest(h, who[n], got[n]) /\ c = EndOf(h, st)
      BY <1>0, <1>5, <2>1, Zenon DEF win, E
    <2>. QED
      BY <1>1, <1>2, <2>2, EndSteps
  <1>. QED
    BY <1>6, <1>7, Zenon DEF LoopStep

\* The tag of the outermost message cannot be read: its bytes are over.
LEMMA TagEnds ==
    ASSUME NEW h, Enc!SizableMessages(h), Readable(h), NEW hp, NEW st, NEW who,
           NEW got, NEW c, NEW call, NEW fd,
           Going(h, hp, st, c, "tag", call, fd, who, got), c = Len(BodyOf(h))
    PROVE  EndStep(h, hp, st, c, fd)
  <1> DEFINE n == TopOf(st)
             m == who[n]
             d == got[n]
             E == EndOf(h, st)
             deep == (Len(st) # 1)
             win == Win(h, st, c)
  <1>1. /\ Static(h, hp, st, c, who, got)
        /\ FieldsOK(h, hp, who, got, Nowhere)
        /\ Here(h, hp, st, c, "tag", call, fd, who, got)
    <2>1. "tag" # "string"
      OBVIOUS
    <2>. QED
      BY <2>1, Zenon DEF Going, But
  <1>2. n = TopOf(st)
    OBVIOUS
  <1>3. Cursor(h, hp, n, m, d, win, deep, "tag", call, fd)
    BY <1>1, Zenon DEF Here
  <1>4. c \in Nat /\ E \in Nat /\ c <= E /\ E <= Len(BodyOf(h))
    BY <1>1, TopEnds
  <1>0. m = who[n] /\ d = got[n] /\ c = Len(BodyOf(h))
    OBVIOUS
  <1> HIDE DEF n, m, d, E, deep, win
  <1>5. win = Rest(h, m, d)
    BY <1>3, CursorsAre
  <1>6. c = E
    BY <1>0, <1>4
  <1>7. Win(h, st, c) = Rest(h, who[n], got[n]) /\ c = EndOf(h, st)
    BY <1>0, <1>5, <1>6, Zenon DEF win, E
  <1>. QED
    BY <1>1, <1>2, <1>7, EndSteps

\* Before its last byte nothing else fails.
LEMMA NotAtEnd ==
    ASSUME NEW h, Enc!SizableMessages(h), Readable(h), NEW hp, NEW st, NEW who,
           NEW got, NEW c, NEW lbl, NEW call, NEW fd,
           Going(h, hp, st, c, lbl, call, fd, who, got),
           lbl \in NumberLabels \cup {"skipbytes", "string"}
    PROVE  c + 1 <= Len(BodyOf(h))
  <1>1. Static(h, hp, st, c, who, got)
    BY Zenon DEF Going
  <1>2. c \in Nat /\ EndOf(h, st) \in Nat /\ EndOf(h, st) <= Len(BodyOf(h))
        /\ Len(BodyOf(h)) \in Nat
    BY <1>1, TopEnds
  <1>3. c + 1 <= EndOf(h, st)
    <2>1. CASE lbl \in NumberLabels
      BY <2>1, NumberSteps, Zenon DEF NumberStep
    <2>2. CASE lbl = "skipbytes"
      BY <2>2, SkipSteps, Zenon DEF SkipStep
    <2>3. CASE lbl = "string"
      BY <2>3, StringSteps, Zenon DEF StringStep
    <2>. QED
      BY <2>1, <2>2, <2>3
  <1>. QED
    BY <1>2, <1>3

-----------------------------------------------------------------------------
(* The steps of the decoder.                                               *)

Mirroring(h) == Mirror(h, heap, stack, consumed, pc, rd, field, result)

LEMMA WireStarts ==
    ASSUME NEW t \in FieldTypes, NEW w, w = GetWireType(t)
    PROVE  /\ w \in {kVarint, kI64, kLen, kI32}
           /\ w = kLen => t \in LenTypes /\ StartOf(t) = NewVarint
           /\ w = kI64 => t \notin LenTypes /\ StartOf(t) = NewFixed(N64)
           /\ w = kI32 => t \notin LenTypes /\ StartOf(t) = NewFixed(N32)
           /\ w = kVarint => t \notin LenTypes /\ StartOf(t) = NewVarint
  BY DEF GetWireType, FieldTypes, VarintTypes, I32Types, I64Types, LenTypes,
         StartOf, kVarint, kI64, kLen, kI32

LEMMA KnownTag ==
    ASSUME NEW g, NEW t \in FieldTypes, g.type = t, ~ g.packed,
           Dec!DecodeField(g, GetWireType(t))
    PROVE  /\ field' = g /\ pc' = LenLabel(t, "len", "value")
           /\ rd' = StartOf(t) /\ stack' = stack /\ result' = result
  <1> DEFINE w == GetWireType(t)
  <1>1. /\ w \in {kVarint, kI64, kLen, kI32}
        /\ w = kLen => t \in LenTypes /\ StartOf(t) = NewVarint
        /\ w = kI64 => t \notin LenTypes /\ StartOf(t) = NewFixed(N64)
        /\ w = kI32 => t \notin LenTypes /\ StartOf(t) = NewFixed(N32)
        /\ w = kVarint => t \notin LenTypes /\ StartOf(t) = NewVarint
    BY WireStarts
  <1>2. Dec!GetWireType(g.type) = w
    BY SameReader, Zenon
  <1>3. Dec!DecodeField(g, w)
    OBVIOUS
  <1> HIDE DEF w
  <1>4. /\ field' = g
        /\ CASE w = Dec!kLen -> Dec!Goto("len", Dec!NewVarint)
             [] w = Dec!kI64 -> Dec!Goto("value", Dec!NewFixed(N64))
             [] w = Dec!kI32 -> Dec!Goto("value", Dec!NewFixed(N32))
             [] OTHER -> Dec!Goto("value", Dec!NewVarint)
    BY <1>2, <1>3 DEF Dec!DecodeField
  <1>5. /\ w = kLen => Dec!Goto("len", NewVarint)
        /\ w = kI64 => Dec!Goto("value", NewFixed(N64))
        /\ w = kI32 => Dec!Goto("value", NewFixed(N32))
        /\ w = kVarint => Dec!Goto("value", NewVarint)
    BY <1>4, SameReader DEF kLen, kI64, kI32, kVarint
  <1>6. /\ \/ Dec!Goto("len", StartOf(t)) /\ t \in LenTypes
           \/ Dec!Goto("value", StartOf(t)) /\ t \notin LenTypes
    BY <1>1, <1>5, Zenon
  <1>. QED
    BY <1>4, <1>6 DEF Dec!Goto, LenLabel

LEMMA UnknownTag ==
    ASSUME NEW t \in FieldTypes, Dec!SkipUnknownField(GetWireType(t))
    PROVE  /\ field' = field /\ pc' = LenLabel(t, "skiplen", "skip")
           /\ rd' = StartOf(t) /\ stack' = stack /\ result' = result
  <1> DEFINE w == GetWireType(t)
  <1>1. /\ w \in {kVarint, kI64, kLen, kI32}
        /\ w = kLen => t \in LenTypes /\ StartOf(t) = NewVarint
        /\ w = kI64 => t \notin LenTypes /\ StartOf(t) = NewFixed(N64)
        /\ w = kI32 => t \notin LenTypes /\ StartOf(t) = NewFixed(N32)
        /\ w = kVarint => t \notin LenTypes /\ StartOf(t) = NewVarint
    BY WireStarts
  <1>3. Dec!SkipUnknownField(w)
    OBVIOUS
  <1> HIDE DEF w
  <1>4. /\ field' = field
        /\ CASE w = Dec!kVarint -> Dec!Goto("skip", Dec!NewVarint)
             [] w = Dec!kI64 -> Dec!Goto("skip", Dec!NewFixed(N64))
             [] w = Dec!kI32 -> Dec!Goto("skip", Dec!NewFixed(N32))
             [] w = Dec!kLen -> Dec!Goto("skiplen", Dec!NewVarint)
             [] OTHER -> Dec!Goto("loop", Dec!NewVarint)
    BY <1>3 DEF Dec!SkipUnknownField
  <1>5. /\ w = kLen => Dec!Goto("skiplen", NewVarint)
        /\ w = kI64 => Dec!Goto("skip", NewFixed(N64))
        /\ w = kI32 => Dec!Goto("skip", NewFixed(N32))
        /\ w = kVarint => Dec!Goto("skip", NewVarint)
    BY <1>4, SameReader DEF kLen, kI64, kI32, kVarint
  <1>6. /\ \/ Dec!Goto("skiplen", StartOf(t)) /\ t \in LenTypes
           \/ Dec!Goto("skip", StartOf(t)) /\ t \notin LenTypes
    BY <1>1, <1>5, Zenon
  <1>. QED
    BY <1>4, <1>6 DEF Dec!Goto, LenLabel

LEMMA TagByteMirrors ==
    ASSUME NEW h, NEW b, NEW t, Dec!TagByte(b),
           TagStep(h, heap, stack, consumed, rd, field, b, t)
    PROVE  Mirroring(h)'
  <1> DEFINE type == heap[TopOf(stack)].type
             num == b \div 8
             g == Dec!FindFieldByNumber(type, num)
             c == consumed + 1
  <1>1. /\ Ends(rd, b) /\ ~ Overflows(rd, b) /\ ~ TooBig(rd, b)
        /\ Feed(rd, b).acc = b
        /\ t \in FieldTypes /\ b % 8 = GetWireType(t)
        /\ Dec!Known(type, num) =>
            /\ g.type = t /\ ~ g.packed
            /\ \A res : Mirror(h, heap, stack, c, LenLabel(t, "len", "value"),
                               StartOf(t), g, res)
        /\ ~ Dec!Known(type, num) =>
            \A res : Mirror(h, heap, stack, c, LenLabel(t, "skiplen", "skip"),
                            StartOf(t), field, res)
    BY Zenon DEF TagStep
  <1>2. /\ Dec!Ends(rd, b) /\ ~ Dec!Overflows(rd, b) /\ ~ Dec!TooBig(rd, b)
        /\ Dec!Feed(rd, b).acc = b
    BY <1>1, SameReader, Zenon
  <1>3. heap' = heap /\ consumed' = c
    BY DEF Dec!TagByte, Dec!CountByte
  <1>4. Dec!TagDecoded(b)
    <2>1. Dec!TagDecoded(Dec!Feed(rd, b).acc)
      BY <1>2, Zenon DEF Dec!TagByte
    <2>. QED
      BY <1>2, <2>1
  <1>5. /\ Dec!Known(type, num) =>
                Dec!DecodeField(Dec!FindFieldByNumber(type, num), GetWireType(t))
        /\ ~ Dec!Known(type, num) => Dec!SkipUnknownField(GetWireType(t))
    <2>1. Dec!Top.msg = TopOf(stack)
      BY DEF Dec!Top, TopOf
    <2>. QED
      BY <1>1, <1>4, <2>1, Zenon DEF Dec!TagDecoded
  <1> HIDE DEF type, num, g, c
  <1>6. CASE Dec!Known(type, num)
    <2>1. g.type = t /\ ~ g.packed /\ t \in FieldTypes
          /\ Dec!DecodeField(g, GetWireType(t))
      BY <1>1, <1>5, <1>6, Zenon DEF g
    <2>2. /\ field' = g /\ pc' = LenLabel(t, "len", "value")
          /\ rd' = StartOf(t) /\ stack' = stack /\ result' = result
      BY <2>1, KnownTag
    <2>3. Mirror(h, heap, stack, c, LenLabel(t, "len", "value"), StartOf(t), g,
                 result)
      BY <1>1, <1>6, Zenon
    <2>. QED
      BY <1>3, <2>2, <2>3, Zenon DEF Mirroring
  <1>7. CASE ~ Dec!Known(type, num)
    <2>1. t \in FieldTypes /\ Dec!SkipUnknownField(GetWireType(t))
      BY <1>1, <1>5, <1>7, Zenon
    <2>2. /\ field' = field /\ pc' = LenLabel(t, "skiplen", "skip")
          /\ rd' = StartOf(t) /\ stack' = stack /\ result' = result
      BY <2>1, UnknownTag
    <2>3. Mirror(h, heap, stack, c, LenLabel(t, "skiplen", "skip"), StartOf(t),
                 field, result)
      BY <1>1, <1>7, Zenon
    <2>. QED
      BY <1>3, <2>2, <2>3, Zenon DEF Mirroring
  <1>. QED
    BY <1>6, <1>7

GoingOn(h, lbl) ==
    \E who, got : Going(h, heap, stack, consumed, lbl, rd, field, who, got)

LEMMA MirroringGoes ==
    ASSUME NEW h, Mirroring(h), NEW lbl, pc = lbl, lbl # "done"
    PROVE  GoingOn(h, lbl)
  <1>1. PICK who, got :
            Follows(h, heap, stack, consumed, pc, rd, field, result, who, got)
    BY Zenon DEF Mirroring, Mirror
  <1>2. ~ Gone(h, heap, stack, pc, result, who, got)
    BY Zenon DEF Gone, Returned
  <1>3. Going(h, heap, stack, consumed, pc, rd, field, who, got)
    BY <1>1, <1>2, FollowsIs, Zenon
  <1>. QED
    BY <1>3, Zenon DEF GoingOn

\* What a byte of a number leads to, in terms of the variables.
LEMMA NumberByte ==
    ASSUME NEW h, Enc!SizableMessages(h), Mirroring(h), NEW lbl \in NumberLabels,
           pc = lbl, NEW b, b = BodyOf(h)[consumed + 1]
    PROVE  \E who, got :
            NumberStep(h, heap, stack, consumed, lbl, rd, field, who, got, b)
  <1>1. lbl # "done"
    BY DEF NumberLabels
  <1>2. PICK who, got : Going(h, heap, stack, consumed, lbl, rd, field, who, got)
    BY <1>1, MirroringGoes, Zenon DEF GoingOn
  <1>3. NumberStep(h, heap, stack, consumed, lbl, rd, field, who, got,
                   BodyOf(h)[consumed + 1])
    BY <1>2, NumberSteps
  <1>. QED
    BY <1>3, Zenon

LEMMA NumberGoes ==
    ASSUME NEW h, NEW lbl, NEW b, NEW who, NEW got,
           NumberStep(h, heap, stack, consumed, lbl, rd, field, who, got, b),
           ~ Ends(rd, b), pc' = lbl, rd' = Feed(rd, b), heap' = heap,
           stack' = stack, field' = field, consumed' = consumed + 1
    PROVE  Mirroring(h)'
  <1> DEFINE c == consumed + 1
             r == Feed(rd, b)
  <1>1. Going(h, heap, stack, c, lbl, r, field, who, got)
    BY Zenon DEF NumberStep
  <1>2. rd' = r /\ consumed' = c
    OBVIOUS
  <1> HIDE DEF c, r
  <1>3. Mirror(h, heap, stack, c, lbl, r, field, result')
    BY <1>1, GoingMirrors
  <1>. QED
    BY <1>2, <1>3, Zenon DEF Mirroring

\* A number has been read.
LEMMA NumberComes ==
    ASSUME NEW h, NEW lbl, NEW b, NEW who, NEW got,
           NumberStep(h, heap, stack, consumed, lbl, rd, field, who, got, b),
           Ends(rd, b), NEW c, c = consumed + 1, NEW w, w = Feed(rd, b).acc
    PROVE  /\ Static(h, heap, stack, c, who, got)
           /\ FieldsOK(h, heap, who, got, Nowhere)
           /\ NumberCame(h, heap, stack, c, lbl, field, w, who, got)
  BY Zenon DEF NumberStep

LEMMA SkipByteMirrors ==
    ASSUME NEW h, Enc!SizableMessages(h), Readable(h), Mirroring(h),
           NEW b, b = BodyOf(h)[consumed + 1], Dec!SkipByte(b)
    PROVE  Mirroring(h)'
  <1>1. pc = "skip" /\ "skip" \in NumberLabels
    BY DEF Dec!SkipByte, NumberLabels
  <1>2. PICK who, got :
            NumberStep(h, heap, stack, consumed, "skip", rd, field, who, got, b)
    BY <1>1, NumberByte
  <1>3. ~ Overflows(rd, b)
    BY <1>2, Zenon DEF NumberStep
  <1>4. /\ ~ Dec!Overflows(rd, b) /\ (Dec!Ends(rd, b) <=> Ends(rd, b))
        /\ Dec!Feed(rd, b) = Feed(rd, b) /\ Dec!NewVarint = NewVarint
    BY <1>3, SameReader, Zenon
  <1>5. /\ consumed' = consumed + 1 /\ field' = field /\ heap' = heap
        /\ IF Ends(rd, b) THEN Dec!Goto("loop", NewVarint)
           ELSE Dec!Goto("skip", Feed(rd, b))
    BY <1>4 DEF Dec!SkipByte, Dec!CountByte
  <1>6. CASE Ends(rd, b)
    <2>1. /\ pc' = "loop" /\ rd' = NewVarint /\ stack' = stack
          /\ result' = result
      BY <1>5, <1>6 DEF Dec!Goto
    <2> DEFINE c == consumed + 1
               w == Feed(rd, b).acc
               v == NewVarint
    <2>2. /\ Static(h, heap, stack, c, who, got)
          /\ FieldsOK(h, heap, who, got, Nowhere)
          /\ NumberCame(h, heap, stack, c, "skip", field, w, who, got)
      BY <1>2, <1>6, NumberComes
    <2>3. consumed' = c /\ rd' = v
      BY <1>5, <2>1
    <2> HIDE DEF c, w, v
    <2>4. Mirror(h, heap, stack, c, "loop", v, field, result)
      BY <2>2, SkipEnds
    <2>. QED
      BY <1>5, <2>1, <2>3, <2>4, Zenon DEF Mirroring
  <1>7. CASE ~ Ends(rd, b)
    <2>1. /\ pc' = "skip" /\ rd' = Feed(rd, b) /\ stack' = stack
          /\ result' = result
      BY <1>5, <1>7 DEF Dec!Goto
    <2>. QED
      BY <1>2, <1>5, <1>7, <2>1, NumberGoes
  <1>. QED
    BY <1>6, <1>7

LEMMA SkipLenByteMirrors ==
    ASSUME NEW h, Enc!SizableMessages(h), Readable(h), Mirroring(h),
           NEW b, b = BodyOf(h)[consumed + 1], Dec!SkipLenByte(b)
    PROVE  Mirroring(h)'
  <1>1. pc = "skiplen" /\ "skiplen" \in NumberLabels
    BY DEF Dec!SkipLenByte, NumberLabels
  <1>2. PICK who, got :
            NumberStep(h, heap, stack, consumed, "skiplen", rd, field, who, got, b)
    BY <1>1, NumberByte
  <1>3. ~ Overflows(rd, b)
    BY <1>2, Zenon DEF NumberStep
  <1>4. /\ ~ Dec!Overflows(rd, b) /\ (Dec!Ends(rd, b) <=> Ends(rd, b))
        /\ Dec!Feed(rd, b) = Feed(rd, b)
        /\ Dec!TooBig(rd, b) <=> TooBig(rd, b)
        /\ \A k : Dec!NewFixed(k) = NewFixed(k)
    BY <1>3, SameReader, Zenon
  <1>5. /\ consumed' = consumed + 1 /\ field' = field /\ heap' = heap
    BY DEF Dec!SkipLenByte, Dec!CountByte
  <1>6. CASE Ends(rd, b)
    <2> DEFINE c == consumed + 1
               w == Feed(rd, b).acc
               v == NewFixed(w)
               lbl == IF w = 0 THEN "loop" ELSE "skipbytes"
    <2>1. /\ Static(h, heap, stack, c, who, got)
          /\ FieldsOK(h, heap, who, got, Nowhere)
          /\ NumberCame(h, heap, stack, c, "skiplen", field, w, who, got)
      BY <1>2, <1>6, NumberComes
    <2> HIDE DEF c, w
    <2>2. w < U32 /\ Mirror(h, heap, stack, c, lbl, v, field, result)
      BY <2>1, SkipLenEnds
    <2>3. ~ TooBig(rd, b)
      <3>1. w \in Nat
        <4>1. TopOf(stack) \in DOMAIN heap /\ who[TopOf(stack)] \in DOMAIN h
          BY <2>1, PlaceOf, Zenon DEF Place
        <4>2. \E i \in FieldsOf(h, who[TopOf(stack)]) :
                NumberDone(h, who[TopOf(stack)], got[TopOf(stack)], i,
                           Win(h, stack, c), w)
          BY <2>1, Zenon DEF NumberCame
        <4>3. w \in 0 .. (U64 - 1)
          BY <4>1, <4>2, NumberIsRead
        <4>. QED
          BY <4>3, WireAssumption
      <3>2. ~ (w >= U32)
        BY <2>2, <3>1, WireAssumption
      <3>. QED
        BY <3>2, Zenon DEF TooBig, w
    <2>4. Dec!Goto(lbl, v)
      BY <1>4, <1>6, <2>3, Zenon DEF Dec!SkipLenByte, lbl, v, w
    <2>5. pc' = lbl /\ rd' = v /\ stack' = stack /\ result' = result
      BY <2>4 DEF Dec!Goto
    <2>6. consumed' = c
      BY <1>5, Zenon DEF c
    <2>. QED
      BY <1>5, <2>2, <2>5, <2>6, Zenon DEF Mirroring
  <1>7. CASE ~ Ends(rd, b)
    <2>1. Dec!Goto("skiplen", Feed(rd, b))
      <3>1. ~ TooBig(rd, b)
        BY <1>7, Zenon DEF TooBig
      <3>. QED
        BY <1>4, <1>7, <3>1, Zenon DEF Dec!SkipLenByte
    <2>2. /\ pc' = "skiplen" /\ rd' = Feed(rd, b) /\ stack' = stack
          /\ result' = result
      BY <2>1 DEF Dec!Goto
    <2>. QED
      BY <1>2, <1>5, <1>7, <2>2, NumberGoes
  <1>. QED
    BY <1>6, <1>7

LEMMA ValueByteMirrors ==
    ASSUME NEW h, Enc!SizableMessages(h), Readable(h), Mirroring(h),
           NEW b, b = BodyOf(h)[consumed + 1], Dec!ValueByte(b)
    PROVE  Mirroring(h)'
  <1>1. pc = "value" /\ "value" \in NumberLabels
    BY DEF Dec!ValueByte, NumberLabels
  <1>2. PICK who, got :
            NumberStep(h, heap, stack, consumed, "value", rd, field, who, got, b)
    BY <1>1, NumberByte
  <1>3. ~ Overflows(rd, b)
    BY <1>2, Zenon DEF NumberStep
  <1>4. /\ ~ Dec!Overflows(rd, b) /\ (Dec!Ends(rd, b) <=> Ends(rd, b))
        /\ Dec!Feed(rd, b) = Feed(rd, b) /\ Dec!NewVarint = NewVarint
        /\ \A t, u : Dec!Convert(t, u) = Convert(t, u)
    BY <1>3, SameReader, Zenon
  <1>5. consumed' = consumed + 1 /\ field' = field
    BY DEF Dec!ValueByte, Dec!CountByte
  <1>6. CASE Ends(rd, b)
    <2> DEFINE c == consumed + 1
               w == Feed(rd, b).acc
               v == NewVarint
               hq == Dec!Store(heap, TopOf(stack), field, Convert(field.type, w))
    <2>1. /\ Static(h, heap, stack, c, who, got)
          /\ FieldsOK(h, heap, who, got, Nowhere)
          /\ NumberCame(h, heap, stack, c, "value", field, w, who, got)
      BY <1>2, <1>6, NumberComes
    <2>2. heap' = hq
      <3>1. heap' = Dec!Store(heap, Dec!Top.msg, field,
                              Dec!Convert(field.type, Dec!Feed(rd, b).acc))
        BY <1>4, <1>6, Zenon DEF Dec!ValueByte
      <3>2. Dec!Top.msg = TopOf(stack)
        BY DEF Dec!Top, TopOf
      <3>3. Dec!Convert(field.type, Dec!Feed(rd, b).acc) = Convert(field.type, w)
        BY <1>4, Zenon
      <3> HIDE DEF w
      <3>. QED
        BY <3>1, <3>2, <3>3, Zenon
    <2>3. Dec!Goto("loop", v)
      BY <1>4, <1>6, Zenon DEF Dec!ValueByte
    <2> HIDE DEF c, w, v
    <2>4. Mirror(h, hq, stack, c, "loop", v, field, result)
      BY <2>1, ValueEnds
    <2> HIDE DEF hq
    <2>5. pc' = "loop" /\ rd' = v /\ stack' = stack /\ result' = result
      BY <2>3 DEF Dec!Goto
    <2>6. consumed' = c
      BY <1>5, Zenon DEF c
    <2>. QED
      BY <1>5, <2>2, <2>4, <2>5, <2>6, Zenon DEF Mirroring
  <1>7. CASE ~ Ends(rd, b)
    <2>1. Dec!Goto("value", Feed(rd, b)) /\ heap' = heap
      BY <1>4, <1>7, Zenon DEF Dec!ValueByte
    <2>2. /\ pc' = "value" /\ rd' = Feed(rd, b) /\ stack' = stack
      BY <2>1 DEF Dec!Goto
    <2>. QED
      BY <1>2, <1>5, <1>7, <2>1, <2>2, NumberGoes
  <1>. QED
    BY <1>6, <1>7

\* The length of a payload fits in 32 bits.
LEMMA LengthFits ==
    ASSUME NEW h, Enc!SizableMessages(h), Readable(h), NEW hp, NEW st, NEW c,
           NEW g, NEW w, NEW who, NEW got, Static(h, hp, st, c, who, got),
           NumberCame(h, hp, st, c, "len", g, w, who, got)
    PROVE  w \in Nat /\ ~ (w >= U32) /\ g.type \in {"string", "message"}
  <1> DEFINE n == TopOf(st)
             m == who[n]
             d == got[n]
             win == Win(h, st, c)
  <1>0. m = who[n] /\ Objects(h, hp, who, got)
    BY DEF Static
  <1>1. n \in DOMAIN hp /\ m \in DOMAIN h /\ d \in Counts(h, m)
    BY PlaceOf, Zenon DEF Place
  <1>2. PICK i : NumberDone(h, m, d, i, win, w) /\ About(h, hp, n, m, i, "len", g)
    BY Zenon DEF NumberCame
  <1> HIDE DEF n, m, d, win
  <1>3. /\ i \in FieldsOf(h, m) /\ d[i] + 1 <= Len(Elems(h, m, i))
        /\ w \in 0 .. (U64 - 1)
        /\ FieldOf(h, m, i).type \in LenTypes => w < U32
    BY <1>1, <1>2, NumberIsRead
  <1>4. IsField(h, hp, n, m, i, g) /\ g.type \in LenTypes
    BY <1>2 DEF About
  <1>7. g.type = FieldOf(h, m, i).type
    BY <1>0, <1>1, <1>3, <1>4, FieldAgrees
  <1>8. g.type \in {"string", "message"}
    <2>1. d \in Counts(h, m)
      BY <1>1
    <2>2. i \in FieldsOf(h, m) /\ d[i] + 1 <= Len(Elems(h, m, i))
      BY <1>3
    <2>3. d[i] + 1 \in DOMAIN Elems(h, m, i)
      BY <1>1, <2>1, <2>2, CountOf
    <2>4. Enc!Sizable(h, m, FieldOf(h, m, i), Elems(h, m, i)[d[i] + 1])
      BY <1>1, <2>2, <2>3, ElemsAreSizable, Zenon DEF FieldsOf
    <2>5. FieldOf(h, m, i).type \in FieldTypes /\ FieldOf(h, m, i).type # "bytes"
      BY <2>4, SizableType
    <2>. QED
      BY <2>5, <1>4, <1>7 DEF LenTypes
  <1>9. w \in Nat /\ w < U32 /\ U32 \in Nat
    BY <1>3, <1>4, <1>7, WireAssumption
  <1>. QED
    BY <1>8, <1>9

\* A length comes, in terms of the variables.
LEMMA LengthComes ==
    ASSUME NEW h, Enc!SizableMessages(h), Readable(h), NEW b, NEW who, NEW got,
           NumberStep(h, heap, stack, consumed, "len", rd, field, who, got, b),
           Dec!LenByte(b), Ends(rd, b), NEW w, w = Feed(rd, b).acc
    PROVE  \/ field.type = "string" /\ Dec!EnterString(w)
           \/ field.type = "message" /\ Dec!EnterSubMessage(w)
  <1> DEFINE c == consumed + 1
  <1>1. /\ Static(h, heap, stack, c, who, got)
        /\ FieldsOK(h, heap, who, got, Nowhere)
        /\ NumberCame(h, heap, stack, c, "len", field, w, who, got)
    BY NumberComes
  <1> HIDE DEF c
  <1>2. ~ (w >= U32) /\ field.type \in {"string", "message"}
    BY <1>1, LengthFits
  <1>3. ~ TooBig(rd, b)
    BY <1>2, Zenon DEF TooBig
  <1>4. ~ Overflows(rd, b)
    BY Zenon DEF NumberStep
  <1>5. /\ ~ Dec!Overflows(rd, b) /\ Dec!Ends(rd, b) /\ ~ Dec!TooBig(rd, b)
        /\ Dec!Feed(rd, b).acc = w
    BY <1>3, <1>4, SameReader, Zenon
  <1>6. field.type # "bytes"
    BY <1>2
  <1>. QED
    BY <1>5, <1>6, Zenon DEF Dec!LenByte

LEMMA StringIsEntered ==
    ASSUME NEW h, Enc!SizableMessages(h), Readable(h), NEW b, NEW who, NEW got,
           NumberStep(h, heap, stack, consumed, "len", rd, field, who, got, b),
           Ends(rd, b), field.type = "string", Dec!EnterString(Feed(rd, b).acc),
           consumed' = consumed + 1, field' = field
    PROVE  Mirroring(h)'
  <1> DEFINE c == consumed + 1
             w == Feed(rd, b).acc
             v == NewFixed(w)
             lbl == IF w = 0 THEN "loop" ELSE "string"
             hq == Dec!Store(heap, TopOf(stack), field, <<>>)
  <1>1. /\ Static(h, heap, stack, c, who, got)
        /\ FieldsOK(h, heap, who, got, Nowhere)
        /\ NumberCame(h, heap, stack, c, "len", field, w, who, got)
    BY NumberComes
  <1>2. heap' = hq
    <2>1. heap' = Dec!Store(heap, Dec!Top.msg, field, <<>>)
      BY Zenon DEF Dec!EnterString
    <2>2. Dec!Top.msg = TopOf(stack)
      BY DEF Dec!Top, TopOf
    <2>. QED
      BY <2>1, <2>2, Zenon
  <1>3. Dec!Goto(lbl, v)
    <2>1. Dec!NewFixed(w) = v
      BY SameReader, Zenon
    <2>2. Dec!Goto(lbl, Dec!NewFixed(w))
      BY Zenon DEF Dec!EnterString
    <2> HIDE DEF lbl, v
    <2>. QED
      BY <2>1, <2>2, Zenon
  <1> HIDE DEF c, w
  <1>4. Mirror(h, hq, stack, c, lbl, v, field, result)
    BY <1>1, StringEnters
  <1> HIDE DEF hq, v, lbl
  <1>5. pc' = lbl /\ rd' = v /\ stack' = stack /\ result' = result
    BY <1>3 DEF Dec!Goto
  <1>6. consumed' = c
    BY Zenon DEF c
  <1>. QED
    BY <1>2, <1>4, <1>5, <1>6, Zenon DEF Mirroring

LEMMA SubMessageIsEntered ==
    ASSUME NEW h, Enc!SizableMessages(h), Readable(h), NEW b, NEW who, NEW got,
           NumberStep(h, heap, stack, consumed, "len", rd, field, who, got, b),
           Ends(rd, b), field.type = "message",
           Dec!EnterSubMessage(Feed(rd, b).acc),
           consumed' = consumed + 1, field' = field
    PROVE  Mirroring(h)'
  <1> DEFINE c == consumed + 1
             w == Feed(rd, b).acc
             n == TopOf(stack)
             new == Len(heap) + 1
             fr == [msg |-> new, via |-> field, start |-> c, size |-> w]
             hq == Append(Dec!Store(heap, n, field, new), Dec!NewMessage(field.sub))
  <1>1. /\ Static(h, heap, stack, c, who, got)
        /\ FieldsOK(h, heap, who, got, Nowhere)
        /\ NumberCame(h, heap, stack, c, "len", field, w, who, got)
    BY NumberComes
  <1>2. fr.msg = new /\ fr.start = c /\ fr.size = w
    OBVIOUS
  <1>3. EntersOK(h, heap, stack, c, field, fr, result)
    <2> HIDE DEF c, w, n, fr
    <2>. QED
      BY <1>1, <1>2, MessageEnters
  <1>4. /\ ~ field.repeated => heap[n].val[field.num] = 0
        /\ Mirror(h, hq, Append(stack, fr), c, "loop", NewVarint, field, result)
    BY <1>3, Zenon DEF EntersOK
  <1>5. Dec!Top.msg = n
    BY DEF Dec!Top, TopOf
  <1>6. ~ Dec!IsMerge(n, field)
    BY <1>4, Zenon DEF Dec!IsMerge
  <1>7. Dec!SubMessage(n, field) = new
    BY <1>6, Zenon DEF Dec!SubMessage
  <1>8. /\ heap' = Append(Dec!Store(heap, n, field, Dec!SubMessage(n, field)),
                          Dec!NewMessage(field.sub))
        /\ stack' = Append(stack, [msg |-> Dec!SubMessage(n, field),
                                   via |-> field, start |-> c, size |-> w])
        /\ pc' = "loop" /\ rd' = Dec!NewVarint /\ result' = result
    <2> DEFINE m == Dec!Top.msg
    <2>1. /\ heap' = IF Dec!IsMerge(m, field) THEN heap
                     ELSE Append(Dec!Store(heap, m, field, Dec!SubMessage(m, field)),
                                 Dec!NewMessage(field.sub))
          /\ stack' = Append(stack, [msg |-> Dec!SubMessage(m, field),
                                     via |-> field, start |-> c, size |-> w])
          /\ pc' = "loop" /\ rd' = Dec!NewVarint /\ result' = result
      BY Zenon DEF Dec!EnterSubMessage
    <2>2. m = n
      BY <1>5
    <2> HIDE DEF m, n, w, c
    <2>. QED
      BY <1>6, <2>1, <2>2, Zenon
  <1>9. rd' = NewVarint
    BY <1>8, SameReader, Zenon
  <1>10. heap' = hq /\ stack' = Append(stack, fr)
    <2> HIDE DEF n, new, w, c
    <2>. QED
      BY <1>7, <1>8, Zenon
  <1> HIDE DEF hq, fr, n
  <1>. QED
    BY <1>4, <1>8, <1>9, <1>10, Zenon DEF Mirroring

LEMMA LenByteMirrors ==
    ASSUME NEW h, Enc!SizableMessages(h), Readable(h), Mirroring(h),
           NEW b, b = BodyOf(h)[consumed + 1], Dec!LenByte(b)
    PROVE  Mirroring(h)'
  <1>1. pc = "len" /\ "len" \in NumberLabels
    BY DEF Dec!LenByte, NumberLabels
  <1>2. PICK who, got :
            NumberStep(h, heap, stack, consumed, "len", rd, field, who, got, b)
    BY <1>1, NumberByte
  <1>3. consumed' = consumed + 1 /\ field' = field
    BY DEF Dec!LenByte, Dec!CountByte
  <1>4. CASE Ends(rd, b)
    <2>1. \/ field.type = "string" /\ Dec!EnterString(Feed(rd, b).acc)
          \/ field.type = "message" /\ Dec!EnterSubMessage(Feed(rd, b).acc)
      BY <1>2, <1>4, LengthComes
    <2>2. CASE field.type = "string" /\ Dec!EnterString(Feed(rd, b).acc)
      BY <1>2, <1>3, <1>4, <2>2, StringIsEntered
    <2>3. CASE field.type = "message" /\ Dec!EnterSubMessage(Feed(rd, b).acc)
      BY <1>2, <1>3, <1>4, <2>3, SubMessageIsEntered
    <2>. QED
      BY <2>1, <2>2, <2>3
  <1>5. CASE ~ Ends(rd, b)
    <2>1. ~ Overflows(rd, b)
      BY <1>2, Zenon DEF NumberStep
    <2>2. ~ TooBig(rd, b)
      BY <1>5, Zenon DEF TooBig
    <2>3. /\ ~ Dec!Overflows(rd, b) /\ ~ Dec!Ends(rd, b) /\ ~ Dec!TooBig(rd, b)
          /\ Dec!Feed(rd, b) = Feed(rd, b)
      BY <1>5, <2>1, <2>2, SameReader, Zenon
    <2>4. Dec!Goto("len", Feed(rd, b)) /\ heap' = heap
      BY <2>3, Zenon DEF Dec!LenByte
    <2>5. /\ pc' = "len" /\ rd' = Feed(rd, b) /\ stack' = stack
      BY <2>4 DEF Dec!Goto
    <2>. QED
      BY <1>2, <1>3, <1>5, <2>4, <2>5, NumberGoes
  <1>. QED
    BY <1>4, <1>5

LEMMA StringByteMirrors ==
    ASSUME NEW h, Enc!SizableMessages(h), Readable(h), Mirroring(h),
           NEW b, b = BodyOf(h)[consumed + 1], Dec!StringByte(b)
    PROVE  Mirroring(h)'
  <1>1. pc = "string" /\ "string" # "done"
    BY DEF Dec!StringByte
  <1>2. PICK who, got : Going(h, heap, stack, consumed, "string", rd, field, who, got)
    BY <1>1, MirroringGoes, Zenon DEF GoingOn
  <1>3. StringStep(h, heap, stack, consumed, rd, field, b)
    BY <1>2, StringSteps
  <1> DEFINE c == consumed + 1
             v == NewFixed(rd.left - 1)
             lbl == IF rd.left = 1 THEN "loop" ELSE "string"
             hq == Dec!PushBack(heap, TopOf(stack), field, b)
  <1>4. Mirror(h, hq, stack, c, lbl, v, field, result)
    BY <1>3, Zenon DEF StringStep
  <1>5. Dec!Top.msg = TopOf(stack) /\ Dec!NewFixed(rd.left - 1) = v
    BY SameReader, Zenon DEF Dec!Top, TopOf
  <1>6. /\ heap' = hq /\ consumed' = c /\ field' = field
        /\ Dec!Goto(lbl, v)
    BY <1>5, Zenon DEF Dec!StringByte, Dec!CountByte
  <1> HIDE DEF hq, v, lbl, c
  <1>7. pc' = lbl /\ rd' = v /\ stack' = stack /\ result' = result
    BY <1>6 DEF Dec!Goto
  <1>. QED
    BY <1>4, <1>6, <1>7, Zenon DEF Mirroring

LEMMA SkipPayloadByteMirrors ==
    ASSUME NEW h, Enc!SizableMessages(h), Readable(h), Mirroring(h),
           Dec!SkipPayloadByte
    PROVE  Mirroring(h)'
  <1>1. pc = "skipbytes" /\ "skipbytes" # "done"
    BY DEF Dec!SkipPayloadByte
  <1>2. PICK who, got :
            Going(h, heap, stack, consumed, "skipbytes", rd, field, who, got)
    BY <1>1, MirroringGoes, Zenon DEF GoingOn
  <1>3. SkipStep(h, heap, stack, consumed, rd, field, BodyOf(h)[consumed + 1])
    BY <1>2, SkipSteps
  <1> DEFINE c == consumed + 1
             v == NewFixed(rd.left - 1)
             lbl == IF rd.left = 1 THEN "loop" ELSE "skipbytes"
  <1>4. Mirror(h, heap, stack, c, lbl, v, field, result)
    BY <1>3, Zenon DEF SkipStep
  <1>5. Dec!NewFixed(rd.left - 1) = v
    BY SameReader, Zenon
  <1>6. /\ heap' = heap /\ consumed' = c /\ field' = field
        /\ Dec!Goto(lbl, v)
    BY <1>5, Zenon DEF Dec!SkipPayloadByte, Dec!SkipOne, Dec!CountByte
  <1> HIDE DEF v, lbl, c
  <1>7. pc' = lbl /\ rd' = v /\ stack' = stack /\ result' = result
    BY <1>6 DEF Dec!Goto
  <1>. QED
    BY <1>4, <1>6, <1>7, Zenon DEF Mirroring

\* The tag of an element is the next byte, if there is one.
LEMMA TagByteComes ==
    ASSUME NEW h, Enc!SizableMessages(h), Readable(h), Mirroring(h),
           consumed + 1 <= Len(BodyOf(h)),
           NEW b, b = BodyOf(h)[consumed + 1], Dec!TagByte(b)
    PROVE  Mirroring(h)'
  <1>1. pc = "tag" /\ "tag" # "done"
    BY DEF Dec!TagByte
  <1>2. PICK who, got : Going(h, heap, stack, consumed, "tag", rd, field, who, got)
    BY <1>1, MirroringGoes, Zenon DEF GoingOn
  <1>3. PICK t : TagStep(h, heap, stack, consumed, rd, field,
                         BodyOf(h)[consumed + 1], t)
    BY <1>2, TagSteps
  <1>4. TagStep(h, heap, stack, consumed, rd, field, b, t)
    BY <1>3
  <1>. QED
    BY <1>4, TagByteMirrors

\* The end of an activation.
LEMMA EndMirrors ==
    ASSUME NEW h, EndStep(h, heap, stack, consumed, field),
           Dec!EndOfMessage(consumed), consumed' = consumed, heap' = heap,
           field' = field
    PROVE  Mirroring(h)'
  <1>1. TopSize(stack) = SIZE_MAX \/ consumed - TopStart(stack) = TopSize(stack)
    BY Zenon DEF EndStep
  <1>2. Dec!Top.size = TopSize(stack) /\ Dec!Top.start = TopStart(stack)
    BY DEF Dec!Top, TopSize, TopStart
  <1>3. Dec!ReturnTrue
    <2>1. Dec!Top.size = SIZE_MAX \/ consumed - Dec!Top.start = Dec!Top.size
      BY <1>1, <1>2
    <2>. QED
      BY <2>1, Zenon DEF Dec!EndOfMessage
  <1>4. CASE Len(stack) = 1
    <2>1. pc' = "done" /\ result' = "true" /\ stack' = <<>>
      BY <1>3, <1>4 DEF Dec!ReturnTrue
    <2>2. Mirror(h, heap, <<>>, consumed, "done", rd', field, "true")
      BY <1>4, Zenon DEF EndStep
    <2>. QED
      BY <2>1, <2>2, Zenon DEF Mirroring
  <1>5. CASE Len(stack) # 1
    <2> DEFINE st == SubSeq(stack, 1, Len(stack) - 1)
    <2>1. pc' = "loop" /\ result' = result /\ stack' = st
      BY <1>3, <1>5 DEF Dec!ReturnTrue
    <2>2. Mirror(h, heap, st, consumed, "loop", rd', field, result)
      BY <1>5, Zenon DEF EndStep
    <2> HIDE DEF st
    <2>. QED
      BY <2>1, <2>2, Zenon DEF Mirroring
  <1>. QED
    BY <1>4, <1>5

LEMMA LoopHeadMirrors ==
    ASSUME NEW h, Enc!SizableMessages(h), Readable(h), Mirroring(h), Dec!LoopHead
    PROVE  Mirroring(h)'
  <1>1. pc = "loop" /\ "loop" # "done"
    BY DEF Dec!LoopHead
  <1>2. PICK who, got : Going(h, heap, stack, consumed, "loop", rd, field, who, got)
    BY <1>1, MirroringGoes, Zenon DEF GoingOn
  <1>3. LoopStep(h, heap, stack, consumed, field)
    BY <1>2, LoopSteps
  <1>4. consumed' = consumed /\ heap' = heap /\ field' = field
    BY DEF Dec!LoopHead
  <1>5. Dec!Top.size = TopSize(stack) /\ Dec!Top.start = TopStart(stack)
    BY DEF Dec!Top, TopSize, TopStart
  <1> DEFINE more == consumed - TopStart(stack) < TopSize(stack)
  <1>6. more <=> consumed - Dec!Top.start < Dec!Top.size
    BY <1>5
  <1>7. CASE more
    <2>1. Mirror(h, heap, stack, consumed, "tag", NewVarint, field, result)
      BY <1>3, <1>7, Zenon DEF LoopStep
    <2>2. Dec!Goto("tag", Dec!NewVarint)
      <3> HIDE DEF more
      <3>. QED
        BY <1>6, <1>7, Zenon DEF Dec!LoopHead
    <2>3. Dec!NewVarint = NewVarint
      BY SameReader, Zenon
    <2>4. pc' = "tag" /\ rd' = NewVarint /\ stack' = stack /\ result' = result
      BY <2>2, <2>3 DEF Dec!Goto
    <2>. QED
      BY <1>4, <2>1, <2>4, Zenon DEF Mirroring
  <1>8. CASE ~ more
    <2>1. EndStep(h, heap, stack, consumed, field)
      BY <1>3, <1>8, Zenon DEF LoopStep
    <2>2. Dec!EndOfMessage(consumed)
      <3> HIDE DEF more
      <3>. QED
        BY <1>6, <1>8, Zenon DEF Dec!LoopHead
    <2> HIDE DEF more
    <2>. QED
      BY <1>4, <2>1, <2>2, EndMirrors
  <1>. QED
    BY <1>7, <1>8

\* The stream has ended.
LEMMA ReadFailsMirrors ==
    ASSUME NEW h, Enc!SizableMessages(h), Readable(h), Mirroring(h),
           consumed = Len(BodyOf(h)), Dec!ReadFails
    PROVE  Mirroring(h)'
  <1>1. CASE Dec!TagFails
    <2>1. pc = "tag" /\ "tag" # "done"
      BY <1>1 DEF Dec!TagFails
    <2>2. PICK who, got :
            Going(h, heap, stack, consumed, "tag", rd, field, who, got)
      BY <2>1, MirroringGoes, Zenon DEF GoingOn
    <2>3. EndStep(h, heap, stack, consumed, field)
      BY <2>2, TagEnds
    <2>4. /\ consumed' = consumed /\ heap' = heap /\ field' = field
          /\ Dec!EndOfMessage(consumed)
      BY <1>1 DEF Dec!TagFails
    <2>. QED
      BY <2>3, <2>4, EndMirrors
  <1>2. CASE ~ Dec!TagFails
    <2> DEFINE labels == NumberLabels \cup {"skipbytes", "string"}
    <2>1. pc \in labels /\ pc # "done"
      BY <1>2 DEF Dec!ReadFails, Dec!SkipFails, Dec!SkipPayloadFails,
                  Dec!FieldFails, NumberLabels
    <2>2. PICK who, got : Going(h, heap, stack, consumed, pc, rd, field, who, got)
      BY <2>1, MirroringGoes, Zenon DEF GoingOn
    <2>3. consumed + 1 <= Len(BodyOf(h))
      BY <2>1, <2>2, NotAtEnd
    <2>4. Len(BodyOf(h)) \in Nat
      BY BodyFits
    <2>. QED
      BY <2>3, <2>4
  <1>. QED
    BY <1>1, <1>2

\* A byte of the message is read.
LEMMA ReadByteMirrors ==
    ASSUME NEW h, Enc!SizableMessages(h), Readable(h), Mirroring(h),
           consumed + 1 <= Len(BodyOf(h)),
           NEW b, b = BodyOf(h)[consumed + 1], Dec!ReadByte(b)
    PROVE  Mirroring(h)'
  <1>0. \/ Dec!TagByte(b) \/ Dec!SkipByte(b) \/ Dec!SkipLenByte(b)
        \/ Dec!SkipPayloadByte \/ Dec!ValueByte(b) \/ Dec!LenByte(b)
        \/ Dec!StringByte(b)
    BY Zenon DEF Dec!ReadByte
  <1>1. CASE Dec!TagByte(b)
    BY <1>1, TagByteComes
  <1>2. CASE Dec!SkipByte(b)
    BY <1>2, SkipByteMirrors
  <1>3. CASE Dec!SkipLenByte(b)
    BY <1>3, SkipLenByteMirrors
  <1>4. CASE Dec!SkipPayloadByte
    BY <1>4, SkipPayloadByteMirrors
  <1>5. CASE Dec!ValueByte(b)
    BY <1>5, ValueByteMirrors
  <1>6. CASE Dec!LenByte(b)
    BY <1>6, LenByteMirrors
  <1>7. CASE Dec!StringByte(b)
    BY <1>7, StringByteMirrors
  <1>. QED
    BY <1>0, <1>1, <1>2, <1>3, <1>4, <1>5, <1>6, <1>7

-----------------------------------------------------------------------------
(* The invariant holds at first.                                           *)

\* One object, of which nothing has been read.
FirstObject(h, hp, who, got) ==
    /\ hp = <<Dec!NewMessage(Root)>>
    /\ who = <<1>> /\ got = <<NoneDone(h, 1)>>

LEMMA FirstObjectIs ==
    ASSUME NEW h, Enc!SizableMessages(h), Readable(h), NEW hp, NEW who, NEW got,
           FirstObject(h, hp, who, got)
    PROVE  Objects(h, hp, who, got) /\ FieldsOK(h, hp, who, got, Nowhere)
  <1> DEFINE x == Dec!NewMessage(Root)
  <1>1. Root \in DOMAIN ReaderSchema
    BY CodecAssumption
  <1>2. /\ DOMAIN x = {"type", "val"} /\ x.type = Root
        /\ DOMAIN x.val = Dec!Numbers(Root)
    BY <1>1, NewMessageIs
  <1>3. 1 \in DOMAIN h /\ h[1].type = Root
    BY MessagesAreSeq DEF Readable
  <1>4. NoneDone(h, 1) \in Counts(h, 1)
    BY <1>3, NoneCounts
  <1>5. hp = <<x>> /\ who = <<1>> /\ got = <<NoneDone(h, 1)>>
    BY DEF FirstObject
  <1>6. FieldsOK(h, hp, who, got, Nowhere)
    <2>1. SUFFICES ASSUME NEW n \in DOMAIN hp, NEW g \in Dec!Fields(hp[n].type)
                   PROVE  FieldOK(h, hp, who, got, n, g)
      BY Zenon DEF FieldsOK
    <2>2. n = 1
      BY <1>5
    <2>3. who[n] = 1 /\ got[n] = NoneDone(h, 1) /\ hp[n] = x
      BY <1>5, <2>2
    <2>4. who[n] \in DOMAIN h /\ got[n] = NoneDone(h, who[n])
      BY <1>3, <2>3
    <2>5. g \in Dec!Fields(Root)
      BY <1>2, <2>1, <2>3
    <2>. QED
      BY <1>1, <2>3, <2>4, <2>5, NewFieldOK
  <1> HIDE DEF x
  <1>7. IsSeq(hp) /\ hp # <<>> /\ DOMAIN hp = {1} /\ DOMAIN who = {1}
        /\ DOMAIN got = {1}
    <2>1. hp \in Seq({x}) /\ hp # <<>>
      BY <1>5
    <2>2. IsSeq(hp)
      BY <2>1, IsSeqIn
    <2>3. DOMAIN hp = {1} /\ DOMAIN who = {1} /\ DOMAIN got = {1}
      BY <1>5
    <2>. QED
      BY <2>1, <2>2, <2>3
  <1>8. who[1] = 1 /\ got[1] = NoneDone(h, 1) /\ hp[1] = x
    BY <1>5
  <1>9. ASSUME NEW n \in DOMAIN hp
        PROVE  /\ who[n] \in DOMAIN h
               /\ got[n] \in Counts(h, who[n])
               /\ hp[n].type = h[who[n]].type
               /\ hp[n].type \in DOMAIN ReaderSchema
               /\ DOMAIN hp[n] = {"type", "val"}
               /\ DOMAIN hp[n].val = Dec!Numbers(hp[n].type)
    <2>1. n = 1
      BY <1>7
    <2>. QED
      BY <1>1, <1>2, <1>3, <1>4, <1>8, <2>1
  <1>. QED
    BY <1>6, <1>7, <1>8, <1>9, Zenon DEF Objects

LEMMA FirstActivationIs ==
    ASSUME NEW h, Enc!SizableMessages(h), NEW hp, NEW who, NEW got,
           DOMAIN hp = {1}, NEW fr, fr.msg = 1, fr.start = 0, fr.size = SIZE_MAX
    PROVE  Activations(h, hp, <<fr>>, who, got, 0)
  <1> DEFINE st == <<fr>>
             B == Body(h, 1)
  <1>1. Len(B) \in Nat
    BY BodyOfTyped, Zenon DEF BodyOf
  <1>2. IsSeq(st) /\ st # <<>> /\ Len(st) = 1 /\ DOMAIN st = {1} /\ st[1] = fr
    <2>1. st \in Seq({fr})
      OBVIOUS
    <2>2. IsSeq(st)
      <3> HIDE DEF st
      <3>. QED
        BY <2>1, IsSeqIn
    <2>3. st # <<>> /\ Len(st) = 1 /\ DOMAIN st = {1} /\ st[1] = fr
      OBVIOUS
    <2>. QED
      BY <2>2, <2>3
  <1>3. SIZE_MAX \in Nat
    BY CodecAssumption
  <1> HIDE DEF st
  <1>4. EndAt(st, Len(B), 1) = Len(B)
    BY DEF EndAt
  <1>5. \A a \in 1 .. (Len(st) - 1) : FALSE
    BY <1>2
  <1>6. /\ \A a \in DOMAIN st : a = 1
        /\ st[1].msg = 1 /\ st[1].start = 0 /\ st[1].size = SIZE_MAX
        /\ st[1].msg \in DOMAIN hp
    BY <1>2
  <1>7. 0 \in Nat /\ 0 <= Len(B) /\ Len(B) <= Len(B) /\ 0 <= 0
    BY <1>1
  <1> HIDE DEF B
  <1>8. /\ \A a \in DOMAIN st :
            /\ st[a].msg \in DOMAIN hp
            /\ st[a].start \in Nat /\ st[a].size \in Nat
            /\ st[a].start <= 0
            /\ EndAt(st, Len(B), a) <= Len(B)
        /\ \A a, b \in DOMAIN st :
            /\ st[a].msg = st[b].msg => a = b
            /\ a <= b => EndAt(st, Len(B), b) <= EndAt(st, Len(B), a)
    <2>1. ASSUME NEW a \in DOMAIN st
          PROVE  /\ st[a].msg \in DOMAIN hp
                 /\ st[a].start \in Nat /\ st[a].size \in Nat
                 /\ st[a].start <= 0
                 /\ EndAt(st, Len(B), a) <= Len(B)
      <3>1. a = 1
        BY <1>6
      <3>. QED
        BY <1>3, <1>4, <1>6, <1>7, <3>1
    <2>2. ASSUME NEW a \in DOMAIN st, NEW b \in DOMAIN st
          PROVE  /\ st[a].msg = st[b].msg => a = b
                 /\ a <= b => EndAt(st, Len(B), b) <= EndAt(st, Len(B), a)
      <3>1. a = 1 /\ b = 1
        BY <1>6
      <3>. QED
        BY <1>4, <1>7, <3>1
    <2>. QED
      BY <2>1, <2>2
  <1>9. 0 <= EndAt(st, Len(B), Len(st))
    BY <1>2, <1>4, <1>7
  <1>10. Activations(h, hp, st, who, got, 0)
    BY <1>2, <1>5, <1>6, <1>7, <1>8, <1>9, Zenon DEF Activations, B
  <1>. QED
    BY <1>10 DEF st

LEMMA MirroringStarts ==
    ASSUME NEW h, Enc!SizableMessages(h), Readable(h), Dec!Init
    PROVE  Mirroring(h)
  <1> DEFINE who == <<1>>
             got == <<NoneDone(h, 1)>>
             fr == [msg |-> 1, via |-> field, start |-> 0, size |-> SIZE_MAX]
             st == <<fr>>
  <1>1. /\ heap = <<Dec!NewMessage(Root)>> /\ stack = st /\ pc = "loop"
        /\ consumed = 0
    BY DEF Dec!Init
  <1>2. who = <<1>> /\ got = <<NoneDone(h, 1)>>
    OBVIOUS
  <1>3. DOMAIN heap = {1}
    BY <1>1
  <1>4. fr.msg = 1 /\ fr.start = 0 /\ fr.size = SIZE_MAX
    OBVIOUS
  <1> HIDE DEF who, got, fr
  <1>5. FirstObject(h, heap, who, got)
    BY <1>1, <1>2, Zenon DEF FirstObject
  <1>6. Objects(h, heap, who, got) /\ FieldsOK(h, heap, who, got, Nowhere)
    BY <1>5, FirstObjectIs
  <1>7. Activations(h, heap, st, who, got, 0)
    BY <1>3, <1>4, FirstActivationIs
  <1>8. TopOf(st) = 1 /\ OnStack(st, 1) /\ Len(st) = 1
    BY <1>4 DEF TopOf, OnStack
  <1> HIDE DEF st
  <1>9. Finished(h, heap, st, who, got)
    BY <1>3, <1>8 DEF Finished
  <1>10. who[1] = 1 /\ got[1] = NoneDone(h, 1)
    BY <1>2
  <1>11. Win(h, st, 0) = Rest(h, 1, NoneDone(h, 1))
    <2>1. BodyOf(h) \in Seq(Byte) /\ 1 \in DOMAIN h
      BY BodyOfTyped
    <2>2. EndOf(h, st) = Len(BodyOf(h))
      BY <1>8 DEF EndOf, EndAt
    <2>3. Window(BodyOf(h), 0, Len(BodyOf(h))) = BodyOf(h)
      BY <2>1, WindowWhole
    <2>4. BodyOf(h) = Rest(h, 1, NoneDone(h, 1))
      BY <2>1, BodyIsRest DEF BodyOf
    <2>. QED
      BY <2>2, <2>3, <2>4, Zenon DEF Win
  <1>12. Here(h, heap, st, 0, "loop", rd, field, who, got)
    <2> DEFINE win == Win(h, st, 0)
               deep == Len(st) # 1
    <2>1. win = Rest(h, 1, NoneDone(h, 1))
      BY <1>11
    <2> HIDE DEF win, deep
    <2>2. Cursor(h, heap, 1, 1, NoneDone(h, 1), win, deep, "loop", rd, field)
      BY <2>1, CursorsAre
    <2>3. TopOf(st) = 1 /\ who[TopOf(st)] = 1 /\ got[TopOf(st)] = NoneDone(h, 1)
      BY <1>8, <1>10
    <2>. QED
      BY <2>2, <2>3, Zenon DEF Here, win, deep
  <1>13. Static(h, heap, st, 0, who, got)
    BY <1>6, <1>7, <1>9, Zenon DEF Static
  <1>14. But(st, "loop", field) = Nowhere /\ "loop" # "done"
    BY DEF But
  <1>15. Going(h, heap, st, 0, "loop", rd, field, who, got)
    BY <1>6, <1>12, <1>13, <1>14, Zenon DEF Going
  <1>16. Mirror(h, heap, st, 0, "loop", rd, field, result)
    BY <1>15, GoingMirrors
  <1>. QED
    BY <1>1, <1>16, Zenon DEF Mirroring

-----------------------------------------------------------------------------
(* What the stream holds of the message. *)

LEMMA StreamIsPrefix ==
    ASSUME Encoding, refused = 0, Enc!SizableMessages(src)
    PROVE  /\ Len(out) \in Nat
           /\ \A i \in 1 .. Len(out) :
                i <= Len(BodyOf(src)) /\ out[i] = BodyOf(src)[i]
           /\ ret = "true" => Len(out) = Len(BodyOf(src))
  <1> DEFINE B == BodyOf(src)
             R == Flat(calls)
  <1>1. /\ out \in Seq(Byte) /\ calls \in Seq(Chunks)
        /\ out \o R = B
        /\ ret = "true" => calls = <<>>
    BY Zenon DEF Encoding, BodyOf, Body
  <1>2. R \in Seq(Byte)
    BY <1>1, ChunksAreBytes, FlatTyped
  <1>3. calls = <<>> => R = <<>>
    BY FlatTyped
  <1> HIDE DEF B, R
  <1>4. /\ Len(out) \in Nat /\ Len(R) \in Nat
        /\ Len(B) = Len(out) + Len(R)
        /\ \A i \in 1 .. Len(out) : B[i] = out[i]
    <2>1. /\ Len(out \o R) = Len(out) + Len(R)
          /\ \A i \in 1 .. Len(out) : (out \o R)[i] = out[i]
      BY <1>1, <1>2, ConcatProperties
    <2>2. Len(out) \in Nat /\ Len(R) \in Nat
      BY <1>1, <1>2, LenProperties
    <2>. QED
      BY <1>1, <2>1, <2>2
  <1>5. \A i \in 1 .. Len(out) : i <= Len(B)
    BY <1>4
  <1>6. ret = "true" => Len(out) = Len(B)
    <2>1. ret = "true" => Len(R) = 0
      BY <1>1, <1>3, EmptySeq
    <2>. QED
      BY <1>4, <2>1
  <1>. QED
    BY <1>4, <1>5, <1>6 DEF B

\* All the messages of the application.
SourcesAreReadable == \A h \in Sources : Enc!SizableMessages(h) /\ Readable(h)

LEMMA MirrorsStart ==
    ASSUME SourcesAreReadable, Init
    PROVE  Mirrors
  <1>1. Encoding
    BY EncodingStarts DEF SourcesAreReadable
  <1>2. ret = "running" /\ src \in Sources /\ Dec!Init
    BY DEF Init, Enc!Init
  <1>3. PICK h \in Sources : h = src
    BY <1>2
  <1>4. Enc!SizableMessages(h) /\ Readable(h)
    BY DEF SourcesAreReadable
  <1>5. Mirroring(h)
    BY <1>2, <1>4, MirroringStarts
  <1>6. Mirror(src, heap, stack, consumed, pc, rd, field, result)
    BY <1>3, <1>5 DEF Mirroring
  <1>. QED
    BY <1>1, <1>2, <1>6, Zenon DEF Mirrors

\* What a step of the writer changes.
LEMMA WriterSteps ==
    ASSUME Encoding, Enc!Next
    PROVE  /\ src' = src
           /\ refused' = 0 => refused = 0
           /\ ret' \in {ret, "true"}
  <1>1. refused \in Nat
    BY DEF Encoding
  <1>2. \/ src' = src /\ refused' = refused /\ ret' \in {ret, "true"}
        \/ src' = src /\ refused' = refused + 1 /\ ret' = ret
    BY Zenon DEF Enc!Next, Enc!WriteByte, Enc!WriteRefused, Enc!Return
  <1>. QED
    BY <1>1, <1>2

\* The byte that the reader reads is the next one of the message.
LEMMA ByteComes ==
    ASSUME Mirrors, refused = 0, NEW h, h = src, Enc!SizableMessages(h),
           consumed < Len(out), Dec!ReadByte(out[consumed + 1])
    PROVE  /\ consumed + 1 <= Len(BodyOf(h))
           /\ Dec!ReadByte(BodyOf(h)[consumed + 1])
  <1>1. Mirroring(h) /\ Encoding
    BY Zenon DEF Mirrors, Mirroring
  <1>2. /\ Len(out) \in Nat
        /\ \A i \in 1 .. Len(out) :
                i <= Len(BodyOf(h)) /\ out[i] = BodyOf(h)[i]
    BY <1>1, StreamIsPrefix
  <1>3. consumed \in Nat
    <2>1. pc # "done"
      BY DEF Dec!ReadByte, Dec!TagByte, Dec!SkipByte, Dec!SkipLenByte,
             Dec!SkipPayloadByte, Dec!ValueByte, Dec!LenByte, Dec!StringByte
    <2>2. PICK who, got :
              Going(h, heap, stack, consumed, pc, rd, field, who, got)
      BY <1>1, <2>1, MirroringGoes, Zenon DEF GoingOn
    <2>3. Static(h, heap, stack, consumed, who, got)
      BY <2>2, Zenon DEF Going
    <2>4. Ordered(BodyOf(h), consumed, EndOf(h, stack))
      BY <2>3, PlaceOf, Zenon DEF Place
    <2>. QED
      BY <2>4 DEF Ordered
  <1>4. consumed + 1 \in 1 .. Len(out)
    BY <1>2, <1>3
  <1>5. /\ consumed + 1 <= Len(BodyOf(h))
        /\ out[consumed + 1] = BodyOf(h)[consumed + 1]
    BY <1>2, <1>4
  <1>. QED
    BY <1>5

\* A step of the reader.
LEMMA ReaderSteps ==
    ASSUME Mirrors, refused = 0, Decode, NEW h, h = src,
           Enc!SizableMessages(h), Readable(h)
    PROVE  Mirroring(h)'
  <1>1. Mirroring(h) /\ Encoding /\ ret \in {"running", "true"}
    BY Zenon DEF Mirrors, Mirroring
  <1>2. /\ Len(out) \in Nat
        /\ \A i \in 1 .. Len(out) :
                i <= Len(BodyOf(h)) /\ out[i] = BodyOf(h)[i]
        /\ ret = "true" => Len(out) = Len(BodyOf(h))
    BY <1>1, StreamIsPrefix
  <1>3. CASE Dec!LoopHead
    BY <1>1, <1>3, LoopHeadMirrors
  <1>4. CASE consumed < Len(out) /\ Dec!ReadByte(out[consumed + 1])
    <2>1. /\ consumed + 1 <= Len(BodyOf(h))
          /\ Dec!ReadByte(BodyOf(h)[consumed + 1])
      BY <1>4, ByteComes
    <2>2. PICK x : x = BodyOf(h)[consumed + 1]
      OBVIOUS
    <2>3. Dec!ReadByte(x)
      BY <2>1, <2>2
    <2>. QED
      BY <1>1, <2>1, <2>2, <2>3, ReadByteMirrors
  <1>5. CASE consumed = Len(out) /\ ret # "running" /\ Dec!ReadFails
    <2>1. consumed = Len(BodyOf(h))
      BY <1>1, <1>2, <1>5
    <2>. QED
      BY <1>1, <1>5, <2>1, ReadFailsMirrors
  <1>. QED
    BY <1>3, <1>4, <1>5 DEF Decode

LEMMA MirrorsGoOn ==
    ASSUME SourcesAreReadable, Mirrors, [Next]_vars
    PROVE  Mirrors'
  <1>1. Encoding /\ ret \in {"running", "true"}
    BY Zenon DEF Mirrors
  <1>2. Encoding'
    BY <1>1, EncodingGoesOn
  <1>3. PICK h \in Sources : h = src
    BY <1>1 DEF Encoding
  <1>4. Enc!SizableMessages(h) /\ Readable(h)
    BY DEF SourcesAreReadable
  <1>5. CASE Enc!Next /\ UNCHANGED decVars
    <2>1. src' = src /\ (refused' = 0 => refused = 0) /\ ret' \in {ret, "true"}
      BY <1>1, <1>5, WriterSteps
    <2>2. /\ heap' = heap /\ stack' = stack /\ consumed' = consumed /\ pc' = pc
          /\ rd' = rd /\ field' = field /\ result' = result
      BY <1>5 DEF decVars
    <2>3. refused' = 0 =>
            Mirror(src', heap', stack', consumed', pc', rd', field', result')
      BY <2>1, <2>2, Zenon DEF Mirrors
    <2>4. ret' \in {"running", "true"}
      BY <1>1, <2>1
    <2>. QED
      BY <1>2, <2>3, <2>4, Zenon DEF Mirrors
  <1>6. CASE Decode /\ UNCHANGED encVars
    <2>1. src' = src /\ refused' = refused /\ ret' = ret
      BY <1>6 DEF encVars
    <2>2. refused = 0 => Mirroring(h)'
      BY <1>3, <1>4, <1>6, ReaderSteps
    <2>3. refused' = 0 =>
            Mirror(h, heap', stack', consumed', pc', rd', field', result')
      BY <2>1, <2>2, Zenon DEF Mirroring
    <2>4. h = src'
      BY <1>3, <2>1
    <2>5. refused' = 0 =>
            Mirror(src', heap', stack', consumed', pc', rd', field', result')
      BY <2>3, <2>4, Zenon
    <2>6. ret' \in {"running", "true"}
      BY <1>1, <2>1
    <2>. QED
      BY <1>2, <2>5, <2>6, Zenon DEF Mirrors
  <1>7. CASE UNCHANGED vars
    <2>1. /\ src' = src /\ refused' = refused /\ ret' = ret
          /\ heap' = heap /\ stack' = stack /\ consumed' = consumed /\ pc' = pc
          /\ rd' = rd /\ field' = field /\ result' = result
      BY <1>7 DEF vars, encVars, decVars
    <2>2. refused' = 0 =>
            Mirror(src', heap', stack', consumed', pc', rd', field', result')
      BY <2>1, Zenon DEF Mirrors
    <2>. QED
      BY <1>1, <1>2, <2>1, <2>2, Zenon DEF Mirrors
  <1>. QED
    BY <1>5, <1>6, <1>7 DEF Next

\* Until a byte is refused, the reader's objects hold what it has read.
LEMMA ReaderMirrors ==
    ASSUME SourcesAreReadable
    PROVE  Spec => []Mirrors
  <1>1. Init => Mirrors
    BY MirrorsStart
  <1>2. Mirrors /\ [Next]_vars => Mirrors'
    BY MirrorsGoOn
  <1>. QED
    BY <1>1, <1>2, PTL DEF Spec

-----------------------------------------------------------------------------
(* Messages that are the same. *)

SameElement(s, g, x, y) ==
    IF g.type = "message" THEN IF x = 0 \/ y = 0 THEN x = y ELSE s[x][y]
    ELSE Same(g.type, x, y)

FieldAlike(h, hp, s, m, n, g) ==
    LET v == h[m].val[g.num]
        w == hp[n].val[g.num]
    IN  IF ~ InWriter(h[m].type, g.num) THEN w = Dec!DefaultValue(g)
        ELSE IF g.repeated
             THEN /\ Len(v) = Len(w)
                  /\ \A k \in DOMAIN v : SameElement(s, g, v[k], w[k])
             ELSE SameElement(s, g, v, w)

Alike(h, hp, s, m, n) ==
    /\ hp[n].type = h[m].type
    /\ \A g \in Dec!Fields(hp[n].type) : FieldAlike(h, hp, s, m, n, g)

AreAlike(h, hp, s) ==
    s = [m \in DOMAIN h |-> [n \in DOMAIN hp |-> Alike(h, hp, s, m, n)]]

LEMMA SameMessageIs ==
    SameMessage = CHOOSE s : AreAlike(src, heap, s)
  BY Zenon DEF SameMessage, AreAlike, Alike, FieldAlike, SameElement

\* The field i of the writer's message m is the reader's g.
BothHave(h, m, i, g) ==
    /\ i \in FieldsOf(h, m)
    /\ FieldOf(h, m, i).num = g.num
    /\ FieldOf(h, m, i).type = g.type
    /\ FieldOf(h, m, i).repeated = g.repeated

LEMMA FieldsMeet ==
    ASSUME NEW h, Readable(h), NEW m \in DOMAIN h,
           h[m].type \in DOMAIN ReaderSchema, NEW g \in Dec!Fields(h[m].type)
    PROVE  /\ \A i \in FieldsOf(h, m) :
                FieldOf(h, m, i).num = g.num => BothHave(h, m, i, g)
           /\ InWriter(h[m].type, g.num) <=>
                \E i \in FieldsOf(h, m) : FieldOf(h, m, i).num = g.num
  <1>1. ASSUME NEW i \in FieldsOf(h, m), FieldOf(h, m, i).num = g.num
        PROVE  BothHave(h, m, i, g)
    <2>1. Fits(h, FieldOf(h, m, i), Elems(h, m, i), g)
      BY <1>1, ReadableFits
    <2>. QED
      BY <1>1, <2>1, Zenon DEF Fits, BothHave
  <1>2. InWriter(h[m].type, g.num) <=>
            \E i \in FieldsOf(h, m) : FieldOf(h, m, i).num = g.num
    BY Zenon DEF InWriter, FieldsOf, FieldOf
  <1>. QED
    BY <1>1, <1>2, Zenon

\* The value of a field, and its elements.
LEMMA ValueIs ==
    ASSUME NEW h, NEW m, NEW i, NEW g, BothHave(h, m, i, g),
           NEW v, v = h[m].val[g.num]
    PROVE  /\ g.repeated => Elems(h, m, i) = v
           /\ ~ g.repeated =>
                \/ Enc!IsDefault(FieldOf(h, m, i), v) /\ Elems(h, m, i) = <<>>
                \/ ~ Enc!IsDefault(FieldOf(h, m, i), v) /\ Elems(h, m, i) = <<v>>
  <1>1. FieldOf(h, m, i).num = g.num /\ FieldOf(h, m, i).repeated = g.repeated
    BY DEF BothHave
  <1>2. ~ g.repeated =>
            \/ Enc!IsDefault(FieldOf(h, m, i), v) /\ Elems(h, m, i) = <<>>
            \/ ~ Enc!IsDefault(FieldOf(h, m, i), v) /\ Elems(h, m, i) = <<v>>
    BY <1>1, SingularElems, Zenon
  <1>3. g.repeated => Elems(h, m, i) = v
    BY <1>1, Zenon DEF Elems, Enc!Encoded
  <1>. QED
    BY <1>2, <1>3

\* A message refers to younger ones.
LEMMA ValuesAreYounger ==
    ASSUME NEW h, Enc!SizableMessages(h), NEW m \in DOMAIN h, NEW i, NEW g,
           BothHave(h, m, i, g), g.type = "message", NEW v, v = h[m].val[g.num]
    PROVE  /\ g.repeated => \A k \in DOMAIN v : v[k] \in (m + 1) .. Len(h)
           /\ ~ g.repeated => v = 0 \/ v \in (m + 1) .. Len(h)
  <1> DEFINE f == FieldOf(h, m, i)
             e == Elems(h, m, i)
  <1>1. i \in FieldsOf(h, m) /\ f.type = "message"
    BY DEF BothHave
  <1>2. \A k \in DOMAIN e : e[k] \in (m + 1) .. Len(h)
    <2>1. \A k \in DOMAIN e : Enc!Sizable(h, m, f, e[k])
      BY <1>1, ElemsAreSizable, Zenon DEF FieldsOf
    <2> HIDE DEF e, f
    <2>. QED
      BY <1>1, <2>1 DEF Enc!Sizable, Enc!I32Types, Enc!I64Types, Enc!VarintTypes
  <1>3. /\ g.repeated => e = v
        /\ ~ g.repeated => Enc!IsDefault(f, v) \/ e = <<v>>
    <2>1. /\ g.repeated => Elems(h, m, i) = v
          /\ ~ g.repeated =>
                \/ Enc!IsDefault(FieldOf(h, m, i), v) /\ Elems(h, m, i) = <<>>
                \/ ~ Enc!IsDefault(FieldOf(h, m, i), v) /\ Elems(h, m, i) = <<v>>
      BY ValueIs
    <2>. QED
      BY <2>1, Zenon
  <1> HIDE DEF e, f
  <1>4. Enc!IsDefault(f, v) => v = 0
    BY <1>1 DEF Enc!IsDefault
  <1>5. e = <<v>> => v \in (m + 1) .. Len(h)
    <2>1. ASSUME e = <<v>> PROVE 1 \in DOMAIN e /\ e[1] = v
      BY <2>1
    <2>. QED
      BY <1>2, <2>1
  <1>. QED
    BY <1>2, <1>3, <1>4, <1>5, Zenon

\* Whether the field is the same depends on the younger messages.
LEMMA FieldLocal ==
    ASSUME NEW h, Enc!SizableMessages(h), Readable(h), NEW hp, NEW m \in DOMAIN h,
           NEW n, h[m].type \in DOMAIN ReaderSchema,
           NEW g \in Dec!Fields(h[m].type), NEW s, NEW t,
           \A j \in (m + 1) .. Len(h) : s[j] = t[j], FieldAlike(h, hp, s, m, n, g)
    PROVE  FieldAlike(h, hp, t, m, n, g)
  <1> DEFINE v == h[m].val[g.num]
             w == hp[n].val[g.num]
  <1>1. CASE ~ InWriter(h[m].type, g.num)
    BY <1>1, Zenon DEF FieldAlike
  <1>2. CASE InWriter(h[m].type, g.num)
    <2>1. PICK i : BothHave(h, m, i, g)
      BY <1>2, FieldsMeet, Zenon
    <2>2. g.type = "message" =>
            /\ g.repeated => \A k \in DOMAIN v : v[k] \in (m + 1) .. Len(h)
            /\ ~ g.repeated => v = 0 \/ v \in (m + 1) .. Len(h)
      BY <2>1, ValuesAreYounger
    <2> HIDE DEF v, w
    <2>3. \A x, y : /\ SameElement(s, g, x, y)
                    /\ g.type = "message" => x = 0 \/ x \in (m + 1) .. Len(h)
                    => SameElement(t, g, x, y)
      BY Zenon DEF SameElement
    <2>4. CASE g.repeated
      <3>1. /\ Len(v) = Len(w)
            /\ \A k \in DOMAIN v : SameElement(s, g, v[k], w[k])
        BY <1>2, <2>4, Zenon DEF FieldAlike, v, w
      <3>2. \A k \in DOMAIN v : SameElement(t, g, v[k], w[k])
        BY <2>2, <2>3, <2>4, <3>1, Zenon
      <3>. QED
        BY <1>2, <2>4, <3>1, <3>2, Zenon DEF FieldAlike, v, w
    <2>5. CASE ~ g.repeated
      <3>1. SameElement(s, g, v, w)
        BY <1>2, <2>5, Zenon DEF FieldAlike, v, w
      <3>2. SameElement(t, g, v, w)
        BY <2>2, <2>3, <2>5, <3>1, Zenon
      <3>. QED
        BY <1>2, <2>5, <3>2, Zenon DEF FieldAlike, v, w
    <2>. QED
      BY <2>4, <2>5
  <1>. QED
    BY <1>1, <1>2

\* The types of the reader's objects.
KnownTypes(hp) == \A n \in DOMAIN hp : hp[n].type \in DOMAIN ReaderSchema

LEMMA AlikeLocal ==
    ASSUME NEW h, Enc!SizableMessages(h), Readable(h), NEW hp, KnownTypes(hp),
           NEW m \in DOMAIN h, NEW n \in DOMAIN hp, NEW s, NEW t,
           \A j \in (m + 1) .. Len(h) : s[j] = t[j], Alike(h, hp, s, m, n)
    PROVE  Alike(h, hp, t, m, n)
  <1>1. hp[n].type = h[m].type /\ h[m].type \in DOMAIN ReaderSchema
    BY DEF Alike, KnownTypes
  <1>2. \A g \in Dec!Fields(h[m].type) : FieldAlike(h, hp, s, m, n, g)
    BY <1>1, Zenon DEF Alike
  <1>3. \A g \in Dec!Fields(h[m].type) : FieldAlike(h, hp, t, m, n, g)
    BY <1>1, <1>2, FieldLocal
  <1>. QED
    BY <1>1, <1>3, Zenon DEF Alike

-----------------------------------------------------------------------------
(* Tables that are defined by recursion over the writer's messages: a row   *)
(* depends on those after it.                                               *)

\* The row of each message for each table, as a function.
IsRows(F, n, D) ==
    /\ F \in [1 .. n -> [[1 .. n -> [D -> BOOLEAN]] -> [D -> BOOLEAN]]]
    /\ \A m \in 1 .. n : \A s, t \in [1 .. n -> [D -> BOOLEAN]] :
            (\A j \in (m + 1) .. n : s[j] = t[j]) =>
            \A d \in D : F[m][s][d] => F[m][t][d]

LEMMA TableExists ==
    ASSUME NEW n \in Nat, NEW D, NEW F, IsRows(F, n, D)
    PROVE  \E s \in [1 .. n -> [D -> BOOLEAN]] : \A m \in 1 .. n : s[m] = F[m][s]
  <1> DEFINE X == [D -> BOOLEAN]
  <1>1. X # {}
    <2>1. [d \in D |-> TRUE] \in X
      OBVIOUS
    <2>. QED
      BY <2>1
  <1>2. F \in [1 .. n -> [[1 .. n -> X] -> X]]
    BY DEF IsRows
  <1>3. ASSUME NEW m \in 1 .. n, NEW s \in [1 .. n -> X], NEW t \in [1 .. n -> X],
               \A j \in (m + 1) .. n : s[j] = t[j]
        PROVE  F[m][s] = F[m][t]
    <2>1. F[m][s] \in X /\ F[m][t] \in X
      <3> HIDE DEF X
      <3>. QED
        BY <1>2
    <2>2. \A j \in (m + 1) .. n : t[j] = s[j]
      BY <1>3
    <2>3. /\ \A d \in D : F[m][s][d] => F[m][t][d]
          /\ \A d \in D : F[m][t][d] => F[m][s][d]
      BY <1>3, <2>2, Zenon DEF IsRows
    <2>4. \A d \in D : F[m][s][d] = F[m][t][d]
      BY <2>1, <2>3
    <2>5. F[m][s] = [d \in D |-> F[m][s][d]] /\ F[m][t] = [d \in D |-> F[m][t][d]]
      BY <2>1
    <2>. QED
      BY <2>4, <2>5, Zenon
  <1> HIDE DEF X
  <1>4. Backward(F, n, X)
    BY <1>1, <1>2, <1>3, Zenon DEF Backward
  <1>5. \E s \in [1 .. n -> X] : \A m \in 1 .. n : s[m] = F[m][s]
    BY <1>4, BackwardRecursion
  <1>. QED
    BY <1>5 DEF X

LEMMA AlikeExists ==
    ASSUME NEW h, Enc!SizableMessages(h), Readable(h), NEW hp, KnownTypes(hp)
    PROVE  \E s : AreAlike(h, hp, s)
  <1> DEFINE N == Len(h)
             D == DOMAIN hp
             X == [D -> BOOLEAN]
             row(m, s) == [n \in D |-> Alike(h, hp, s, m, n)]
             F == [m \in 1 .. N |-> [s \in [1 .. N -> X] |-> row(m, s)]]
  <1>1. N \in Nat /\ DOMAIN h = 1 .. N
    BY MessagesAreSeq
  <1>2. \A m, s : row(m, s) \in X
    <2>1. \A m, s, n : Alike(h, hp, s, m, n) \in BOOLEAN
      BY DEF Alike
    <2>. QED
      BY <2>1
  <1>3. F \in [1 .. N -> [[1 .. N -> X] -> X]]
    <2> HIDE DEF X, row, N
    <2>. QED
      BY <1>2
  <1>4. \A m \in 1 .. N : \A s \in [1 .. N -> X] : F[m][s] = row(m, s)
    <2> HIDE DEF X, row, N
    <2>. QED
      OBVIOUS
  <1> HIDE DEF F
  <1>5. ASSUME NEW m \in 1 .. N, NEW s \in [1 .. N -> X], NEW t \in [1 .. N -> X],
               \A j \in (m + 1) .. N : s[j] = t[j], NEW d \in D, F[m][s][d]
        PROVE  F[m][t][d]
    <2>1. row(m, s)[d] = Alike(h, hp, s, m, d) /\ row(m, t)[d] = Alike(h, hp, t, m, d)
      OBVIOUS
    <2>2. F[m][s] = row(m, s) /\ F[m][t] = row(m, t)
      BY <1>4
    <2> HIDE DEF row
    <2>3. Alike(h, hp, s, m, d)
      BY <1>5, <2>1, <2>2
    <2>4. m \in DOMAIN h
      BY <1>1
    <2>5. Alike(h, hp, t, m, d)
      BY <1>5, <2>3, <2>4, AlikeLocal
    <2>. QED
      BY <2>1, <2>2, <2>5
  <1>6. IsRows(F, N, D)
    BY <1>3, <1>5, Zenon DEF IsRows
  <1> HIDE DEF N, D
  <1>7. PICK s \in [1 .. N -> X] : \A m \in 1 .. N : s[m] = F[m][s]
    BY <1>1, <1>6, TableExists
  <1>8. \A m \in 1 .. N : s[m] = row(m, s)
    BY <1>4, <1>7, Zenon
  <1>9. s = [m \in 1 .. N |-> row(m, s)]
    <2> HIDE DEF row, X
    <2>1. s = [m \in 1 .. N |-> s[m]]
      BY <1>7
    <2>. QED
      BY <1>8, <2>1, Zenon
  <1>10. AreAlike(h, hp, s)
    BY <1>1, <1>9, Zenon DEF AreAlike, D
  <1>. QED
    BY <1>10, Zenon

\* A message is the same if its fields are.
SameOf(h, hp) == CHOOSE s : AreAlike(h, hp, s)

LEMMA SameRows ==
    ASSUME NEW h, Enc!SizableMessages(h), Readable(h), NEW hp, KnownTypes(hp),
           NEW m \in DOMAIN h, NEW n \in DOMAIN hp, Alike(h, hp, SameOf(h, hp), m, n)
    PROVE  SameOf(h, hp)[m][n]
  <1> DEFINE s == SameOf(h, hp)
  <1>1. AreAlike(h, hp, s)
    BY AlikeExists, Zenon DEF SameOf
  <1> HIDE DEF s
  <1>2. s = [j \in DOMAIN h |-> [k \in DOMAIN hp |-> Alike(h, hp, s, j, k)]]
    BY <1>1, Zenon DEF AreAlike
  <1>3. s[m] = [k \in DOMAIN hp |-> Alike(h, hp, s, m, k)]
    BY <1>2, Zenon
  <1>4. s[m][n] = Alike(h, hp, s, m, n)
    BY <1>3, Zenon
  <1>. QED
    BY <1>4 DEF s

\* The value w of the field g refers to the object y.
Refers(g, w, y) ==
    /\ g.type = "message"
    /\ IF g.repeated THEN \E j \in DOMAIN w : w[j] = y ELSE w = y /\ y # 0

HasRef(hp, n, g, y) == Refers(g, hp[n].val[g.num], y)

\* The table s holds for all objects that the field g of n refers to.
RefsAlike(h, hp, who, s, n, g) ==
    \A y \in DOMAIN hp : HasRef(hp, n, g, y) => s[who[y]][y]

\* An element that matches is the same.
LEMMA MatchIsSame ==
    ASSUME NEW h, NEW hp, NEW who, NEW s, NEW n, NEW g,
           RefsAlike(h, hp, who, s, n, g), 0 \notin DOMAIN hp, NEW x, NEW y,
           g.type = "message" => HasRef(hp, n, g, y) /\ x # 0,
           Matches(g, hp, who, x, y)
    PROVE  SameElement(s, g, x, y)
  <1>1. CASE g.type = "message"
    <2>1. y \in DOMAIN hp /\ who[y] = x /\ HasRef(hp, n, g, y) /\ x # 0
      BY <1>1, Zenon DEF Matches
    <2>2. s[x][y] /\ y # 0
      BY <2>1, Zenon DEF RefsAlike
    <2>. QED
      BY <1>1, <2>1, <2>2, Zenon DEF SameElement
  <1>2. CASE g.type # "message"
    BY <1>2, Zenon DEF Matches, SameElement, Same
  <1>. QED
    BY <1>1, <1>2

\* The default values are the same.
LEMMA DefaultIsSame ==
    ASSUME NEW g, NEW t, g.type = t, ~ g.repeated, NEW f, f.type = t,
           NEW v, Enc!IsDefault(f, v), NEW w, w = Dec!DefaultValue(g), NEW s
    PROVE  SameElement(s, g, v, w)
  <1>1. CASE t = "string"
    <2>1. v = <<>> /\ w = <<>>
      BY <1>1 DEF Enc!IsDefault, Dec!DefaultValue
    <2>. QED
      BY <1>1, <2>1 DEF SameElement, Same
  <1>2. CASE t # "string"
    <2>1. w = 0
      BY <1>2 DEF Dec!DefaultValue
    <2>2. \/ v = 0
          \/ t = "float" /\ v = U32 \div 2
          \/ t = "double" /\ v = U64 \div 2
      BY <1>2 DEF Enc!IsDefault
    <2>. QED
      BY <2>1, <2>2 DEF SameElement, Same
  <1>. QED
    BY <1>1, <1>2

LEMMA FieldIsSame ==
    ASSUME NEW h, Enc!SizableMessages(h), Readable(h), NEW hp, NEW who, NEW got,
           Objects(h, hp, who, got), NEW n \in DOMAIN hp, NEW m, m = who[n],
           NEW g \in Dec!Fields(hp[n].type), FieldOK(h, hp, who, got, n, g),
           IsDone(h, m, got[n]), NEW s, RefsAlike(h, hp, who, s, n, g)
    PROVE  FieldAlike(h, hp, s, m, n, g)
  <1> DEFINE v == h[m].val[g.num]
             w == hp[n].val[g.num]
             d == got[n]
  <1>1. /\ m \in DOMAIN h /\ d \in Counts(h, m) /\ hp[n].type = h[m].type
        /\ h[m].type \in DOMAIN ReaderSchema
    <2>1. /\ who[n] \in DOMAIN h /\ got[n] \in Counts(h, who[n])
          /\ hp[n].type = h[who[n]].type /\ hp[n].type \in DOMAIN ReaderSchema
      BY ObjectsAre
    <2>. QED
      BY <2>1, Zenon
  <1>2. 0 \notin DOMAIN hp
    <2>1. DOMAIN hp = 1 .. Len(hp)
      BY IsSeqLen, Zenon DEF Objects
    <2>. QED
      BY <2>1
  <1>3. CASE ~ InWriter(h[m].type, g.num)
    <2>1. \A i \in FieldsOf(h, m) : FieldOf(h, m, i).num # g.num
      BY <1>1, <1>3, FieldsMeet, Zenon
    <2>2. w = Dec!DefaultValue(g)
      BY <2>1, Zenon DEF FieldOK
    <2>. QED
      BY <1>3, <2>2, Zenon DEF FieldAlike
  <1>4. CASE InWriter(h[m].type, g.num)
    <2>0. g \in Dec!Fields(h[m].type)
      BY <1>1
    <2>1. PICK i : BothHave(h, m, i, g)
      BY <1>1, <1>4, <2>0, FieldsMeet, Zenon
    <2> DEFINE e == Elems(h, m, i)
               f == FieldOf(h, m, i)
    <2>2. i \in FieldsOf(h, m) /\ f.num = g.num /\ f.type = g.type
      BY <2>1, Zenon DEF BothHave
    <2>3. Shows(g, e, Len(e), hp, who, w)
      <3>1. Shows(g, e, d[i], hp, who, w)
        BY <2>2, Zenon DEF FieldOK
      <3>2. d[i] = Len(e)
        BY <2>2, Zenon DEF IsDone
      <3>. QED
        BY <3>1, <3>2
    <2>4. /\ g.repeated => e = v
          /\ ~ g.repeated =>
                \/ Enc!IsDefault(f, v) /\ e = <<>>
                \/ ~ Enc!IsDefault(f, v) /\ e = <<v>>
      BY <2>1, ValueIs
    <2>5. g.type = "message" =>
            /\ g.repeated => \A k \in DOMAIN v : v[k] \in (m + 1) .. Len(h)
            /\ ~ g.repeated => v = 0 \/ v \in (m + 1) .. Len(h)
      BY <1>1, <2>1, ValuesAreYounger
    <2>6. m \in Nat /\ Len(e) \in Nat /\ DOMAIN e = 1 .. Len(e)
      <3>1. DOMAIN h = 1 .. Len(h)
        BY MessagesAreSeq
      <3>. QED
        BY <1>1, <2>2, <3>1, ElemsAreSeq
    <2>7. 0 \notin (m + 1) .. Len(h)
      BY <2>6
    <2>8. w = hp[n].val[g.num]
      OBVIOUS
    <2> HIDE DEF v, w, e, f, d
    <2>9. CASE g.repeated
      <3>1. IsSeq(w) /\ Len(w) = Len(e)
            /\ \A k \in 1 .. Len(e) : Matches(g, hp, who, e[k], w[k])
        BY <2>3, <2>9, Zenon DEF Shows
      <3>2. e = v
        BY <2>4, <2>9, Zenon
      <3>3. DOMAIN w = DOMAIN v /\ DOMAIN v = 1 .. Len(e) /\ Len(v) = Len(w)
        BY <2>6, <3>1, <3>2, IsSeqLen
      <3>4. ASSUME NEW k \in DOMAIN v
            PROVE  SameElement(s, g, v[k], w[k])
        <4>1. Matches(g, hp, who, v[k], w[k])
          BY <3>1, <3>2, <3>3, Zenon
        <4>2. g.type = "message" => HasRef(hp, n, g, w[k])
          BY <2>8, <2>9, <3>3, Zenon DEF HasRef, Refers
        <4>3. g.type = "message" => v[k] # 0
          BY <2>5, <2>7, <2>9, Zenon
        <4>. QED
          BY <1>2, <4>1, <4>2, <4>3, MatchIsSame
      <3>. QED
        BY <1>4, <2>9, <3>3, <3>4, Zenon DEF FieldAlike, v, w
    <2>10. CASE ~ g.repeated
      <3>1. SameElement(s, g, v, w)
        <4>1. CASE Enc!IsDefault(f, v) /\ e = <<>>
          <5>1. Len(e) = 0
            BY <4>1
          <5>2. w = Dec!DefaultValue(g)
            BY <2>3, <2>10, <5>1, Zenon DEF Shows
          <5>. QED
            BY <2>2, <2>10, <4>1, <5>2, DefaultIsSame
        <4>2. CASE e = <<v>>
          <5>1. Len(e) # 0 /\ e[1] = v
            BY <4>2
          <5>2. Matches(g, hp, who, v, w)
            BY <2>3, <2>10, <5>1, Zenon DEF Shows
          <5>3. g.type = "message" => v # 0
            <6>1. ASSUME g.type = "message", v = 0 PROVE FALSE
              <7>1. Enc!IsDefault(f, v)
                BY <2>2, <6>1 DEF Enc!IsDefault
              <7>2. e = <<>>
                BY <2>4, <2>10, <7>1, Zenon
              <7>. QED
                BY <4>2, <7>2
            <6>. QED
              BY <6>1
          <5>4. g.type = "message" => HasRef(hp, n, g, w)
            <6>1. g.type = "message" => w \in DOMAIN hp
              BY <5>2, Zenon DEF Matches
            <6>. QED
              BY <1>2, <2>8, <2>10, <6>1, Zenon DEF HasRef, Refers
          <5>. QED
            BY <1>2, <5>2, <5>3, <5>4, MatchIsSame
        <4>. QED
          BY <2>4, <2>10, <4>1, <4>2, Zenon
      <3>. QED
        BY <1>4, <2>10, <3>1, Zenon DEF FieldAlike, v, w
    <2>. QED
      BY <2>9, <2>10
  <1>. QED
    BY <1>3, <1>4

\* The objects that a field refers to are made of younger messages.
LEMMA RefIsYounger ==
    ASSUME NEW h, Enc!SizableMessages(h), Readable(h), NEW hp, NEW who, NEW got,
           Objects(h, hp, who, got), NEW n \in DOMAIN hp, NEW m, m = who[n],
           NEW g \in Dec!Fields(hp[n].type), FieldOK(h, hp, who, got, n, g),
           NEW y, HasRef(hp, n, g, y)
    PROVE  y \in DOMAIN hp /\ who[y] \in (m + 1) .. Len(h)
  <1> DEFINE w == hp[n].val[g.num]
             d == got[n]
  <1>1. /\ m \in DOMAIN h /\ d \in Counts(h, m) /\ hp[n].type = h[m].type
        /\ h[m].type \in DOMAIN ReaderSchema
    <2>1. /\ who[n] \in DOMAIN h /\ got[n] \in Counts(h, who[n])
          /\ hp[n].type = h[who[n]].type /\ hp[n].type \in DOMAIN ReaderSchema
      BY ObjectsAre
    <2>. QED
      BY <2>1, Zenon
  <1>2. /\ g.type = "message"
        /\ g.repeated => \E j \in DOMAIN w : w[j] = y
        /\ ~ g.repeated => w = y /\ y # 0
    BY Zenon DEF HasRef, Refers
  <1>3. w # Dec!DefaultValue(g)
    <2> HIDE DEF w
    <2>1. CASE g.repeated
      <3>1. Dec!DefaultValue(g) = <<>>
        BY <2>1 DEF Dec!DefaultValue
      <3>2. w # <<>>
        BY <1>2, <2>1
      <3>. QED
        BY <3>1, <3>2
    <2>2. CASE ~ g.repeated
      <3>1. Dec!DefaultValue(g) = 0
        BY <1>2, <2>2 DEF Dec!DefaultValue
      <3>. QED
        BY <1>2, <2>2, <3>1
    <2>. QED
      BY <2>1, <2>2
  <1>4. InWriter(h[m].type, g.num)
    <2>1. SUFFICES ASSUME ~ InWriter(h[m].type, g.num)
                   PROVE  FALSE
      OBVIOUS
    <2>2. g \in Dec!Fields(h[m].type)
      BY <1>1
    <2>3. \A i \in FieldsOf(h, m) : FieldOf(h, m, i).num # g.num
      BY <1>1, <2>1, <2>2, FieldsMeet, Zenon
    <2>4. w = Dec!DefaultValue(g)
      BY <2>3, Zenon DEF FieldOK
    <2>. QED
      BY <1>3, <2>4
  <1>5. PICK i : BothHave(h, m, i, g)
    <2>1. g \in Dec!Fields(h[m].type)
      BY <1>1
    <2>. QED
      BY <1>1, <1>4, <2>1, FieldsMeet, Zenon
  <1> DEFINE e == Elems(h, m, i)
             f == FieldOf(h, m, i)
             k == d[i]
  <1>6. i \in FieldsOf(h, m) /\ f.num = g.num /\ f.type = g.type
    BY <1>5, Zenon DEF BothHave
  <1>7. Shows(g, e, k, hp, who, w)
    BY <1>6, Zenon DEF FieldOK
  <1>8. k \in Nat /\ k <= Len(e) /\ Len(e) \in Nat /\ DOMAIN e = 1 .. Len(e)
    BY <1>1, <1>6, CountOf, ElemsAreSeq
  <1>9. \A j \in DOMAIN e : e[j] \in (m + 1) .. Len(h)
    <2>1. \A j \in DOMAIN e : Enc!Sizable(h, m, f, e[j])
      BY <1>1, <1>6, ElemsAreSizable, Zenon DEF FieldsOf
    <2>2. f.type = "message"
      BY <1>2, <1>6
    <2> HIDE DEF e, f
    <2>. QED
      BY <2>1, <2>2 DEF Enc!Sizable, Enc!I32Types, Enc!I64Types, Enc!VarintTypes
  <1> HIDE DEF w, e, f, k, d
  <1>10. \E j \in DOMAIN e : Matches(g, hp, who, e[j], y)
    <2>1. CASE g.repeated
      <3>1. IsSeq(w) /\ Len(w) = k
            /\ \A j \in 1 .. k : Matches(g, hp, who, e[j], w[j])
        BY <1>7, <2>1, Zenon DEF Shows
      <3>2. PICK j \in DOMAIN w : w[j] = y
        BY <1>2, <2>1
      <3>3. DOMAIN w = 1 .. k
        BY <3>1, IsSeqLen
      <3>4. j \in 1 .. k /\ j \in DOMAIN e
        BY <1>8, <3>2, <3>3
      <3>. QED
        BY <3>1, <3>2, <3>4, Zenon
    <2>2. CASE ~ g.repeated
      <3>1. k # 0
        BY <1>3, <1>7, <2>2, Zenon DEF Shows
      <3>2. Matches(g, hp, who, e[1], w)
        BY <1>7, <2>2, <3>1, Zenon DEF Shows
      <3>3. 1 \in DOMAIN e
        BY <1>8, <3>1
      <3>. QED
        BY <1>2, <2>2, <3>2, <3>3, Zenon
    <2>. QED
      BY <2>1, <2>2
  <1>. QED
    BY <1>2, <1>9, <1>10, Zenon DEF Matches

\* Objects that have been read, with all they refer to.
Complete(h, hp, who, got, C) ==
    /\ C \subseteq DOMAIN hp
    /\ \A n \in C :
        /\ IsDone(h, who[n], got[n])
        /\ \A g \in Dec!Fields(hp[n].type) :
            /\ FieldOK(h, hp, who, got, n, g)
            /\ \A y : HasRef(hp, n, g, y) => y \in C

LEMMA ObjectTypes ==
    ASSUME NEW h, NEW hp, NEW who, NEW got, Objects(h, hp, who, got)
    PROVE  KnownTypes(hp)
  BY Zenon DEF Objects, KnownTypes

LEMMA CompleteAreSame ==
    ASSUME NEW h, Enc!SizableMessages(h), Readable(h), NEW hp, NEW who, NEW got,
           Objects(h, hp, who, got), NEW C, Complete(h, hp, who, got, C)
    PROVE  \A n \in C : SameOf(h, hp)[who[n]][n]
  <1> DEFINE s == SameOf(h, hp)
             N == Len(h)
             T == {m \in 1 .. N : \A n \in C : who[n] = m => s[m][n]}
  <1>1. N \in Nat /\ DOMAIN h = 1 .. N
    BY MessagesAreSeq
  <1>2. KnownTypes(hp)
    BY ObjectTypes
  <1>3. ASSUME NEW m \in 1 .. N, \A j \in (m + 1) .. N : j \in T
        PROVE  m \in T
    <2>1. SUFFICES ASSUME NEW n \in C, who[n] = m
                   PROVE  s[m][n]
      OBVIOUS
    <2>2. \A j \in (m + 1) .. N : \A y \in C : who[y] = j => s[j][y]
      BY <1>3
    <2> HIDE DEF s, T
    <2>3. n \in DOMAIN hp /\ IsDone(h, m, got[n]) /\ m \in DOMAIN h
      BY <1>1, <2>1 DEF Complete
    <2>4. ASSUME NEW g \in Dec!Fields(hp[n].type)
          PROVE  FieldAlike(h, hp, s, m, n, g)
      <3>1. /\ FieldOK(h, hp, who, got, n, g)
            /\ \A y : HasRef(hp, n, g, y) => y \in C
        BY <2>1, <2>4, Zenon DEF Complete
      <3>2. ASSUME NEW y \in DOMAIN hp, HasRef(hp, n, g, y)
            PROVE  s[who[y]][y]
        <4>1. who[y] \in (m + 1) .. N
          <5>1. m = who[n]
            BY <2>1
          <5>. QED
            BY <2>3, <3>1, <3>2, <5>1, RefIsYounger
        <4>2. y \in C
          BY <3>1, <3>2, Zenon
        <4>. QED
          BY <2>2, <4>1, <4>2, Zenon
      <3>3. RefsAlike(h, hp, who, s, n, g)
        BY <3>2, Zenon DEF RefsAlike
      <3>4. m = who[n]
        BY <2>1
      <3>. QED
        BY <2>3, <3>1, <3>3, <3>4, FieldIsSame
    <2>5. hp[n].type = h[m].type
      <3>1. hp[n].type = h[who[n]].type
        BY <2>3, ObjectsAre
      <3>. QED
        BY <2>1, <3>1
    <2>6. Alike(h, hp, s, m, n)
      BY <2>4, <2>5, Zenon DEF Alike
    <2>. QED
      BY <1>2, <2>3, <2>6, SameRows DEF s
  <1>4. \A m \in 1 .. N : m \in T
    <2> HIDE DEF T, N
    <2>. QED
      BY <1>1, <1>3, BackwardInduction
  <1>5. ASSUME NEW n \in C
        PROVE  s[who[n]][n]
    <2>1. n \in DOMAIN hp
      BY DEF Complete
    <2>2. who[n] \in 1 .. N
      BY <1>1, <2>1, ObjectsAre
    <2> HIDE DEF s
    <2>. QED
      BY <1>4, <2>2
  <1>. QED
    BY <1>5

LEMMA GoneIsComplete ==
    ASSUME NEW h, Enc!SizableMessages(h), Readable(h), NEW hp, NEW st, NEW lbl,
           NEW res, NEW who, NEW got, Gone(h, hp, st, lbl, res, who, got)
    PROVE  res = "true" /\ SameOf(h, hp)[1][1]
  <1>1. /\ Objects(h, hp, who, got) /\ Finished(h, hp, st, who, got)
        /\ st = <<>> /\ res = "true" /\ FieldsOK(h, hp, who, got, Nowhere)
    BY Zenon DEF Gone, Returned
  <1>2. \A n \in DOMAIN hp : IsDone(h, who[n], got[n])
    <2>1. \A n : ~ OnStack(st, n)
      <3>1. DOMAIN st = {}
        BY <1>1
      <3>. QED
        BY <3>1 DEF OnStack
    <2>. QED
      BY <1>1, <2>1, Zenon DEF Finished
  <1>3. DOMAIN hp = 1 .. Len(hp) /\ 1 \in DOMAIN hp /\ who[1] = 1
    <2>1. IsSeq(hp) /\ hp # <<>> /\ who[1] = 1
      BY <1>1, Zenon DEF Objects
    <2>2. Len(hp) \in Nat /\ DOMAIN hp = 1 .. Len(hp)
      BY <2>1, IsSeqLen
    <2>3. Len(hp) # 0
      <3>1. hp \in Seq({hp[i] : i \in DOMAIN hp})
        BY <2>1 DEF IsSeq, Enc!IsSeq
      <3>. QED
        BY <2>1, <3>1, EmptySeq
    <2>. QED
      BY <2>1, <2>2, <2>3
  <1>4. \A n \in DOMAIN hp : \A g \in Dec!Fields(hp[n].type) :
            FieldOK(h, hp, who, got, n, g)
    <2>1. \A n \in DOMAIN hp : \A k : <<n, k>> # Nowhere
      BY <1>3 DEF Nowhere
    <2>. QED
      BY <1>1, <2>1, Zenon DEF FieldsOK
  <1>5. \A n \in DOMAIN hp : \A g \in Dec!Fields(hp[n].type) :
            \A y : HasRef(hp, n, g, y) => y \in DOMAIN hp
    <2>1. SUFFICES ASSUME NEW n \in DOMAIN hp, NEW g \in Dec!Fields(hp[n].type),
                          NEW y, HasRef(hp, n, g, y)
                   PROVE  y \in DOMAIN hp
      OBVIOUS
    <2>2. FieldOK(h, hp, who, got, n, g)
      BY <1>4
    <2>3. PICK m : m = who[n]
      OBVIOUS
    <2>. QED
      BY <1>1, <2>1, <2>2, <2>3, RefIsYounger
  <1> DEFINE C == DOMAIN hp
  <1>6. Complete(h, hp, who, got, C)
    BY <1>2, <1>4, <1>5, Zenon DEF Complete
  <1> HIDE DEF C
  <1>7. \A n \in C : SameOf(h, hp)[who[n]][n]
    BY <1>1, <1>6, CompleteAreSame
  <1>. QED
    BY <1>1, <1>3, <1>7 DEF C

LEMMA MirrorsRoundTrip ==
    ASSUME SourcesAreReadable, Mirrors
    PROVE  RoundTrip
  <1>1. SUFFICES ASSUME pc = "done", refused = 0
                 PROVE  result = "true" /\ SameMessage[1][1]
    BY Zenon DEF RoundTrip
  <1>2. /\ src \in Sources
        /\ Mirror(src, heap, stack, consumed, pc, rd, field, result)
    BY <1>1, Zenon DEF Mirrors, Encoding
  <1>3. Enc!SizableMessages(src) /\ Readable(src)
    BY <1>2, Zenon DEF SourcesAreReadable
  <1>4. PICK who, got :
            Follows(src, heap, stack, consumed, pc, rd, field, result, who, got)
    BY <1>2, Zenon DEF Mirror
  <1>5. ~ Going(src, heap, stack, consumed, pc, rd, field, who, got)
    BY <1>1, Zenon DEF Going
  <1>6. Gone(src, heap, stack, pc, result, who, got)
    BY <1>4, <1>5, FollowsIs, Zenon
  <1>7. result = "true" /\ SameOf(src, heap)[1][1]
    BY <1>3, <1>6, GoneIsComplete
  <1>8. SameMessage = SameOf(src, heap)
    BY SameMessageIs, Zenon DEF SameOf
  <1>. QED
    BY <1>7, <1>8

\* What is decoded is what was encoded, for every pair of schemas and every
\* message whose sizes are right and which the reader's program can take: the
\* generated Encode, on one side of a stream that takes every byte, and
\* DecodeMessage on the other.
THEOREM DecodeMirrorsEncode ==
    ASSUME \A h \in Sources : Enc!SizableMessages(h) /\ Readable(h)
    PROVE  Spec => []RoundTrip
  <1>1. SourcesAreReadable
    BY DEF SourcesAreReadable
  <1>2. Spec => []Mirrors
    BY <1>1, ReaderMirrors
  <1>3. Mirrors => RoundTrip
    BY <1>1, MirrorsRoundTrip
  <1>. QED
    BY <1>2, <1>3, PTL

-----------------------------------------------------------------------------
(* Which of the objects that a field refers to may be incomplete.          *)

\* The object y is read in an activation called by that of n.
Under(st, n, y) ==
    \E a \in 1 .. (Len(st) - 1) : st[a].msg = n /\ st[a + 1].msg = y

\* An object that is being read is in a field of the one below it in the stack.
RefsFollow(hp, st) ==
    \A n \in DOMAIN hp : \A g \in Dec!Fields(hp[n].type) : \A y :
        HasRef(hp, n, g, y) /\ OnStack(st, y) => Under(st, n, y)

\* No element of a repeated field but the last is being read.
Earlier(st, g, w) ==
    g.type = "message" /\ g.repeated =>
        \A k \in 1 .. (Len(w) - 1) : ~ OnStack(st, w[k])

LastOpen(hp, st) ==
    \A n \in DOMAIN hp : \A g \in Dec!Fields(hp[n].type) :
        Earlier(st, g, hp[n].val[g.num])

Refs(hp, st) == RefsFollow(hp, st) /\ LastOpen(hp, st)

\* All activations have returned.
LEMMA RefsEmpty ==
    ASSUME NEW hp
    PROVE  Refs(hp, <<>>)
  <1>1. \A y : ~ OnStack(<<>>, y)
    BY DEF OnStack
  <1>. QED
    BY <1>1, Zenon DEF Refs, RefsFollow, LastOpen, Earlier

\* The message objects refer to the same objects.
SameRefs(hp, hq) ==
    /\ DOMAIN hq = DOMAIN hp
    /\ \A n \in DOMAIN hp :
        /\ hq[n].type = hp[n].type
        /\ \A g \in Dec!Fields(hp[n].type) :
            g.type = "message" => hq[n].val[g.num] = hp[n].val[g.num]

LEMMA RefsSame ==
    ASSUME NEW hp, NEW hq, NEW st, Refs(hp, st), SameRefs(hp, hq)
    PROVE  Refs(hq, st)
  <1>1. ASSUME NEW n \in DOMAIN hq, NEW g \in Dec!Fields(hq[n].type), NEW y,
               HasRef(hq, n, g, y), OnStack(st, y)
        PROVE  Under(st, n, y)
    <2>1. n \in DOMAIN hp /\ g \in Dec!Fields(hp[n].type) /\ g.type = "message"
      BY <1>1 DEF SameRefs, HasRef, Refers
    <2>2. hq[n].val[g.num] = hp[n].val[g.num]
      BY <2>1, Zenon DEF SameRefs
    <2>3. HasRef(hp, n, g, y)
      BY <1>1, <2>2, Zenon DEF HasRef
    <2>. QED
      BY <1>1, <2>1, <2>3, Zenon DEF Refs, RefsFollow
  <1>2. ASSUME NEW n \in DOMAIN hq, NEW g \in Dec!Fields(hq[n].type)
        PROVE  Earlier(st, g, hq[n].val[g.num])
    <2>1. n \in DOMAIN hp /\ g \in Dec!Fields(hp[n].type)
      BY <1>2 DEF SameRefs
    <2>2. Earlier(st, g, hp[n].val[g.num])
      BY <2>1, Zenon DEF Refs, LastOpen
    <2>3. CASE g.type = "message"
      <3>1. hq[n].val[g.num] = hp[n].val[g.num]
        BY <2>1, <2>3, Zenon DEF SameRefs
      <3>. QED
        BY <2>2, <3>1
    <2>4. CASE g.type # "message"
      BY <2>4, Zenon DEF Earlier
    <2>. QED
      BY <2>3, <2>4
  <1>. QED
    BY <1>1, <1>2, Zenon DEF Refs, RefsFollow, LastOpen

\* The activations are those of different objects.
Distinct(st) ==
    /\ Len(st) \in Nat \ {0} /\ DOMAIN st = 1 .. Len(st)
    /\ \A a, b \in DOMAIN st : st[a].msg = st[b].msg => a = b

\* The innermost of several activations returns.
LEMMA RefsReturn ==
    ASSUME NEW hp, NEW st, IsSeq(st), Distinct(st), Refs(hp, st)
    PROVE  Refs(hp, SubSeq(st, 1, Len(st) - 1))
  <1> DEFINE z == Len(st)
             sq == SubSeq(st, 1, z - 1)
  <1>1. z \in Nat \ {0} /\ DOMAIN st = 1 .. z
    BY DEF Distinct
  <1>2. Len(sq) = z - 1 /\ DOMAIN sq = 1 .. (z - 1)
        /\ \A a \in 1 .. (z - 1) : sq[a] = st[a]
    <2>1. st \in Seq({st[i] : i \in DOMAIN st})
      BY DEF IsSeq, Enc!IsSeq
    <2> HIDE DEF z
    <2>2. z = Len(st)
      BY DEF z
    <2>. QED
      BY <1>1, <2>1, <2>2, SubSeqProperties
  <1> HIDE DEF sq, z
  <1>3. \A y : OnStack(sq, y) => OnStack(st, y)
    BY <1>1, <1>2 DEF OnStack
  <1>4. ASSUME NEW n \in DOMAIN hp, NEW g \in Dec!Fields(hp[n].type), NEW y,
               HasRef(hp, n, g, y), OnStack(sq, y)
        PROVE  Under(sq, n, y)
    <2>1. OnStack(st, y)
      BY <1>3, <1>4
    <2>2. PICK a \in 1 .. (z - 1) : st[a].msg = n /\ st[a + 1].msg = y
      <3>1. Under(st, n, y)
        BY <1>4, <2>1, Zenon DEF Refs, RefsFollow
      <3>. QED
        BY <3>1, Zenon DEF Under, z
    <2>3. PICK b \in 1 .. (z - 1) : sq[b].msg = y
      BY <1>2, <1>4 DEF OnStack
    <2>4. st[b].msg = y /\ a + 1 \in DOMAIN st /\ b \in DOMAIN st
      BY <1>1, <1>2, <2>2, <2>3
    <2>5. a + 1 = b
      BY <2>2, <2>4, Zenon DEF Distinct
    <2>6. a \in 1 .. (Len(sq) - 1) /\ sq[a] = st[a] /\ sq[a + 1] = st[a + 1]
      BY <1>1, <1>2, <2>2, <2>3, <2>5
    <2>. QED
      BY <2>2, <2>6 DEF Under
  <1>5. ASSUME NEW n \in DOMAIN hp, NEW g \in Dec!Fields(hp[n].type)
        PROVE  Earlier(sq, g, hp[n].val[g.num])
    <2>1. Earlier(st, g, hp[n].val[g.num])
      BY Zenon DEF Refs, LastOpen
    <2>. QED
      BY <1>3, <2>1, Zenon DEF Earlier
  <1>6. Refs(hp, sq)
    BY <1>4, <1>5, Zenon DEF Refs, RefsFollow, LastOpen
  <1>. QED
    BY <1>6 DEF sq, z

\* All that is referred to are objects.
RefsInside(hp) ==
    \A n \in DOMAIN hp : \A g \in Dec!Fields(hp[n].type) : \A y :
        HasRef(hp, n, g, y) => y \in DOMAIN hp

\* A default value refers to nothing.
LEMMA DefaultRefersNot ==
    ASSUME NEW g, NEW w, w = Dec!DefaultValue(g), NEW y
    PROVE  ~ Refers(g, w, y)
  <1>1. SUFFICES ASSUME g.type = "message"
                 PROVE  ~ Refers(g, w, y)
    BY Zenon DEF Refers
  <1>2. CASE g.repeated
    <2>1. w = <<>>
      BY <1>2 DEF Dec!DefaultValue
    <2>2. DOMAIN w = {}
      BY <2>1
    <2>. QED
      BY <1>2, <2>2, Zenon DEF Refers
  <1>3. CASE ~ g.repeated
    <2>1. w = 0
      BY <1>1, <1>3 DEF Dec!DefaultValue
    <2>. QED
      BY <1>3, <2>1, Zenon DEF Refers
  <1>. QED
    BY <1>2, <1>3

\* The new objects: all are as before but the field g of n, which has one
\* reference more, and the last, which has none.
Opened(hp, hq, n, g) ==
    LET N == Len(hp)
    IN  /\ N \in Nat /\ DOMAIN hp = 1 .. N /\ DOMAIN hq = 1 .. (N + 1)
        /\ \A f \in Dec!Fields(hq[N + 1].type) :
            hq[N + 1].val[f.num] = Dec!DefaultValue(f)
        /\ \A j \in 1 .. N :
            /\ hq[j].type = hp[j].type
            /\ \A f \in Dec!Fields(hp[j].type) :
                \/ j = n /\ f = g
                \/ hq[j].val[f.num] = hp[j].val[f.num]
        /\ n \in 1 .. N
        /\ g.type = "message"
        /\ g.repeated => IsSeq(hp[n].val[g.num])
        /\ hq[n].val[g.num] = Dec!Added(g, hp[n].val[g.num], N + 1)

\* What the value refers to then.
LEMMA AddedRefers ==
    ASSUME NEW g, NEW w, g.repeated => IsSeq(w), NEW x, NEW y,
           Refers(g, Dec!Added(g, w, x), y)
    PROVE  y = x \/ (g.repeated /\ Refers(g, w, y))
  <1> DEFINE v == Dec!Added(g, w, x)
  <1>1. CASE g.repeated
    <2>1. v = Append(w, x) /\ IsSeq(w)
      BY <1>1 DEF Dec!Added
    <2>2. /\ DOMAIN v = 1 .. Len(w) + 1
          /\ \A i \in 1 .. Len(w) : v[i] = w[i]
          /\ v[Len(w) + 1] = x
          /\ DOMAIN w = 1 .. Len(w) /\ Len(w) \in Nat
      BY <2>1, IsSeqAppend, IsSeqLen
    <2> HIDE DEF v
    <2>3. PICK j \in DOMAIN v : v[j] = y
      BY <1>1, Zenon DEF Refers, v
    <2>4. j = Len(w) + 1 \/ j \in 1 .. Len(w)
      <3> DEFINE z == Len(w)
      <3>1. z \in Nat /\ j \in 1 .. z + 1
        BY <2>2, <2>3
      <3> HIDE DEF z
      <3>2. j = z + 1 \/ j \in 1 .. z
        BY <3>1
      <3>. QED
        BY <3>2 DEF z
    <2>5. CASE j = Len(w) + 1
      BY <2>2, <2>3, <2>5
    <2>6. CASE j \in 1 .. Len(w)
      <3>1. w[j] = y /\ j \in DOMAIN w /\ g.type = "message"
        BY <2>2, <2>3, <2>6 DEF Refers
      <3>. QED
        BY <1>1, <3>1, Zenon DEF Refers
    <2>. QED
      BY <2>4, <2>5, <2>6
  <1>2. CASE ~ g.repeated
    <2>1. v = x
      BY <1>2 DEF Dec!Added
    <2> HIDE DEF v
    <2>. QED
      BY <1>2, <2>1, Zenon DEF Refers, v
  <1>. QED
    BY <1>1, <1>2

\* Which object a field refers to after a call.
LEMMA OpenedRefs ==
    ASSUME NEW hp, NEW hq, NEW n, NEW g, Opened(hp, hq, n, g), RefsInside(hp),
           NEW j \in DOMAIN hq, NEW f \in Dec!Fields(hq[j].type), NEW y,
           HasRef(hq, j, f, y)
    PROVE  \/ j = n /\ f = g /\ y = Len(hp) + 1
           \/ /\ j \in DOMAIN hp /\ f \in Dec!Fields(hp[j].type)
              /\ HasRef(hp, j, f, y) /\ y \in DOMAIN hp
  <1> DEFINE N == Len(hp)
  <1>1. /\ N \in Nat /\ DOMAIN hp = 1 .. N /\ DOMAIN hq = 1 .. (N + 1)
        /\ \A e \in Dec!Fields(hq[N + 1].type) :
            hq[N + 1].val[e.num] = Dec!DefaultValue(e)
        /\ \A i \in 1 .. N :
            /\ hq[i].type = hp[i].type
            /\ \A e \in Dec!Fields(hp[i].type) :
                \/ i = n /\ e = g
                \/ hq[i].val[e.num] = hp[i].val[e.num]
        /\ g.repeated => IsSeq(hp[n].val[g.num])
        /\ hq[n].val[g.num] = Dec!Added(g, hp[n].val[g.num], N + 1)
    BY Zenon DEF Opened
  <1> HIDE DEF N
  <1>2. j = N + 1 \/ j \in 1 .. N
    BY <1>1
  <1>3. j # N + 1
    <2>1. SUFFICES ASSUME j = N + 1
                   PROVE  FALSE
      OBVIOUS
    <2>2. hq[j].val[f.num] = Dec!DefaultValue(f)
      BY <1>1, <2>1
    <2>3. ~ Refers(f, hq[j].val[f.num], y)
      BY <2>2, DefaultRefersNot
    <2>. QED
      BY <2>3, Zenon DEF HasRef
  <1>4. j \in 1 .. N /\ j \in DOMAIN hp /\ hq[j].type = hp[j].type
    BY <1>1, <1>2, <1>3
  <1>5. f \in Dec!Fields(hp[j].type)
    BY <1>4
  <1>6. CASE hq[j].val[f.num] = hp[j].val[f.num]
    <2>1. HasRef(hp, j, f, y)
      BY <1>6, Zenon DEF HasRef
    <2>. QED
      BY <1>4, <1>5, <2>1, Zenon DEF RefsInside
  <1>7. CASE j = n /\ f = g
    <2> DEFINE w == hp[n].val[g.num]
    <2>1. Refers(g, Dec!Added(g, w, N + 1), y)
      BY <1>1, <1>7, Zenon DEF HasRef
    <2>2. g.repeated => IsSeq(w)
      BY <1>1
    <2>3. y = N + 1 \/ Refers(g, w, y)
      <3> HIDE DEF w
      <3>. QED
        BY <2>1, <2>2, AddedRefers
    <2>4. CASE y = N + 1
      BY <1>7, <2>4 DEF N
    <2>5. CASE Refers(g, w, y)
      <3>1. HasRef(hp, j, f, y)
        BY <1>7, <2>5, Zenon DEF HasRef
      <3>. QED
        BY <1>4, <1>5, <3>1, Zenon DEF RefsInside
    <2>. QED
      BY <2>3, <2>4, <2>5
  <1>. QED
    BY <1>1, <1>4, <1>5, <1>6, <1>7, Zenon

\* The repeated fields of messages hold sequences.
Lists(hp) ==
    \A n \in DOMAIN hp : \A g \in Dec!Fields(hp[n].type) :
        g.type = "message" /\ g.repeated => IsSeq(hp[n].val[g.num])

\* A call of DecodeMessage for a new object in the field g of the object on
\* top of the stack.
Calling(hp, hq, st, g) ==
    /\ Opened(hp, hq, TopOf(st), g) /\ g \in Dec!Fields(hp[TopOf(st)].type)
    /\ RefsInside(hp) /\ Lists(hp)
    /\ IsSeq(st) /\ Distinct(st)
    /\ \A a \in DOMAIN st : st[a].msg \in DOMAIN hp

\* The stack after it.
CalledIs(hp, st, tt) ==
    /\ \A y : OnStack(tt, y) => y = Len(hp) + 1 \/ OnStack(st, y)
    /\ \A n, y : Under(st, n, y) => Under(tt, n, y)
    /\ Under(tt, TopOf(st), Len(hp) + 1)
    /\ \A y : ~ Under(st, TopOf(st), y)

LEMMA StackCalls ==
    ASSUME NEW hp, NEW hq, NEW st, NEW g, Calling(hp, hq, st, g),
           NEW fr, fr.msg = Len(hp) + 1
    PROVE  CalledIs(hp, st, Append(st, fr))
  <1> DEFINE z == Len(st)
             tt == Append(st, fr)
             N == Len(hp)
  <1>1. z \in Nat \ {0} /\ DOMAIN st = 1 .. z /\ IsSeq(st)
    BY Zenon DEF Calling, Distinct
  <1>2. /\ Len(tt) = z + 1 /\ DOMAIN tt = 1 .. (z + 1)
        /\ \A a \in 1 .. z : tt[a] = st[a]
        /\ tt[z + 1] = fr
    BY <1>1, IsSeqAppend
  <1> HIDE DEF tt
  <1>3. ASSUME NEW y, OnStack(tt, y)
        PROVE  y = N + 1 \/ OnStack(st, y)
    <2>1. PICK a \in DOMAIN tt : tt[a].msg = y
      BY <1>3, Zenon DEF OnStack
    <2>2. a = z + 1 \/ a \in 1 .. z
      <3> HIDE DEF z
      <3>. QED
        BY <1>1, <1>2, <2>1
    <2>3. CASE a = z + 1
      BY <1>2, <2>1, <2>3
    <2>4. CASE a \in 1 .. z
      <3>1. st[a].msg = y /\ a \in DOMAIN st
        BY <1>1, <1>2, <2>1, <2>4
      <3>. QED
        BY <3>1, Zenon DEF OnStack
    <2>. QED
      BY <2>2, <2>3, <2>4
  <1>4. ASSUME NEW n, NEW y, Under(st, n, y)
        PROVE  Under(tt, n, y)
    <2>1. PICK a \in 1 .. (z - 1) : st[a].msg = n /\ st[a + 1].msg = y
      BY <1>4, Zenon DEF Under
    <2>2. a \in 1 .. z /\ a + 1 \in 1 .. z /\ a \in 1 .. ((z + 1) - 1)
      <3> HIDE DEF z
      <3>. QED
        BY <1>1, <2>1
    <2>3. tt[a].msg = n /\ tt[a + 1].msg = y /\ a \in 1 .. (Len(tt) - 1)
      <3> HIDE DEF z
      <3>1. tt[a] = st[a] /\ tt[a + 1] = st[a + 1]
        BY <1>2, <2>2, Zenon
      <3>2. Len(tt) = z + 1
        BY <1>2, Zenon
      <3>3. a \in 1 .. (Len(tt) - 1)
        BY <2>2, <3>2, Zenon
      <3>. QED
        BY <2>1, <3>1, <3>3
    <2>. QED
      BY <2>3, Zenon DEF Under
  <1>5. Under(tt, TopOf(st), N + 1)
    <2>1. z \in 1 .. z /\ z \in 1 .. ((z + 1) - 1)
      <3> HIDE DEF z
      <3>. QED
        BY <1>1
    <2>2. tt[z] = st[z] /\ tt[z + 1] = fr /\ z \in 1 .. (Len(tt) - 1)
      <3> HIDE DEF z
      <3>. QED
        BY <1>2, <2>1
    <2>3. tt[z].msg = TopOf(st) /\ tt[z + 1].msg = N + 1
      BY <2>2 DEF TopOf
    <2> HIDE DEF z, N
    <2>. QED
      BY <2>2, <2>3, Zenon DEF Under
  <1>6. ASSUME NEW y, Under(st, TopOf(st), y)
        PROVE  FALSE
    <2>1. PICK a \in 1 .. (z - 1) : st[a].msg = TopOf(st)
      BY <1>6, Zenon DEF Under
    <2>2. a \in DOMAIN st /\ z \in DOMAIN st /\ a # z
      <3> HIDE DEF z
      <3>. QED
        BY <1>1, <2>1
    <2>3. st[a].msg = st[z].msg
      BY <2>1 DEF TopOf
    <2>. QED
      BY <2>2, <2>3, Zenon DEF Calling, Distinct
  <1> HIDE DEF z, N
  <1>. QED
    BY <1>3, <1>4, <1>5, <1>6, Zenon DEF CalledIs, tt, N

\* A new object is the only one that the field may have on the stack.
LEMMA AddedEarlier ==
    ASSUME NEW hp, NEW hq, NEW st, NEW g, Calling(hp, hq, st, g),
           NEW tt, CalledIs(hp, st, tt), Refs(hp, st)
    PROVE  Earlier(tt, g, hq[TopOf(st)].val[g.num])
  <1> DEFINE n == TopOf(st)
             w == hp[n].val[g.num]
             v == hq[n].val[g.num]
             N == Len(hp)
  <1>1. SUFFICES ASSUME g.type = "message", g.repeated,
                        NEW k \in 1 .. (Len(v) - 1), OnStack(tt, v[k])
                 PROVE  FALSE
    BY Zenon DEF Earlier
  <1>2. /\ IsSeq(w) /\ v = Append(w, N + 1) /\ n \in DOMAIN hp
        /\ N \in Nat /\ DOMAIN hp = 1 .. N
    <2>1. Opened(hp, hq, n, g)
      BY Zenon DEF Calling
    <2>2. v = Dec!Added(g, w, N + 1) /\ IsSeq(w) /\ n \in 1 .. N
          /\ N \in Nat /\ DOMAIN hp = 1 .. N
      BY <1>1, <2>1, Zenon DEF Opened
    <2> HIDE DEF w, v, N, n
    <2>. QED
      BY <1>1, <2>2, Zenon DEF Dec!Added
  <1>3. /\ Len(v) = Len(w) + 1 /\ Len(w) \in Nat /\ DOMAIN w = 1 .. Len(w)
        /\ \A i \in 1 .. Len(w) : v[i] = w[i]
    <2> DEFINE x == N + 1
    <2>1. v = Append(w, x) /\ IsSeq(w)
      BY <1>2
    <2> HIDE DEF w, v, x
    <2>. QED
      BY <2>1, IsSeqAppend, IsSeqLen
  <1>4. g \in Dec!Fields(hp[n].type)
    BY Zenon DEF Calling
  <1>5. k \in DOMAIN w /\ v[k] = w[k]
    BY <1>1, <1>3
  <1> HIDE DEF w, v
  <1>6. HasRef(hp, n, g, w[k])
    BY <1>1, <1>5, Zenon DEF HasRef, Refers, w
  <1>7. w[k] \in DOMAIN hp
    BY <1>2, <1>4, <1>6, Zenon DEF Calling, RefsInside
  <1>8. w[k] # N + 1
    BY <1>2, <1>7
  <1>9. OnStack(st, w[k])
    BY <1>1, <1>5, <1>8, Zenon DEF CalledIs, N
  <1>10. Under(st, n, w[k])
    BY <1>2, <1>4, <1>6, <1>9, Zenon DEF Refs, RefsFollow
  <1>. QED
    BY <1>10, Zenon DEF CalledIs

LEMMA OldEarlier ==
    ASSUME NEW hp, NEW hq, NEW st, NEW g, Calling(hp, hq, st, g),
           NEW tt, CalledIs(hp, st, tt), Refs(hp, st),
           NEW j \in DOMAIN hp, NEW f \in Dec!Fields(hp[j].type)
    PROVE  Earlier(tt, f, hp[j].val[f.num])
  <1> DEFINE w == hp[j].val[f.num]
             N == Len(hp)
  <1>1. SUFFICES ASSUME f.type = "message", f.repeated,
                        NEW k \in 1 .. (Len(w) - 1), OnStack(tt, w[k])
                 PROVE  FALSE
    BY Zenon DEF Earlier
  <1>2. IsSeq(w) /\ N \in Nat /\ DOMAIN hp = 1 .. N
    BY <1>1 DEF Calling, Opened, Lists
  <1>3. Len(w) \in Nat /\ DOMAIN w = 1 .. Len(w)
    BY <1>2, IsSeqLen
  <1>4. k \in DOMAIN w
    BY <1>1, <1>3
  <1>5. Earlier(st, f, w)
    BY Zenon DEF Refs, LastOpen
  <1> HIDE DEF w
  <1>6. HasRef(hp, j, f, w[k])
    BY <1>1, <1>4, Zenon DEF HasRef, Refers, w
  <1>7. w[k] \in DOMAIN hp
    BY <1>6, Zenon DEF Calling, RefsInside
  <1>8. w[k] # N + 1
    BY <1>2, <1>7
  <1>9. OnStack(st, w[k])
    BY <1>1, <1>8, Zenon DEF CalledIs, N
  <1>. QED
    BY <1>1, <1>5, <1>9, Zenon DEF Earlier

LEMMA RefsCall ==
    ASSUME NEW hp, NEW hq, NEW st, NEW g, Calling(hp, hq, st, g),
           NEW tt, CalledIs(hp, st, tt), Refs(hp, st)
    PROVE  Refs(hq, tt)
  <1> DEFINE N == Len(hp)
             n == TopOf(st)
  <1>0. Opened(hp, hq, n, g) /\ RefsInside(hp)
    BY Zenon DEF Calling
  <1>1. /\ N \in Nat /\ DOMAIN hp = 1 .. N /\ DOMAIN hq = 1 .. (N + 1)
        /\ \A f \in Dec!Fields(hq[N + 1].type) :
            hq[N + 1].val[f.num] = Dec!DefaultValue(f)
        /\ \A j \in 1 .. N :
            /\ hq[j].type = hp[j].type
            /\ \A f \in Dec!Fields(hp[j].type) :
                \/ j = n /\ f = g
                \/ hq[j].val[f.num] = hp[j].val[f.num]
    BY <1>0, Zenon DEF Opened
  <1>2. ASSUME NEW j \in DOMAIN hq, NEW f \in Dec!Fields(hq[j].type), NEW y,
               HasRef(hq, j, f, y), OnStack(tt, y)
        PROVE  Under(tt, j, y)
    <2>1. \/ j = n /\ f = g /\ y = N + 1
          \/ /\ j \in DOMAIN hp /\ f \in Dec!Fields(hp[j].type)
             /\ HasRef(hp, j, f, y) /\ y \in DOMAIN hp
      BY <1>0, <1>2, OpenedRefs
    <2>2. CASE j = n /\ y = N + 1
      BY <2>2, Zenon DEF CalledIs
    <2>3. CASE /\ j \in DOMAIN hp /\ f \in Dec!Fields(hp[j].type)
               /\ HasRef(hp, j, f, y) /\ y \in DOMAIN hp
      <3>1. y # N + 1
        <4> HIDE DEF N
        <4>. QED
          BY <1>1, <2>3
      <3>2. OnStack(st, y)
        BY <1>2, <3>1, Zenon DEF CalledIs
      <3>3. Under(st, j, y)
        BY <2>3, <3>2, Zenon DEF Refs, RefsFollow
      <3>. QED
        BY <3>3, Zenon DEF CalledIs
    <2>. QED
      BY <2>1, <2>2, <2>3, Zenon
  <1>3. ASSUME NEW j \in DOMAIN hq, NEW f \in Dec!Fields(hq[j].type)
        PROVE  Earlier(tt, f, hq[j].val[f.num])
    <2>1. j = N + 1 \/ j \in 1 .. N
      <3> HIDE DEF N
      <3>. QED
        BY <1>1
    <2>2. CASE j = N + 1
      <3>1. hq[j].val[f.num] = Dec!DefaultValue(f)
        BY <1>1, <2>2, Zenon
      <3>2. f.repeated => Dec!DefaultValue(f) = <<>>
        BY DEF Dec!DefaultValue
      <3>3. \A k \in 1 .. (Len(<<>>) - 1) : FALSE
        OBVIOUS
      <3>4. f.repeated => \A k \in 1 .. (Len(hq[j].val[f.num]) - 1) : FALSE
        BY <3>1, <3>2, <3>3, Zenon
      <3>. QED
        BY <3>4, Zenon DEF Earlier
    <2>3. CASE j \in 1 .. N
      <3>1. j \in DOMAIN hp /\ f \in Dec!Fields(hp[j].type)
        <4>1. hq[j].type = hp[j].type
          BY <1>1, <2>3
        <4>. QED
          BY <1>1, <2>3, <4>1
      <3>2. CASE j = n /\ f = g
        <4>1. Earlier(tt, g, hq[TopOf(st)].val[g.num])
          BY AddedEarlier
        <4>. QED
          BY <3>2, <4>1
      <3>3. CASE hq[j].val[f.num] = hp[j].val[f.num]
        <4>1. Earlier(tt, f, hp[j].val[f.num])
          BY <3>1, OldEarlier
        <4>. QED
          BY <3>3, <4>1, Zenon
      <3>. QED
        BY <1>1, <2>3, <3>1, <3>2, <3>3, Zenon
    <2>. QED
      BY <2>1, <2>2, <2>3
  <1>. QED
    BY <1>2, <1>3, Zenon DEF Refs, RefsFollow, LastOpen

\* The fields of messages hold what has been read.
MessagesOK(h, hp, who, got) ==
    \A n \in DOMAIN hp : \A g \in Dec!Fields(hp[n].type) :
        g.type = "message" => FieldOK(h, hp, who, got, n, g)

LEMMA MessagesAreOK ==
    ASSUME NEW h, NEW hp, NEW who, NEW got, Objects(h, hp, who, got),
           FieldsOK(h, hp, who, got, Nowhere)
    PROVE  MessagesOK(h, hp, who, got)
  <1>1. ASSUME NEW n \in DOMAIN hp, NEW g \in Dec!Fields(hp[n].type)
        PROVE  FieldOK(h, hp, who, got, n, g)
    <2>1. n # 0
      BY <1>1, ObjectsAre
    <2>2. <<n, g.num>> # Nowhere
      BY <2>1 DEF Nowhere
    <2>. QED
      BY <2>2, Zenon DEF FieldsOK
  <1>. QED
    BY <1>1, Zenon DEF MessagesOK

\* What is referred to are objects.
LEMMA RefsAreInside ==
    ASSUME NEW h, Enc!SizableMessages(h), Readable(h), NEW hp, NEW who, NEW got,
           Objects(h, hp, who, got), MessagesOK(h, hp, who, got)
    PROVE  RefsInside(hp) /\ Lists(hp)
  <1>1. ASSUME NEW n \in DOMAIN hp, NEW g \in Dec!Fields(hp[n].type),
               g.type = "message"
        PROVE  FieldOK(h, hp, who, got, n, g)
    BY <1>1, Zenon DEF MessagesOK
  <1>2. RefsInside(hp)
    <2>1. SUFFICES ASSUME NEW n \in DOMAIN hp, NEW g \in Dec!Fields(hp[n].type),
                          NEW y, HasRef(hp, n, g, y)
                   PROVE  y \in DOMAIN hp
      BY Zenon DEF RefsInside
    <2>2. FieldOK(h, hp, who, got, n, g)
      <3>1. g.type = "message"
        BY <2>1, Zenon DEF HasRef, Refers
      <3>. QED
        BY <1>1, <3>1
    <2>3. PICK m : m = who[n]
      OBVIOUS
    <2>. QED
      BY <2>1, <2>2, <2>3, RefIsYounger
  <1>3. Lists(hp)
    <2>1. SUFFICES ASSUME NEW n \in DOMAIN hp, NEW g \in Dec!Fields(hp[n].type),
                          g.type = "message", g.repeated
                   PROVE  IsSeq(hp[n].val[g.num])
      BY Zenon DEF Lists
    <2>2. FieldOK(h, hp, who, got, n, g)
      BY <1>1, <2>1
    <2> DEFINE w == hp[n].val[g.num]
    <2>3. CASE \E i \in FieldsOf(h, who[n]) : FieldOf(h, who[n], i).num = g.num
      <3>1. PICK i \in FieldsOf(h, who[n]) : FieldOf(h, who[n], i).num = g.num
        BY <2>3
      <3>2. Shows(g, Elems(h, who[n], i), got[n][i], hp, who, w)
        BY <2>2, <3>1, Zenon DEF FieldOK
      <3>. QED
        BY <2>1, <3>2, Zenon DEF Shows
    <2>4. CASE \A i \in FieldsOf(h, who[n]) : FieldOf(h, who[n], i).num # g.num
      <3>1. w = Dec!DefaultValue(g)
        BY <2>2, <2>4, Zenon DEF FieldOK
      <3>2. Dec!DefaultValue(g) = <<>>
        BY <2>1 DEF Dec!DefaultValue
      <3>3. IsSeq(<<>>)
        <4>1. <<>> \in Seq({})
          OBVIOUS
        <4>. QED
          BY <4>1, IsSeqIn
      <3>. QED
        BY <3>1, <3>2, <3>3, Zenon
    <2>. QED
      BY <2>3, <2>4
  <1>. QED
    BY <1>2, <1>3

\* The activations are distinct.
LEMMA StackIsDistinct ==
    ASSUME NEW h, Enc!SizableMessages(h), NEW hp, NEW st, NEW c, NEW who, NEW got,
           Static(h, hp, st, c, who, got)
    PROVE  /\ IsSeq(st) /\ Distinct(st)
           /\ \A a \in DOMAIN st : st[a].msg \in DOMAIN hp
  <1>1. Activations(h, hp, st, who, got, c)
    BY Zenon DEF Static
  <1>2. /\ IsSeq(st)
        /\ \A a \in DOMAIN st : st[a].msg \in DOMAIN hp
        /\ \A a, b \in DOMAIN st : st[a].msg = st[b].msg => a = b
        /\ Len(st) \in Nat \ {0} /\ DOMAIN st = 1 .. Len(st)
    BY <1>1, ActivationsAre
  <1>. QED
    BY <1>2, Zenon DEF Distinct

\* An object is created in a field.
LEMMA ObjectIsOpened ==
    ASSUME NEW h, NEW hp, NEW who, NEW got, Objects(h, hp, who, got),
           NEW n \in DOMAIN hp, NEW g \in Dec!Fields(hp[n].type),
           g.type = "message", g.repeated => IsSeq(hp[n].val[g.num]),
           NEW hq, hq = Append(Dec!Store(hp, n, g, Len(hp) + 1),
                               Dec!NewMessage(g.sub))
    PROVE  Opened(hp, hq, n, g)
  <1> DEFINE N == Len(hp)
             x == Dec!NewMessage(g.sub)
             hx == Append(hp, x)
             v == Dec!Added(g, hp[n].val[g.num], N + 1)
  <1>1. /\ IsSeq(hp) /\ N \in Nat /\ DOMAIN hp = 1 .. N /\ n \in 1 .. N
        /\ hp[n].type \in DOMAIN ReaderSchema
        /\ DOMAIN hp[n].val = Dec!Numbers(hp[n].type)
    BY ObjectsAre
  <1>2. g.num \in DOMAIN hp[n].val /\ g.sub \in DOMAIN ReaderSchema
    BY <1>1, ReaderFields
  <1>3. hq = Append(Dec!Assign(hp, n, g.num, v), x)
    BY Zenon DEF Dec!Store
  <1>4. Stored(hx, hq, n, g, v)
    BY <1>2, <1>3, StoreThenAppend
  <1>5. /\ DOMAIN hx = 1 .. (N + 1) /\ hx[N + 1] = x
        /\ \A j \in 1 .. N : hx[j] = hp[j]
    BY <1>1, IsSeqAppend
  <1>6. \A f \in Dec!Fields(x.type) : x.val[f.num] = Dec!DefaultValue(f)
    BY <1>2, NewMessageIs
  <1> HIDE DEF x, hx, v, N
  <1>7. /\ DOMAIN hq = DOMAIN hx
        /\ \A j \in DOMAIN hx : j # n => hq[j] = hx[j]
        /\ hq[n].type = hx[n].type
        /\ \A k \in DOMAIN hx[n].val : k # g.num => hq[n].val[k] = hx[n].val[k]
        /\ hq[n].val[g.num] = v
    BY <1>4, Zenon DEF Stored, Changed
  <1>8. N + 1 \in DOMAIN hx /\ N + 1 # n /\ hx[n] = hp[n]
    BY <1>1, <1>5
  <1>9. hq[N + 1] = x
    BY <1>5, <1>7, <1>8, Zenon
  <1>10. ASSUME NEW j \in 1 .. N
         PROVE  /\ hq[j].type = hp[j].type
                /\ \A f \in Dec!Fields(hp[j].type) :
                    \/ j = n /\ f = g
                    \/ hq[j].val[f.num] = hp[j].val[f.num]
    <2>0. j \in DOMAIN hx /\ hx[j] = hp[j]
      BY <1>1, <1>5
    <2>1. CASE j # n
      BY <1>7, <2>0, <2>1, Zenon
    <2>2. CASE j = n
      <3>1. ASSUME NEW f \in Dec!Fields(hp[n].type), f # g
            PROVE  hq[n].val[f.num] = hp[n].val[f.num]
        <4>1. f.num \in DOMAIN hp[n].val
          BY <1>1, ReaderFields
        <4>2. f.num # g.num
          BY <1>1, <3>1, DistinctFields
        <4>. QED
          BY <1>7, <1>8, <4>1, <4>2, Zenon
      <3>. QED
        BY <1>7, <1>8, <2>2, <3>1, Zenon
    <2>. QED
      BY <2>1, <2>2
  <1>11. /\ N \in Nat /\ DOMAIN hp = 1 .. N /\ DOMAIN hq = 1 .. (N + 1)
         /\ n \in 1 .. N
         /\ hq[n].val[g.num] = v
    BY <1>1, <1>5, <1>7, Zenon
  <1>12. \A f \in Dec!Fields(hq[N + 1].type) :
            hq[N + 1].val[f.num] = Dec!DefaultValue(f)
    BY <1>6, <1>9, Zenon
  <1>. QED
    BY <1>10, <1>11, <1>12, Zenon DEF Opened, v, N

\* The call of DecodeMessage for a sub-message.
LEMMA SubMessageCalls ==
    ASSUME NEW h, Enc!SizableMessages(h), Readable(h), NEW hp, NEW st, NEW c,
           NEW who, NEW got, Static(h, hp, st, c, who, got),
           FieldsOK(h, hp, who, got, Nowhere), NEW g, g.type = "message",
           g \in Dec!Fields(hp[TopOf(st)].type),
           NEW hq, hq = Append(Dec!Store(hp, TopOf(st), g, Len(hp) + 1),
                               Dec!NewMessage(g.sub))
    PROVE  Calling(hp, hq, st, g)
  <1>1. Objects(h, hp, who, got)
    BY Zenon DEF Static
  <1>2. RefsInside(hp) /\ Lists(hp)
    <2>1. MessagesOK(h, hp, who, got)
      BY <1>1, MessagesAreOK
    <2>. QED
      BY <1>1, <2>1, RefsAreInside
  <1>3. /\ IsSeq(st) /\ Distinct(st)
        /\ \A a \in DOMAIN st : st[a].msg \in DOMAIN hp
    BY StackIsDistinct
  <1>4. TopOf(st) \in DOMAIN hp
    BY PlaceOf, Zenon DEF Place
  <1> DEFINE n == TopOf(st)
  <1>5. /\ n \in DOMAIN hp /\ g \in Dec!Fields(hp[n].type)
        /\ g.repeated => IsSeq(hp[n].val[g.num])
        /\ hq = Append(Dec!Store(hp, n, g, Len(hp) + 1), Dec!NewMessage(g.sub))
    BY <1>2, <1>4, Zenon DEF Lists
  <1> HIDE DEF n
  <1>6. Opened(hp, hq, n, g)
    BY <1>1, <1>5, ObjectIsOpened
  <1>. QED
    BY <1>2, <1>3, <1>6, Zenon DEF Calling, n

\* A number or a string is stored.
LEMMA StoredRefs ==
    ASSUME NEW h, NEW hp, NEW who, NEW got, Objects(h, hp, who, got),
           NEW n \in DOMAIN hp, NEW g \in Dec!Fields(hp[n].type),
           g.type # "message", NEW v
    PROVE  SameRefs(hp, Dec!Assign(hp, n, g.num, v))
  <1> DEFINE hq == Dec!Assign(hp, n, g.num, v)
             num == g.num
  <1>1. /\ IsSeq(hp) /\ DOMAIN hp[n] = {"type", "val"}
        /\ hp[n].type \in DOMAIN ReaderSchema
        /\ DOMAIN hp[n].val = Dec!Numbers(hp[n].type)
    BY ObjectsAre
  <1>2. num \in DOMAIN hp[n].val
    BY <1>1, ReaderFields
  <1> HIDE DEF num
  <1>3. Changed(hp, Dec!Assign(hp, n, num, v), n, num)
    BY <1>1, <1>2, AssignChanges
  <1>4. Changed(hp, hq, n, num)
    BY <1>3 DEF num
  <1> HIDE DEF hq
  <1>5. /\ DOMAIN hq = DOMAIN hp
        /\ \A j \in DOMAIN hp : j # n => hq[j] = hp[j]
        /\ hq[n].type = hp[n].type
        /\ \A k \in DOMAIN hp[n].val : k # num => hq[n].val[k] = hp[n].val[k]
    BY <1>4, Zenon DEF Changed
  <1>6. ASSUME NEW j \in DOMAIN hp, NEW f \in Dec!Fields(hp[j].type),
               f.type = "message"
        PROVE  hq[j].val[f.num] = hp[j].val[f.num]
    <2>1. CASE j # n
      BY <1>5, <2>1
    <2>2. CASE j = n
      <3>1. f.num \in DOMAIN hp[n].val
        BY <1>1, <2>2, ReaderFields
      <3>2. f \in Dec!Fields(hp[n].type)
        BY <2>2
      <3>3. f.num # num
        BY <1>1, <1>6, <3>2, DistinctFields DEF num
      <3>. QED
        BY <1>5, <2>2, <3>1, <3>3, Zenon
    <2>. QED
      BY <2>1, <2>2
  <1>7. ASSUME NEW j \in DOMAIN hp
        PROVE  hq[j].type = hp[j].type
    BY <1>5
  <1>8. SameRefs(hp, hq)
    BY <1>5, <1>6, <1>7, Zenon DEF SameRefs
  <1>. QED
    BY <1>8 DEF hq

-----------------------------------------------------------------------------
(* The references, as the decoder runs.                                    *)

\* A step that goes on, returns, or fails.
Quiet ==
    /\ heap' = heap
    /\ \/ stack' = stack
       \/ stack' = <<>>
       \/ stack' = SubSeq(stack, 1, Len(stack) - 1)

LEMMA EndIsQuiet ==
    ASSUME NEW c, Dec!EndOfMessage(c), heap' = heap
    PROVE  Quiet
  BY DEF Dec!EndOfMessage, Dec!ReturnTrue, Dec!ReturnFalse, Quiet

LEMMA QuietSteps ==
    ASSUME NEW b, \/ Dec!LoopHead \/ Dec!ReadFails \/ Dec!TagByte(b)
                  \/ Dec!SkipByte(b) \/ Dec!SkipLenByte(b) \/ Dec!SkipPayloadByte
    PROVE  Quiet
  <1>1. CASE Dec!LoopHead
    <2>1. \/ Dec!Goto("tag", Dec!NewVarint) \/ Dec!EndOfMessage(consumed)
      BY <1>1, Zenon DEF Dec!LoopHead
    <2>2. heap' = heap
      BY <1>1 DEF Dec!LoopHead
    <2>. QED
      BY <2>1, <2>2, EndIsQuiet DEF Dec!Goto, Quiet
  <1>2. CASE Dec!ReadFails
    <2>1. CASE Dec!TagFails
      <3>1. Dec!EndOfMessage(consumed) /\ heap' = heap
        BY <2>1 DEF Dec!TagFails
      <3>. QED
        BY <3>1, EndIsQuiet
    <2>2. CASE Dec!SkipFails \/ Dec!SkipPayloadFails \/ Dec!FieldFails
      BY <2>2 DEF Dec!SkipFails, Dec!SkipPayloadFails, Dec!FieldFails,
                  Dec!SkipOne, Dec!Goto, Dec!ReturnFalse, Quiet
    <2>. QED
      BY <1>2, <2>1, <2>2 DEF Dec!ReadFails
  <1>3. CASE Dec!TagByte(b)
    <2>1. heap' = heap
      BY <1>3 DEF Dec!TagByte
    <2>2. \/ Dec!Goto("tag", Dec!Feed(rd, b))
          \/ Dec!EndOfMessage(consumed + 1)
          \/ Dec!TagDecoded(Dec!Feed(rd, b).acc)
      BY <1>3, Zenon DEF Dec!TagByte
    <2>3. ASSUME NEW tag, Dec!TagDecoded(tag)
          PROVE  Quiet
      <3>1. \/ \E f, w : Dec!DecodeField(f, w)
            \/ \E w : Dec!SkipUnknownField(w)
        BY <2>3, Zenon DEF Dec!TagDecoded
      <3>2. ASSUME NEW f, NEW w, Dec!DecodeField(f, w)
            PROVE  stack' = stack \/ stack' = <<>>
        <4>1. \/ Dec!ReturnFalse
              \/ \E lbl, call : Dec!Goto(lbl, call)
          BY <3>2, Zenon DEF Dec!DecodeField
        <4>. QED
          BY <4>1 DEF Dec!ReturnFalse, Dec!Goto
      <3>3. ASSUME NEW w, Dec!SkipUnknownField(w)
            PROVE  stack' = stack
        <4>1. \E lbl, call : Dec!Goto(lbl, call)
          BY <3>3, Zenon DEF Dec!SkipUnknownField
        <4>. QED
          BY <4>1 DEF Dec!Goto
      <3>. QED
        BY <2>1, <3>1, <3>2, <3>3 DEF Quiet
    <2>. QED
      BY <2>1, <2>2, <2>3, EndIsQuiet DEF Dec!Goto, Quiet
  <1>4. CASE Dec!SkipByte(b) \/ Dec!SkipLenByte(b) \/ Dec!SkipPayloadByte
    BY <1>4 DEF Dec!SkipByte, Dec!SkipLenByte, Dec!SkipPayloadByte,
                Dec!SkipOne, Dec!Goto, Quiet
  <1>. QED
    BY <1>1, <1>2, <1>3, <1>4

\* While DecodeMessage runs, the stack is that of different objects.
LEMMA StackRuns ==
    ASSUME NEW h, Enc!SizableMessages(h), Mirroring(h), pc # "done"
    PROVE  IsSeq(stack) /\ Distinct(stack)
  <1>1. PICK who, got : Going(h, heap, stack, consumed, pc, rd, field, who, got)
    BY MirroringGoes, Zenon DEF GoingOn
  <1>2. Static(h, heap, stack, consumed, who, got)
    BY <1>1, Zenon DEF Going
  <1>. QED
    BY <1>2, StackIsDistinct

LEMMA QuietRefs ==
    ASSUME NEW h, Enc!SizableMessages(h), Mirroring(h), pc # "done",
           Refs(heap, stack), Quiet
    PROVE  Refs(heap', stack')
  <1>1. CASE stack' = stack
    BY <1>1 DEF Quiet
  <1>2. CASE stack' = <<>>
    BY <1>2, RefsEmpty
  <1>3. CASE stack' = SubSeq(stack, 1, Len(stack) - 1)
    <2>1. IsSeq(stack) /\ Distinct(stack)
      BY StackRuns
    <2>2. Refs(heap, SubSeq(stack, 1, Len(stack) - 1))
      BY <2>1, RefsReturn
    <2>. QED
      BY <1>3, <2>2, Zenon DEF Quiet
  <1>. QED
    BY <1>1, <1>2, <1>3 DEF Quiet

\* The field that a number is read for.
LEMMA FieldRead ==
    ASSUME NEW h, Enc!SizableMessages(h), Readable(h),
           NEW lbl \in {"value", "len"}, Mirroring(h), pc = lbl,
           NEW b, b = BodyOf(h)[consumed + 1], Dec!Ends(rd, b)
    PROVE  \E who, got :
            /\ Static(h, heap, stack, consumed + 1, who, got)
            /\ FieldsOK(h, heap, who, got, Nowhere)
            /\ TopOf(stack) \in DOMAIN heap
            /\ field \in Dec!Fields(heap[TopOf(stack)].type)
            /\ lbl = "value" => field.type # "message"
            /\ NumberCame(h, heap, stack, consumed + 1, lbl, field,
                           Feed(rd, b).acc, who, got)
  <1>1. lbl \in NumberLabels
    BY DEF NumberLabels
  <1>2. PICK who, got :
            NumberStep(h, heap, stack, consumed, lbl, rd, field, who, got, b)
    BY <1>1, NumberByte
  <1>3. Ends(rd, b)
    BY SameReader, Zenon
  <1> DEFINE c == consumed + 1
             w == Feed(rd, b).acc
             n == TopOf(stack)
  <1>4. /\ Static(h, heap, stack, c, who, got)
        /\ FieldsOK(h, heap, who, got, Nowhere)
        /\ NumberCame(h, heap, stack, c, lbl, field, w, who, got)
    BY <1>2, <1>3, NumberComes
  <1> HIDE DEF c, w, n
  <1>5. n \in DOMAIN heap
    BY <1>4, PlaceOf, Zenon DEF Place, n
  <1>6. PICK i \in FieldsOf(h, who[n]) : About(h, heap, n, who[n], i, lbl, field)
    BY <1>4, Zenon DEF NumberCame, n
  <1>7. /\ IsField(h, heap, n, who[n], i, field)
        /\ lbl = "value" => field.type \notin LenTypes
    BY <1>6 DEF About
  <1>8. field \in Dec!Fields(heap[n].type)
    BY <1>7 DEF IsField
  <1>9. lbl = "value" => field.type # "message"
    BY <1>7 DEF LenTypes
  <1>. QED
    BY <1>4, <1>5, <1>8, <1>9, Zenon DEF c, w, n

LEMMA StoreRefs ==
    ASSUME NEW h, NEW c, NEW who, NEW got, Static(h, heap, stack, c, who, got),
           Refs(heap, stack), TopOf(stack) \in DOMAIN heap,
           field \in Dec!Fields(heap[TopOf(stack)].type), field.type # "message",
           NEW v, heap' = Dec!Assign(heap, TopOf(stack), field.num, v),
           stack' = stack
    PROVE  Refs(heap', stack')
  <1> DEFINE n == TopOf(stack)
             hq == Dec!Assign(heap, n, field.num, v)
  <1>1. Objects(h, heap, who, got)
    BY Zenon DEF Static
  <1>2. n \in DOMAIN heap /\ field \in Dec!Fields(heap[n].type)
    OBVIOUS
  <1> HIDE DEF n
  <1>3. SameRefs(heap, hq)
    BY <1>1, <1>2, StoredRefs
  <1> HIDE DEF hq
  <1>4. Refs(hq, stack)
    BY <1>3, RefsSame
  <1>. QED
    BY <1>4 DEF hq, n

LEMMA ValueByteRefs ==
    ASSUME NEW h, Enc!SizableMessages(h), Readable(h), Mirroring(h),
           NEW b, b = BodyOf(h)[consumed + 1], Dec!ValueByte(b), Refs(heap, stack)
    PROVE  Refs(heap', stack')
  <1>1. pc = "value" /\ pc # "done"
    BY DEF Dec!ValueByte
  <1>2. CASE Dec!Ends(rd, b) /\ Dec!Goto("loop", Dec!NewVarint)
             /\ heap' = Dec!Store(heap, Dec!Top.msg, field,
                                  Dec!Convert(field.type, Dec!Feed(rd, b).acc))
    <2>0. "value" \in {"value", "len"}
      OBVIOUS
    <2>1. PICK who, got :
            /\ Static(h, heap, stack, consumed + 1, who, got)
            /\ TopOf(stack) \in DOMAIN heap
            /\ field \in Dec!Fields(heap[TopOf(stack)].type)
            /\ field.type # "message"
      <3>1. \E who, got :
            /\ Static(h, heap, stack, consumed + 1, who, got)
            /\ FieldsOK(h, heap, who, got, Nowhere)
            /\ TopOf(stack) \in DOMAIN heap
            /\ field \in Dec!Fields(heap[TopOf(stack)].type)
            /\ "value" = "value" => field.type # "message"
            /\ NumberCame(h, heap, stack, consumed + 1, "value", field,
                           Feed(rd, b).acc, who, got)
        BY <1>1, <1>2, <2>0, FieldRead
      <3>. QED
        BY <3>1, Zenon
    <2>2. PICK v : heap' = Dec!Assign(heap, TopOf(stack), field.num, v)
      BY <1>2, Zenon DEF Dec!Store, Dec!Top, TopOf
    <2>3. stack' = stack
      BY <1>2 DEF Dec!Goto
    <2>. QED
      BY <2>1, <2>2, <2>3, StoreRefs
  <1>3. CASE Quiet
    BY <1>1, <1>3, QuietRefs
  <1>4. \/ Dec!Ends(rd, b) /\ Dec!Goto("loop", Dec!NewVarint)
           /\ heap' = Dec!Store(heap, Dec!Top.msg, field,
                                Dec!Convert(field.type, Dec!Feed(rd, b).acc))
        \/ heap' = heap /\ Dec!Goto("value", Dec!Feed(rd, b))
        \/ heap' = heap /\ Dec!ReturnFalse
    BY Zenon DEF Dec!ValueByte
  <1>. QED
    BY <1>2, <1>3, <1>4 DEF Quiet, Dec!Goto, Dec!ReturnFalse

\* What EnterSubMessage does when there is nothing to merge with.
LEMMA NewSubMessage ==
    ASSUME NEW w, Dec!EnterSubMessage(w), NEW n, n = TopOf(stack),
           ~ Dec!IsMerge(n, field)
    PROVE  /\ heap' = Append(Dec!Store(heap, n, field, Len(heap) + 1),
                             Dec!NewMessage(field.sub))
           /\ \E fr : fr.msg = Len(heap) + 1 /\ stack' = Append(stack, fr)
  <1> DEFINE new == Len(heap) + 1
             fr == [msg |-> new, via |-> field, start |-> consumed + 1,
                    size |-> w]
  <1>1. Dec!SubMessage(n, field) = new
    BY Zenon DEF Dec!SubMessage
  <1>2. Dec!Top.msg = n
    BY DEF Dec!Top, TopOf
  <1> DEFINE m == Dec!Top.msg
  <1>3. /\ heap' = IF Dec!IsMerge(m, field) THEN heap
                   ELSE Append(Dec!Store(heap, m, field, Dec!SubMessage(m, field)),
                               Dec!NewMessage(field.sub))
        /\ stack' = Append(stack, [msg |-> Dec!SubMessage(m, field),
                                   via |-> field, start |-> consumed + 1,
                                   size |-> w])
    BY Zenon DEF Dec!EnterSubMessage
  <1>4. m = n
    BY <1>2
  <1> HIDE DEF m, new
  <1>5. /\ heap' = Append(Dec!Store(heap, n, field, new), Dec!NewMessage(field.sub))
        /\ stack' = Append(stack, fr)
    BY <1>1, <1>3, <1>4, Zenon
  <1>6. fr.msg = new
    OBVIOUS
  <1> HIDE DEF fr
  <1>. QED
    BY <1>5, <1>6, Zenon DEF new

LEMMA LenByteRefs ==
    ASSUME NEW h, Enc!SizableMessages(h), Readable(h), Mirroring(h),
           NEW b, b = BodyOf(h)[consumed + 1], Dec!LenByte(b), Refs(heap, stack)
    PROVE  Refs(heap', stack')
  <1>1. pc = "len" /\ pc # "done" /\ "len" \in {"value", "len"}
    BY DEF Dec!LenByte
  <1> DEFINE n == TopOf(stack)
             c == consumed + 1
             w == Feed(rd, b).acc
  <1>2. ASSUME Dec!Ends(rd, b)
        PROVE  \E who, got :
                /\ Static(h, heap, stack, c, who, got)
                /\ FieldsOK(h, heap, who, got, Nowhere)
                /\ n \in DOMAIN heap
                /\ field \in Dec!Fields(heap[n].type)
                /\ NumberCame(h, heap, stack, c, "len", field, w, who, got)
    <2>1. \E who, got :
            /\ Static(h, heap, stack, consumed + 1, who, got)
            /\ FieldsOK(h, heap, who, got, Nowhere)
            /\ TopOf(stack) \in DOMAIN heap
            /\ field \in Dec!Fields(heap[TopOf(stack)].type)
            /\ "len" = "value" => field.type # "message"
            /\ NumberCame(h, heap, stack, consumed + 1, "len", field,
                           Feed(rd, b).acc, who, got)
      BY <1>1, <1>2, FieldRead
    <2>. QED
      BY <2>1, Zenon
  <1>3. CASE /\ Dec!Ends(rd, b) /\ field.type = "string"
             /\ \E s : Dec!EnterString(s)
    <2>1. PICK who, got :
            /\ Static(h, heap, stack, c, who, got)
            /\ n \in DOMAIN heap
            /\ field \in Dec!Fields(heap[n].type)
      BY <1>2, <1>3, Zenon
    <2>2. PICK v : heap' = Dec!Assign(heap, TopOf(stack), field.num, v)
      BY <1>3, Zenon DEF Dec!EnterString, Dec!Store, Dec!Top, TopOf
    <2>3. stack' = stack /\ field.type # "message"
      BY <1>3 DEF Dec!EnterString, Dec!Goto
    <2> HIDE DEF c
    <2>. QED
      BY <2>1, <2>2, <2>3, StoreRefs
  <1>4. CASE /\ Dec!Ends(rd, b) /\ field.type = "message"
             /\ \E s : Dec!EnterSubMessage(s)
    <2>1. PICK who, got :
            /\ Static(h, heap, stack, c, who, got)
            /\ FieldsOK(h, heap, who, got, Nowhere)
            /\ n \in DOMAIN heap
            /\ field \in Dec!Fields(heap[n].type)
            /\ NumberCame(h, heap, stack, c, "len", field, w, who, got)
      BY <1>2, <1>4, Zenon
    <2> DEFINE fr == [msg |-> Len(heap) + 1, start |-> c, size |-> w]
    <2>2. fr.msg = Len(heap) + 1 /\ fr.start = c /\ fr.size = w
      OBVIOUS
    <2> HIDE DEF c, w, fr
    <2>3. EntersOK(h, heap, stack, c, field, fr, result)
      BY <1>4, <2>1, <2>2, MessageEnters
    <2>4. ~ Dec!IsMerge(n, field)
      BY <2>3, Zenon DEF EntersOK, Dec!IsMerge
    <2>5. PICK s : Dec!EnterSubMessage(s)
      BY <1>4
    <2>6. /\ heap' = Append(Dec!Store(heap, n, field, Len(heap) + 1),
                            Dec!NewMessage(field.sub))
          /\ \E f : f.msg = Len(heap) + 1 /\ stack' = Append(stack, f)
      <3>1. n = TopOf(stack)
        OBVIOUS
      <3> HIDE DEF n
      <3>. QED
        BY <2>4, <2>5, <3>1, NewSubMessage
    <2>7. PICK f : f.msg = Len(heap) + 1 /\ stack' = Append(stack, f)
      BY <2>6
    <2> DEFINE hq == Append(Dec!Store(heap, n, field, Len(heap) + 1),
                            Dec!NewMessage(field.sub))
    <2>8. Calling(heap, hq, stack, field)
      <3>1. hq = Append(Dec!Store(heap, TopOf(stack), field, Len(heap) + 1),
                        Dec!NewMessage(field.sub))
        OBVIOUS
      <3>2. field.type = "message" /\ field \in Dec!Fields(heap[TopOf(stack)].type)
        BY <1>4, <2>1
      <3> HIDE DEF hq
      <3>. QED
        BY <2>1, <3>1, <3>2, SubMessageCalls
    <2>9. heap' = hq
      BY <2>6
    <2> HIDE DEF hq, n
    <2>10. CalledIs(heap, stack, Append(stack, f))
      BY <2>7, <2>8, StackCalls
    <2>11. Refs(hq, Append(stack, f))
      BY <2>8, <2>10, RefsCall
    <2>. QED
      BY <2>7, <2>9, <2>11
  <1>5. CASE Quiet
    BY <1>1, <1>5, QuietRefs
  <1>6. \/ /\ Dec!Ends(rd, b) /\ field.type = "string"
           /\ \E s : Dec!EnterString(s)
        \/ /\ Dec!Ends(rd, b) /\ field.type = "message"
           /\ \E s : Dec!EnterSubMessage(s)
        \/ heap' = heap /\ Dec!Goto("len", Dec!Feed(rd, b))
        \/ heap' = heap /\ Dec!ReturnFalse
    <2>1. \/ ~ Dec!Ends(rd, b) /\ Dec!Goto("len", Dec!Feed(rd, b))
             /\ UNCHANGED <<heap, spans>>
          \/ Dec!ReturnFalse /\ UNCHANGED <<heap, spans>>
          \/ Dec!Ends(rd, b) /\ field.type = "string"
             /\ Dec!EnterString(Dec!Feed(rd, b).acc)
          \/ Dec!Ends(rd, b) /\ field.type = "message"
             /\ Dec!EnterSubMessage(Dec!Feed(rd, b).acc)
      BY Zenon DEF Dec!LenByte
    <2>2. UNCHANGED <<heap, spans>> => heap' = heap
      OBVIOUS
    <2>. QED
      BY <2>1, <2>2, Zenon
  <1>. QED
    BY <1>3, <1>4, <1>5, <1>6 DEF Quiet, Dec!Goto, Dec!ReturnFalse

\* The field of the string that is being read.
LEMMA StringByteRefs ==
    ASSUME NEW h, Enc!SizableMessages(h), Readable(h), Mirroring(h),
           NEW b, Dec!StringByte(b), Refs(heap, stack)
    PROVE  Refs(heap', stack')
  <1>1. pc = "string" /\ "string" # "done"
    BY DEF Dec!StringByte
  <1>2. PICK who, got : Going(h, heap, stack, consumed, "string", rd, field, who, got)
    BY <1>1, MirroringGoes, Zenon DEF GoingOn
  <1>3. /\ Static(h, heap, stack, consumed, who, got)
        /\ Here(h, heap, stack, consumed, "string", rd, field, who, got)
    BY <1>2, Zenon DEF Going
  <1>4. TopOf(stack) \in DOMAIN heap
    BY <1>3, PlaceOf, Zenon DEF Place
  <1> DEFINE n == TopOf(stack)
             m == who[n]
             d == got[n]
             win == Win(h, stack, consumed)
             deep == Len(stack) # 1
  <1>5. Cursor(h, heap, n, m, d, win, deep, "string", rd, field)
    BY <1>3, Zenon DEF Here
  <1> HIDE DEF n, m, d, win, deep
  <1>6. \E i \in FieldsOf(h, m) : \E q :
                    /\ AtPayload(h, m, d, i, win, rd, q)
                    /\ IsField(h, heap, n, m, i, field)
                    /\ field.type = "string"
                    /\ Begun(field, Elems(h, m, i), d[i] + 1,
                             heap[n].val[field.num], q)
    BY <1>5, CursorsAre
  <1>7. field \in Dec!Fields(heap[n].type) /\ field.type = "string"
    BY <1>6, Zenon DEF IsField
  <1>8. field \in Dec!Fields(heap[TopOf(stack)].type) /\ field.type # "message"
    BY <1>7 DEF n
  <1>9. PICK v : heap' = Dec!Assign(heap, TopOf(stack), field.num, v)
    BY Zenon DEF Dec!StringByte, Dec!PushBack, Dec!Top, TopOf
  <1>10. stack' = stack
    BY DEF Dec!StringByte, Dec!Goto
  <1>. QED
    BY <1>3, <1>4, <1>8, <1>9, <1>10, StoreRefs

LEMMA ReaderRefs ==
    ASSUME Mirrors, refused = 0, Decode, NEW h, h = src,
           Enc!SizableMessages(h), Readable(h), Refs(heap, stack)
    PROVE  Refs(heap', stack')
  <1>1. Mirroring(h)
    BY Zenon DEF Mirrors, Mirroring
  <1>2. ASSUME NEW b, \/ Dec!LoopHead \/ Dec!ReadFails \/ Dec!TagByte(b)
                      \/ Dec!SkipByte(b) \/ Dec!SkipLenByte(b)
                      \/ Dec!SkipPayloadByte
        PROVE  Refs(heap', stack')
    <2>1. Quiet
      BY <1>2, QuietSteps
    <2>2. pc # "done"
      BY <1>2 DEF Dec!LoopHead, Dec!ReadFails, Dec!TagFails, Dec!SkipFails,
                  Dec!SkipPayloadFails, Dec!FieldFails, Dec!TagByte,
                  Dec!SkipByte, Dec!SkipLenByte, Dec!SkipPayloadByte
    <2>. QED
      BY <1>1, <2>1, <2>2, QuietRefs
  <1>3. CASE consumed < Len(out) /\ Dec!ReadByte(out[consumed + 1])
    <2>1. Dec!ReadByte(BodyOf(h)[consumed + 1])
      BY <1>3, ByteComes
    <2>2. PICK b : b = BodyOf(h)[consumed + 1]
      OBVIOUS
    <2>3. Dec!ReadByte(b)
      BY <2>1, <2>2
    <2>4. \/ Dec!TagByte(b) \/ Dec!SkipByte(b) \/ Dec!SkipLenByte(b)
          \/ Dec!SkipPayloadByte \/ Dec!ValueByte(b) \/ Dec!LenByte(b)
          \/ Dec!StringByte(b)
      BY <2>3, Zenon DEF Dec!ReadByte
    <2>5. CASE Dec!ValueByte(b)
      BY <1>1, <2>2, <2>5, ValueByteRefs
    <2>6. CASE Dec!LenByte(b)
      BY <1>1, <2>2, <2>6, LenByteRefs
    <2>7. CASE Dec!StringByte(b)
      BY <1>1, <2>7, StringByteRefs
    <2>. QED
      BY <1>2, <2>4, <2>5, <2>6, <2>7
  <1>. QED
    BY <1>2, <1>3 DEF Decode

\* The references are those of the stack, until a byte is refused.
Referring == refused = 0 => Refs(heap, stack)

LEMMA RefsStart ==
    ASSUME Dec!Init
    PROVE  Refs(heap, stack)
  <1> DEFINE x == Dec!NewMessage(Root)
             st == stack
  <1>0. Root \in DOMAIN ReaderSchema
    BY CodecAssumption
  <1>1. /\ x.type = Root
        /\ \A g \in Dec!Fields(Root) : x.val[g.num] = Dec!DefaultValue(g)
    BY <1>0, NewMessageIs
  <1> HIDE DEF x
  <1>2. heap = <<x>>
    BY DEF Dec!Init, x
  <1>3. DOMAIN heap = {1} /\ heap[1] = x
    BY <1>2
  <1>4. ASSUME NEW n \in DOMAIN heap, NEW g \in Dec!Fields(heap[n].type)
        PROVE  heap[n].val[g.num] = Dec!DefaultValue(g)
    BY <1>1, <1>3
  <1>5. ASSUME NEW n \in DOMAIN heap, NEW g \in Dec!Fields(heap[n].type), NEW y,
               HasRef(heap, n, g, y)
        PROVE  FALSE
    <2> DEFINE w == heap[n].val[g.num]
    <2>1. w = Dec!DefaultValue(g)
      BY <1>4
    <2> HIDE DEF w
    <2>2. ~ Refers(g, w, y)
      BY <2>1, DefaultRefersNot
    <2>. QED
      BY <1>5, <2>2, Zenon DEF HasRef, w
  <1>6. ASSUME NEW n \in DOMAIN heap, NEW g \in Dec!Fields(heap[n].type)
        PROVE  Earlier(st, g, heap[n].val[g.num])
    <2>1. heap[n].val[g.num] = Dec!DefaultValue(g)
      BY <1>4
    <2>2. g.repeated => Dec!DefaultValue(g) = <<>>
      BY DEF Dec!DefaultValue
    <2>3. \A k \in 1 .. (Len(<<>>) - 1) : FALSE
      OBVIOUS
    <2>4. g.repeated => \A k \in 1 .. (Len(heap[n].val[g.num]) - 1) : FALSE
      BY <2>1, <2>2, <2>3, Zenon
    <2>. QED
      BY <2>4, Zenon DEF Earlier
  <1>. QED
    BY <1>5, <1>6, Zenon DEF Refs, RefsFollow, LastOpen

LEMMA ReferringGoesOn ==
    ASSUME SourcesAreReadable, Mirrors, Referring, [Next]_vars
    PROVE  Referring'
  <1>1. Encoding
    BY Zenon DEF Mirrors
  <1>2. PICK h \in Sources : h = src
    BY <1>1 DEF Encoding
  <1>3. Enc!SizableMessages(h) /\ Readable(h)
    BY DEF SourcesAreReadable
  <1>4. CASE Enc!Next /\ UNCHANGED decVars
    <2>1. refused' = 0 => refused = 0
      BY <1>1, <1>4, WriterSteps
    <2>2. heap' = heap /\ stack' = stack
      BY <1>4 DEF decVars
    <2>3. refused' = 0 => Refs(heap', stack')
      BY <2>1, <2>2, Zenon DEF Referring
    <2>. QED
      BY <2>3, Zenon DEF Referring
  <1>5. CASE Decode /\ UNCHANGED encVars
    <2>1. refused' = refused
      BY <1>5 DEF encVars
    <2>2. refused = 0 => Refs(heap', stack')
      <3>1. SUFFICES ASSUME refused = 0
                     PROVE  Refs(heap', stack')
        OBVIOUS
      <3>2. Refs(heap, stack)
        BY <3>1, Zenon DEF Referring
      <3>. QED
        BY <1>2, <1>3, <1>5, <3>1, <3>2, ReaderRefs
    <2>3. refused' = 0 => Refs(heap', stack')
      BY <2>1, <2>2, Zenon
    <2>. QED
      BY <2>3, Zenon DEF Referring
  <1>6. CASE UNCHANGED vars
    <2>1. refused' = refused /\ heap' = heap /\ stack' = stack
      BY <1>6 DEF vars, encVars, decVars
    <2>2. refused' = 0 => Refs(heap', stack')
      BY <2>1, Zenon DEF Referring
    <2>. QED
      BY <2>2, Zenon DEF Referring
  <1>. QED
    BY <1>4, <1>5, <1>6 DEF Next

LEMMA ReaderRefers ==
    ASSUME SourcesAreReadable
    PROVE  Spec => [](Mirrors /\ Referring)
  <1>1. Init => Mirrors /\ Referring
    <2>1. ASSUME Init
          PROVE  Mirrors /\ Referring
      <3>1. Dec!Init
        BY <2>1 DEF Init
      <3>. QED
        BY <2>1, <3>1, MirrorsStart, RefsStart, Zenon DEF Referring
    <2>. QED
      BY <2>1
  <1>2. Mirrors /\ Referring /\ [Next]_vars => Mirrors' /\ Referring'
    BY MirrorsGoOn, ReferringGoesOn
  <1>. QED
    BY <1>1, <1>2, PTL DEF Spec

-----------------------------------------------------------------------------
(* Messages of which a part has been read.                                 *)

Whole(s, g, x, y) == IF g.type = "message" THEN s[x][y] ELSE Same(g.type, x, y)

Partly(p, g, x, y) ==
    CASE g.type = "message" -> x # 0 /\ y # 0 /\ p[x][y]
      [] g.type = "string" -> y = SubSeq(x, 1, Len(y))
      [] OTHER -> Same(g.type, x, y)

FieldPart(h, hp, s, p, m, n, g) ==
    LET v == h[m].val[g.num]
        w == hp[n].val[g.num]
    IN  \/ w = Dec!DefaultValue(g)
        \/ /\ InWriter(h[m].type, g.num)
           /\ g.repeated
           /\ Len(w) <= Len(v)
           /\ \A k \in 1 .. (Len(w) - 1) : Whole(s, g, v[k], w[k])
           /\ Partly(p, g, v[Len(w)], w[Len(w)])
        \/ /\ InWriter(h[m].type, g.num)
           /\ ~ g.repeated
           /\ Partly(p, g, v, w)

IsPart(h, hp, s, p, m, n) ==
    /\ hp[n].type = h[m].type
    /\ \A g \in Dec!Fields(hp[n].type) : FieldPart(h, hp, s, p, m, n, g)

AreParts(h, hp, s, p) ==
    p = [m \in DOMAIN h |-> [n \in DOMAIN hp |-> IsPart(h, hp, s, p, m, n)]]

PartOf(h, hp, s) == CHOOSE p : AreParts(h, hp, s, p)

LEMMA PartOfMessageIs ==
    PartOfMessage = PartOf(src, heap, SameMessage)
  BY Zenon DEF PartOfMessage, PartOf, AreParts, IsPart, FieldPart, Whole, Partly

\* Whether an element is part of another depends on younger messages.
LEMMA PartlyLocal ==
    ASSUME NEW p, NEW q, NEW g, NEW x, NEW y, Partly(p, g, x, y),
           g.type = "message" /\ x # 0 => p[x] = q[x]
    PROVE  Partly(q, g, x, y)
  BY DEF Partly

LEMMA FieldPartLocal ==
    ASSUME NEW h, Enc!SizableMessages(h), Readable(h), NEW hp, Lists(hp),
           NEW m \in DOMAIN h, NEW n \in DOMAIN hp, hp[n].type = h[m].type,
           h[m].type \in DOMAIN ReaderSchema,
           NEW g \in Dec!Fields(h[m].type), NEW s, NEW p, NEW q,
           \A j \in (m + 1) .. Len(h) : p[j] = q[j],
           FieldPart(h, hp, s, p, m, n, g)
    PROVE  FieldPart(h, hp, s, q, m, n, g)
  <1> DEFINE v == h[m].val[g.num]
             w == hp[n].val[g.num]
  <1>1. CASE w = Dec!DefaultValue(g)
    BY <1>1, Zenon DEF FieldPart
  <1>2. CASE w # Dec!DefaultValue(g)
    <2>1. InWriter(h[m].type, g.num)
      BY <1>2, Zenon DEF FieldPart
    <2>2. PICK i : BothHave(h, m, i, g)
      BY <2>1, FieldsMeet, Zenon
    <2>3. g.type = "message" =>
            /\ g.repeated => \A k \in DOMAIN v : v[k] \in (m + 1) .. Len(h)
            /\ ~ g.repeated => v = 0 \/ v \in (m + 1) .. Len(h)
      BY <2>2, ValuesAreYounger
    <2>4. g \in Dec!Fields(hp[n].type)
      OBVIOUS
    <2>5. CASE g.repeated
      <3>1. /\ Len(w) <= Len(v)
            /\ \A k \in 1 .. (Len(w) - 1) : Whole(s, g, v[k], w[k])
            /\ Partly(p, g, v[Len(w)], w[Len(w)])
        BY <1>2, <2>5, Zenon DEF FieldPart
      <3>2. ASSUME g.type = "message"
            PROVE  p[v[Len(w)]] = q[v[Len(w)]]
        <4>1. IsSeq(w) /\ w # <<>>
          <5>1. IsSeq(w)
            BY <2>4, <2>5, <3>2, Zenon DEF Lists
          <5>2. Dec!DefaultValue(g) = <<>>
            BY <2>5 DEF Dec!DefaultValue
          <5>. QED
            BY <1>2, <5>1, <5>2
        <4>2. Len(w) \in Nat \ {0}
          <5> HIDE DEF w
          <5>1. w \in Seq({w[j] : j \in DOMAIN w})
            BY <4>1 DEF IsSeq, Enc!IsSeq
          <5>. QED
            BY <4>1, <5>1, EmptySeq, LenProperties
        <4>3. Len(v) \in Nat /\ DOMAIN v = 1 .. Len(v)
          <5>0. /\ g.repeated => Elems(h, m, i) = v
                /\ ~ g.repeated =>
                    \/ Enc!IsDefault(FieldOf(h, m, i), v) /\ Elems(h, m, i) = <<>>
                    \/ ~ Enc!IsDefault(FieldOf(h, m, i), v) /\ Elems(h, m, i) = <<v>>
            BY <2>2, ValueIs
          <5>1. i \in FieldsOf(h, m) /\ Elems(h, m, i) = v
            BY <2>2, <2>5, <5>0, Zenon DEF BothHave
          <5>2. Len(Elems(h, m, i)) \in Nat
                /\ DOMAIN Elems(h, m, i) = 1 .. Len(Elems(h, m, i))
            BY <5>1, ElemsAreSeq
          <5>. QED
            BY <5>1, <5>2, Zenon
        <4> HIDE DEF v, w
        <4>4. Len(w) \in DOMAIN v
          BY <3>1, <4>2, <4>3
        <4>5. v[Len(w)] \in (m + 1) .. Len(h)
          BY <2>3, <2>5, <3>2, <4>4, Zenon
        <4>. QED
          BY <4>5
      <3> DEFINE x == v[Len(w)]
                 y == w[Len(w)]
      <3>3. Partly(p, g, x, y) /\ (g.type = "message" /\ x # 0 => p[x] = q[x])
        <4>1. Partly(p, g, x, y)
          BY <3>1, Zenon
        <4>2. g.type = "message" => p[x] = q[x]
          BY <3>2, Zenon
        <4> HIDE DEF x, y, v, w
        <4>. QED
          BY <4>1, <4>2, Zenon
      <3> HIDE DEF x, y
      <3>4. Partly(q, g, x, y)
        BY <3>3, PartlyLocal
      <3>5. Partly(q, g, v[Len(w)], w[Len(w)])
        BY <3>4 DEF x, y
      <3>. QED
        BY <2>1, <2>5, <3>1, <3>5, Zenon DEF FieldPart
    <2>6. CASE ~ g.repeated
      <3>1. Partly(p, g, v, w)
        BY <1>2, <2>6, Zenon DEF FieldPart
      <3>2. g.type = "message" /\ v # 0 => p[v] = q[v]
        <4> HIDE DEF v, w
        <4>. QED
          BY <2>3, <2>6, Zenon
      <3>3. Partly(q, g, v, w)
        <4> HIDE DEF v, w
        <4>. QED
          BY <3>1, <3>2, PartlyLocal
      <3>. QED
        BY <2>1, <2>6, <3>3, Zenon DEF FieldPart
    <2>. QED
      BY <2>5, <2>6
  <1>. QED
    BY <1>1, <1>2

LEMMA PartLocal ==
    ASSUME NEW h, Enc!SizableMessages(h), Readable(h), NEW hp, KnownTypes(hp),
           Lists(hp), NEW m \in DOMAIN h, NEW n \in DOMAIN hp, NEW s, NEW p, NEW q,
           \A j \in (m + 1) .. Len(h) : p[j] = q[j], IsPart(h, hp, s, p, m, n)
    PROVE  IsPart(h, hp, s, q, m, n)
  <1>1. hp[n].type = h[m].type /\ h[m].type \in DOMAIN ReaderSchema
    BY DEF IsPart, KnownTypes
  <1>2. \A g \in Dec!Fields(h[m].type) : FieldPart(h, hp, s, p, m, n, g)
    BY <1>1, Zenon DEF IsPart
  <1>3. \A g \in Dec!Fields(h[m].type) : FieldPart(h, hp, s, q, m, n, g)
    BY <1>1, <1>2, FieldPartLocal
  <1>. QED
    BY <1>1, <1>3, Zenon DEF IsPart

LEMMA PartsExist ==
    ASSUME NEW h, Enc!SizableMessages(h), Readable(h), NEW hp, KnownTypes(hp),
           Lists(hp), NEW s
    PROVE  \E p : AreParts(h, hp, s, p)
  <1> DEFINE N == Len(h)
             D == DOMAIN hp
             X == [D -> BOOLEAN]
             row(m, p) == [n \in D |-> IsPart(h, hp, s, p, m, n)]
             F == [m \in 1 .. N |-> [p \in [1 .. N -> X] |-> row(m, p)]]
  <1>1. N \in Nat /\ DOMAIN h = 1 .. N
    BY MessagesAreSeq
  <1>2. \A m, p : row(m, p) \in X
    <2>1. \A m, p, n : IsPart(h, hp, s, p, m, n) \in BOOLEAN
      BY DEF IsPart
    <2>. QED
      BY <2>1
  <1>3. F \in [1 .. N -> [[1 .. N -> X] -> X]]
    <2> HIDE DEF X, row, N
    <2>. QED
      BY <1>2
  <1>4. \A m \in 1 .. N : \A p \in [1 .. N -> X] : F[m][p] = row(m, p)
    <2> HIDE DEF X, row, N
    <2>. QED
      OBVIOUS
  <1> HIDE DEF F
  <1>5. ASSUME NEW m \in 1 .. N, NEW p \in [1 .. N -> X], NEW q \in [1 .. N -> X],
               \A j \in (m + 1) .. N : p[j] = q[j], NEW d \in D, F[m][p][d]
        PROVE  F[m][q][d]
    <2>1. /\ row(m, p)[d] = IsPart(h, hp, s, p, m, d)
          /\ row(m, q)[d] = IsPart(h, hp, s, q, m, d)
      OBVIOUS
    <2>2. F[m][p] = row(m, p) /\ F[m][q] = row(m, q)
      BY <1>4
    <2> HIDE DEF row
    <2>3. IsPart(h, hp, s, p, m, d)
      BY <1>5, <2>1, <2>2
    <2>4. m \in DOMAIN h
      BY <1>1
    <2>5. IsPart(h, hp, s, q, m, d)
      BY <1>5, <2>3, <2>4, PartLocal
    <2>. QED
      BY <2>1, <2>2, <2>5
  <1>6. IsRows(F, N, D)
    BY <1>3, <1>5, Zenon DEF IsRows
  <1> HIDE DEF N, D
  <1>7. PICK p \in [1 .. N -> X] : \A m \in 1 .. N : p[m] = F[m][p]
    BY <1>1, <1>6, TableExists
  <1>8. \A m \in 1 .. N : p[m] = row(m, p)
    BY <1>4, <1>7, Zenon
  <1>9. p = [m \in 1 .. N |-> row(m, p)]
    <2> HIDE DEF row, X
    <2>1. p = [m \in 1 .. N |-> p[m]]
      BY <1>7
    <2>. QED
      BY <1>8, <2>1, Zenon
  <1>10. AreParts(h, hp, s, p)
    BY <1>1, <1>9, Zenon DEF AreParts, D
  <1>. QED
    BY <1>10, Zenon

\* A message is a part of another if its fields are.
LEMMA PartRows ==
    ASSUME NEW h, Enc!SizableMessages(h), Readable(h), NEW hp, KnownTypes(hp),
           Lists(hp), NEW s, NEW m \in DOMAIN h, NEW n \in DOMAIN hp,
           IsPart(h, hp, s, PartOf(h, hp, s), m, n)
    PROVE  PartOf(h, hp, s)[m][n]
  <1> DEFINE p == PartOf(h, hp, s)
  <1>1. AreParts(h, hp, s, p)
    BY PartsExist, Zenon DEF PartOf
  <1> HIDE DEF p
  <1>2. p = [j \in DOMAIN h |-> [k \in DOMAIN hp |-> IsPart(h, hp, s, p, j, k)]]
    BY <1>1, Zenon DEF AreParts
  <1>3. p[m] = [k \in DOMAIN hp |-> IsPart(h, hp, s, p, m, k)]
    BY <1>2, Zenon
  <1>4. p[m][n] = IsPart(h, hp, s, p, m, n)
    BY <1>3, Zenon
  <1>. QED
    BY <1>4 DEF p

-----------------------------------------------------------------------------
(* What the reader's objects hold at any time.                             *)

\* A string has been read in part.
Partial(h, hp, who, got, n, g) ==
    /\ g.type = "string"
    /\ \E i \in FieldsOf(h, who[n]) : \E q \in Seq(Byte) :
        /\ FieldOf(h, who[n], i).num = g.num
        /\ got[n][i] + 1 <= Len(Elems(h, who[n], i))
        /\ Begun(g, Elems(h, who[n], i), got[n][i] + 1, hp[n].val[g.num], q)

HeldField(h, hp, st, who, got, n, g) ==
    \/ FieldOK(h, hp, who, got, n, g)
    \/ OnStack(st, n) /\ Partial(h, hp, who, got, n, g)

\* The objects that are being read are those on the stack.
Held(h, hp, st, who, got) ==
    /\ Objects(h, hp, who, got)
    /\ Finished(h, hp, st, who, got)
    /\ Len(st) \in Nat /\ DOMAIN st = 1 .. Len(st)
    /\ \A n \in DOMAIN hp : \A g \in Dec!Fields(hp[n].type) :
        HeldField(h, hp, st, who, got, n, g)

LEMMA GoingHolds ==
    ASSUME NEW h, Enc!SizableMessages(h), NEW hp, NEW st, NEW c, NEW lbl,
           NEW call, NEW fd, NEW who, NEW got,
           Going(h, hp, st, c, lbl, call, fd, who, got)
    PROVE  Held(h, hp, st, who, got)
  <1>1. /\ Static(h, hp, st, c, who, got)
        /\ FieldsOK(h, hp, who, got, But(st, lbl, fd))
        /\ Here(h, hp, st, c, lbl, call, fd, who, got)
    BY Zenon DEF Going
  <1>2. Objects(h, hp, who, got) /\ Finished(h, hp, st, who, got)
    BY <1>1, Zenon DEF Static
  <1>3. Distinct(st)
    BY <1>1, StackIsDistinct
  <1>4. Len(st) \in Nat /\ DOMAIN st = 1 .. Len(st)
    BY <1>3 DEF Distinct
  <1>5. ASSUME NEW n \in DOMAIN hp, NEW g \in Dec!Fields(hp[n].type)
        PROVE  HeldField(h, hp, st, who, got, n, g)
    <2>1. CASE <<n, g.num>> # But(st, lbl, fd)
      BY <1>1, <2>1, Zenon DEF FieldsOK, HeldField
    <2>2. CASE <<n, g.num>> = But(st, lbl, fd)
      <3>1. lbl = "string" /\ n = TopOf(st) /\ g.num = fd.num
        <4>1. n # 0
          BY <1>2, ObjectsAre
        <4>2. lbl = "string"
          BY <2>2, <4>1 DEF But, Nowhere
        <4>3. But(st, lbl, fd) = <<TopOf(st), fd.num>>
          BY <4>2, Zenon DEF But
        <4>4. <<n, g.num>> = <<TopOf(st), fd.num>>
          BY <2>2, <4>3, Zenon
        <4>. QED
          BY <4>2, <4>4
      <3> DEFINE m == who[n]
                 d == got[n]
                 win == Win(h, st, c)
                 deep == Len(st) # 1
      <3>2. Cursor(h, hp, n, m, d, win, deep, "string", call, fd)
        BY <1>1, <3>1, Zenon DEF Here
      <3> HIDE DEF m, d, win, deep
      <3>3. PICK i \in FieldsOf(h, m) : \E q :
                /\ AtPayload(h, m, d, i, win, call, q)
                /\ IsField(h, hp, n, m, i, fd)
                /\ fd.type = "string"
                /\ Begun(fd, Elems(h, m, i), d[i] + 1, hp[n].val[fd.num], q)
        BY <3>2, CursorsAre
      <3>4. PICK q :
                /\ AtPayload(h, m, d, i, win, call, q)
                /\ IsField(h, hp, n, m, i, fd)
                /\ fd.type = "string"
                /\ Begun(fd, Elems(h, m, i), d[i] + 1, hp[n].val[fd.num], q)
        BY <3>3, Zenon
      <3>5. q \in Seq(Byte) /\ d[i] + 1 <= Len(Elems(h, m, i))
        BY <3>4, Zenon DEF AtPayload
      <3>6. fd \in Dec!Fields(hp[n].type) /\ fd.num = FieldOf(h, m, i).num
        BY <3>4, Zenon DEF IsField
      <3>7. fd = g
        <4>1. hp[n].type \in DOMAIN ReaderSchema
          BY <1>2, ObjectsAre
        <4>. QED
          BY <3>1, <3>6, <4>1, DistinctFields
      <3>8. Partial(h, hp, who, got, n, g)
        BY <3>4, <3>5, <3>6, <3>7, Zenon DEF Partial, m, d
      <3>9. OnStack(st, n)
        BY <1>1, <3>1, PlaceOf, Zenon DEF Place
      <3>. QED
        BY <3>8, <3>9, Zenon DEF HeldField
    <2>. QED
      BY <2>1, <2>2
  <1>. QED
    BY <1>2, <1>4, <1>5, Zenon DEF Held

LEMMA GoneHolds ==
    ASSUME NEW h, NEW hp, NEW st, NEW lbl, NEW res, NEW who, NEW got,
           Gone(h, hp, st, lbl, res, who, got)
    PROVE  Held(h, hp, st, who, got)
  <1>1. /\ Objects(h, hp, who, got) /\ Finished(h, hp, st, who, got)
        /\ st = <<>> /\ FieldsOK(h, hp, who, got, Nowhere)
    BY Zenon DEF Gone, Returned
  <1>2. Len(st) \in Nat /\ DOMAIN st = 1 .. Len(st)
    BY <1>1
  <1>3. ASSUME NEW n \in DOMAIN hp, NEW g \in Dec!Fields(hp[n].type)
        PROVE  HeldField(h, hp, st, who, got, n, g)
    <2>1. n # 0
      BY <1>1, ObjectsAre
    <2>2. <<n, g.num>> # Nowhere
      BY <2>1 DEF Nowhere
    <2>3. FieldOK(h, hp, who, got, n, g)
      BY <1>1, <2>2, Zenon DEF FieldsOK
    <2>. QED
      BY <2>3, Zenon DEF HeldField
  <1>. QED
    BY <1>1, <1>2, <1>3, Zenon DEF Held

LEMMA HeldRefs ==
    ASSUME NEW h, Enc!SizableMessages(h), Readable(h), NEW hp, NEW st, NEW who,
           NEW got, Held(h, hp, st, who, got)
    PROVE  RefsInside(hp) /\ Lists(hp)
  <1>1. ASSUME NEW n \in DOMAIN hp, NEW g \in Dec!Fields(hp[n].type),
               g.type = "message"
        PROVE  FieldOK(h, hp, who, got, n, g)
    <2>1. HeldField(h, hp, st, who, got, n, g)
      BY Zenon DEF Held
    <2>2. ~ Partial(h, hp, who, got, n, g)
      BY <1>1 DEF Partial
    <2>. QED
      BY <2>1, <2>2, Zenon DEF HeldField
  <1>2. MessagesOK(h, hp, who, got)
    BY <1>1, Zenon DEF MessagesOK
  <1>3. Objects(h, hp, who, got)
    BY Zenon DEF Held
  <1>. QED
    BY <1>2, <1>3, RefsAreInside

\* The objects that are not being read, with all they refer to.
LEMMA OthersAreComplete ==
    ASSUME NEW h, Enc!SizableMessages(h), Readable(h), NEW hp, NEW st, NEW who,
           NEW got, Held(h, hp, st, who, got), Refs(hp, st),
           NEW C, C = {n \in DOMAIN hp : ~ OnStack(st, n)}
    PROVE  Complete(h, hp, who, got, C)
  <1>1. RefsInside(hp)
    BY HeldRefs
  <1>2. ASSUME NEW n \in C
        PROVE  n \in DOMAIN hp /\ ~ OnStack(st, n) /\ IsDone(h, who[n], got[n])
    <2>1. n \in DOMAIN hp /\ ~ OnStack(st, n)
      BY <1>2
    <2>. QED
      BY <2>1, Zenon DEF Held, Finished
  <1>3. ASSUME NEW n \in C, NEW g \in Dec!Fields(hp[n].type)
        PROVE  FieldOK(h, hp, who, got, n, g)
    <2>1. n \in DOMAIN hp /\ ~ OnStack(st, n)
      BY <1>2
    <2>2. HeldField(h, hp, st, who, got, n, g)
      BY <2>1, Zenon DEF Held
    <2>. QED
      BY <2>1, <2>2, Zenon DEF HeldField
  <1>4. ASSUME NEW n \in C, NEW g \in Dec!Fields(hp[n].type), NEW y,
               HasRef(hp, n, g, y)
        PROVE  y \in C
    <2>1. n \in DOMAIN hp /\ ~ OnStack(st, n)
      BY <1>2
    <2>2. y \in DOMAIN hp
      BY <1>1, <1>4, <2>1, Zenon DEF RefsInside
    <2>3. ASSUME OnStack(st, y)
          PROVE  FALSE
      <3>1. Under(st, n, y)
        BY <1>4, <2>1, <2>3, Zenon DEF Refs, RefsFollow
      <3>2. PICK a \in 1 .. (Len(st) - 1) : st[a].msg = n
        BY <3>1, Zenon DEF Under
      <3>3. a \in DOMAIN st
        <4>1. Len(st) \in Nat /\ DOMAIN st = 1 .. Len(st)
          BY Zenon DEF Held
        <4> DEFINE z == Len(st)
        <4>2. z \in Nat /\ a \in 1 .. (z - 1)
          BY <4>1
        <4> HIDE DEF z
        <4>3. a \in 1 .. z
          BY <4>2
        <4>. QED
          BY <4>1, <4>3, Zenon DEF z
      <3>4. OnStack(st, n)
        BY <3>2, <3>3, Zenon DEF OnStack
      <3>. QED
        BY <2>1, <3>4
    <2>. QED
      BY <2>2, <2>3
  <1>. QED
    BY <1>2, <1>3, <1>4, Zenon DEF Complete

\* The objects that are not being read are as the table s says, and those that
\* the field g of n refers to as the table p says.
OthersSame(hp, st, who, s) ==
    \A y \in DOMAIN hp : ~ OnStack(st, y) => s[who[y]][y]

RefsPart(hp, who, p, n, g) == \A y : HasRef(hp, n, g, y) => p[who[y]][y]

LEMMA MatchIsWhole ==
    ASSUME NEW hp, NEW st, NEW who, NEW s, OthersSame(hp, st, who, s), NEW g,
           NEW x, NEW y, g.type = "message" => ~ OnStack(st, y),
           Matches(g, hp, who, x, y)
    PROVE  Whole(s, g, x, y)
  <1>1. CASE g.type = "message"
    <2>1. y \in DOMAIN hp /\ who[y] = x /\ ~ OnStack(st, y)
      BY <1>1, Zenon DEF Matches
    <2>2. s[x][y]
      BY <2>1, Zenon DEF OthersSame
    <2>. QED
      BY <1>1, <2>2, Zenon DEF Whole
  <1>2. CASE g.type # "message"
    BY <1>2, Zenon DEF Matches, Whole, Same
  <1>. QED
    BY <1>1, <1>2

LEMMA MatchIsPart ==
    ASSUME NEW hp, NEW who, NEW p, NEW n, NEW g, RefsPart(hp, who, p, n, g),
           0 \notin DOMAIN hp, NEW x, NEW y,
           g.type = "message" => HasRef(hp, n, g, y) /\ x # 0,
           g.type = "string" => x \in Seq(Byte), Matches(g, hp, who, x, y)
    PROVE  Partly(p, g, x, y)
  <1>1. CASE g.type = "message"
    <2>1. y \in DOMAIN hp /\ who[y] = x /\ HasRef(hp, n, g, y) /\ x # 0
      BY <1>1, Zenon DEF Matches
    <2>2. p[x][y] /\ y # 0
      BY <2>1, Zenon DEF RefsPart
    <2>3. x # 0 /\ y # 0 /\ p[x][y]
      BY <2>1, <2>2
    <2>. QED
      BY <1>1, <2>3 DEF Partly
  <1>2. CASE g.type = "string"
    <2>1. y = x /\ x \in Seq(Byte)
      BY <1>2 DEF Matches
    <2>2. y = SubSeq(x, 1, Len(y))
      BY <2>1
    <2>. QED
      BY <1>2, <2>2 DEF Partly
  <1>3. CASE g.type \notin {"message", "string"}
    <2>1. Same(g.type, x, y)
      BY <1>3 DEF Matches, Same
    <2>. QED
      BY <1>3, <2>1 DEF Partly
  <1>. QED
    BY <1>1, <1>2, <1>3

\* The elements of a string field are strings.
LEMMA StringElems ==
    ASSUME NEW h, Enc!SizableMessages(h), NEW m \in DOMAIN h, NEW i, NEW g,
           BothHave(h, m, i, g), g.type = "string"
    PROVE  \A k \in DOMAIN Elems(h, m, i) : Elems(h, m, i)[k] \in Seq(Byte)
  <1> DEFINE e == Elems(h, m, i)
             f == FieldOf(h, m, i)
  <1>1. i \in FieldsOf(h, m) /\ f.type = "string"
    BY DEF BothHave
  <1>2. \A k \in DOMAIN e : Enc!Sizable(h, m, f, e[k])
    BY <1>1, ElemsAreSizable, Zenon DEF FieldsOf
  <1> HIDE DEF e, f
  <1>3. ASSUME NEW k \in DOMAIN e
        PROVE  e[k] \in Seq(Byte)
    <2>1. Enc!Sizable(h, m, f, e[k])
      BY <1>2
    <2>2. \/ f.type = "string" /\ e[k] \in Seq(Byte) /\ Len(e[k]) < U32
          \/ /\ f.type = "message"
             /\ e[k] \in (m + 1) .. Len(h)
             /\ Sizes(h)[e[k]] < U32
          \/ f.type \in NumberTypes /\ e[k] \in Int
      BY <2>1, ElemKinds
    <2>3. f.type \notin NumberTypes /\ f.type # "message"
      BY <1>1, KindsApart
    <2>. QED
      BY <2>2, <2>3, Zenon
  <1>. QED
    BY <1>3 DEF e

\* The field that an element belongs to, as both sides have it.
Common(h, hp, m, n, g, i) ==
    /\ BothHave(h, m, i, g)
    /\ i \in FieldsOf(h, m) /\ FieldOf(h, m, i).num = g.num
    /\ InWriter(h[m].type, g.num)
    /\ Len(Elems(h, m, i)) \in Nat
    /\ DOMAIN Elems(h, m, i) = 1 .. Len(Elems(h, m, i))
    /\ g.repeated => Elems(h, m, i) = h[m].val[g.num]
    /\ ~ g.repeated =>
        \/ Elems(h, m, i) = <<>>
        \/ Elems(h, m, i) = <<h[m].val[g.num]>>

LEMMA CommonField ==
    ASSUME NEW h, Enc!SizableMessages(h), Readable(h), NEW hp, NEW who, NEW got,
           Objects(h, hp, who, got), NEW n \in DOMAIN hp, NEW m, m = who[n],
           NEW g \in Dec!Fields(hp[n].type)
    PROVE  /\ m \in DOMAIN h /\ got[n] \in Counts(h, m)
           /\ ~ InWriter(h[m].type, g.num) =>
                \A i \in FieldsOf(h, m) : FieldOf(h, m, i).num # g.num
           /\ InWriter(h[m].type, g.num) => \E i : Common(h, hp, m, n, g, i)
           /\ \A i \in FieldsOf(h, m) :
                FieldOf(h, m, i).num = g.num => Common(h, hp, m, n, g, i)
  <1>1. /\ m \in DOMAIN h /\ got[n] \in Counts(h, m) /\ hp[n].type = h[m].type
        /\ h[m].type \in DOMAIN ReaderSchema
    <2>1. /\ who[n] \in DOMAIN h /\ got[n] \in Counts(h, who[n])
          /\ hp[n].type = h[who[n]].type /\ hp[n].type \in DOMAIN ReaderSchema
      BY ObjectsAre
    <2>. QED
      BY <2>1, Zenon
  <1>2. g \in Dec!Fields(h[m].type)
    BY <1>1
  <1>3. /\ \A i \in FieldsOf(h, m) :
            FieldOf(h, m, i).num = g.num => BothHave(h, m, i, g)
        /\ InWriter(h[m].type, g.num) <=>
            \E i \in FieldsOf(h, m) : FieldOf(h, m, i).num = g.num
    BY <1>1, <1>2, FieldsMeet
  <1>4. ASSUME NEW i \in FieldsOf(h, m), FieldOf(h, m, i).num = g.num
        PROVE  Common(h, hp, m, n, g, i)
    <2>1. BothHave(h, m, i, g)
      BY <1>3, <1>4, Zenon
    <2>2. InWriter(h[m].type, g.num)
      BY <1>3, <1>4, Zenon
    <2>3. PICK v : v = h[m].val[g.num]
      OBVIOUS
    <2>4. /\ g.repeated => Elems(h, m, i) = v
          /\ ~ g.repeated =>
                \/ Enc!IsDefault(FieldOf(h, m, i), v) /\ Elems(h, m, i) = <<>>
                \/ ~ Enc!IsDefault(FieldOf(h, m, i), v) /\ Elems(h, m, i) = <<v>>
      BY <2>1, <2>3, ValueIs
    <2>5. Len(Elems(h, m, i)) \in Nat
          /\ DOMAIN Elems(h, m, i) = 1 .. Len(Elems(h, m, i))
      BY <1>1, ElemsAreSeq
    <2>. QED
      BY <1>4, <2>1, <2>2, <2>3, <2>4, <2>5, Zenon DEF Common
  <1>. QED
    BY <1>1, <1>3, <1>4, Zenon

\* A repeated field of which the last element has begun.
LEMMA ListIsPart ==
    ASSUME NEW h, NEW hp, NEW s, NEW p, NEW m, NEW n, NEW g, NEW i,
           Common(h, hp, m, n, g, i), g.repeated, NEW w, w = hp[n].val[g.num],
           NEW e, e = Elems(h, m, i), NEW k \in Nat, Len(w) = k, k <= Len(e),
           \A j \in 1 .. (k - 1) : Whole(s, g, e[j], w[j]),
           Partly(p, g, e[k], w[k])
    PROVE  FieldPart(h, hp, s, p, m, n, g)
  <1>1. e = h[m].val[g.num] /\ InWriter(h[m].type, g.num)
    BY Zenon DEF Common
  <1>. QED
    BY <1>1, Zenon DEF FieldPart

LEMMA ValueIsPart ==
    ASSUME NEW h, NEW hp, NEW s, NEW p, NEW m, NEW n, NEW g, NEW i,
           Common(h, hp, m, n, g, i), ~ g.repeated,
           NEW e, e = Elems(h, m, i), e # <<>>, Partly(p, g, e[1], hp[n].val[g.num])
    PROVE  FieldPart(h, hp, s, p, m, n, g)
  <1>1. e = <<h[m].val[g.num]>> /\ InWriter(h[m].type, g.num)
    BY Zenon DEF Common
  <1>2. e[1] = h[m].val[g.num]
    BY <1>1
  <1>3. Partly(p, g, h[m].val[g.num], hp[n].val[g.num])
    BY <1>2
  <1>. QED
    BY <1>1, <1>3, Zenon DEF FieldPart

\* What has been read of a field, when no string is being read into it.
LEMMA ReadIsPart ==
    ASSUME NEW h, Enc!SizableMessages(h), Readable(h), NEW hp, NEW who, NEW got,
           Objects(h, hp, who, got), NEW n \in DOMAIN hp, NEW m, m = who[n],
           NEW g \in Dec!Fields(hp[n].type), FieldOK(h, hp, who, got, n, g),
           NEW st, Earlier(st, g, hp[n].val[g.num]),
           NEW s, OthersSame(hp, st, who, s),
           NEW p, RefsPart(hp, who, p, n, g)
    PROVE  FieldPart(h, hp, s, p, m, n, g)
  <1> DEFINE w == hp[n].val[g.num]
             d == got[n]
  <1>1. 0 \notin DOMAIN hp
    <2>1. DOMAIN hp = 1 .. Len(hp)
      BY IsSeqLen, Zenon DEF Objects
    <2>. QED
      BY <2>1
  <1>2. /\ m \in DOMAIN h /\ d \in Counts(h, m)
        /\ ~ InWriter(h[m].type, g.num) =>
            \A i \in FieldsOf(h, m) : FieldOf(h, m, i).num # g.num
        /\ InWriter(h[m].type, g.num) => \E i : Common(h, hp, m, n, g, i)
    BY CommonField
  <1>3. CASE ~ InWriter(h[m].type, g.num)
    <2>1. \A i \in FieldsOf(h, m) : FieldOf(h, m, i).num # g.num
      BY <1>2, <1>3, Zenon
    <2>2. w = Dec!DefaultValue(g)
      BY <2>1, Zenon DEF FieldOK
    <2>. QED
      BY <2>2, Zenon DEF FieldPart
  <1>4. CASE InWriter(h[m].type, g.num)
    <2>1. PICK i : Common(h, hp, m, n, g, i)
      BY <1>2, <1>4, Zenon
    <2> DEFINE e == Elems(h, m, i)
               k == d[i]
    <2>2. /\ BothHave(h, m, i, g) /\ i \in FieldsOf(h, m)
          /\ FieldOf(h, m, i).num = g.num
          /\ Len(e) \in Nat /\ DOMAIN e = 1 .. Len(e)
      BY <2>1, Zenon DEF Common
    <2>3. Shows(g, e, k, hp, who, w)
      BY <2>2, Zenon DEF FieldOK
    <2>4. k \in Nat /\ k <= Len(e)
      BY <1>2, <2>2, CountOf
    <2>5. g.type = "string" => \A j \in DOMAIN e : e[j] \in Seq(Byte)
      BY <1>2, <2>2, StringElems
    <2>6. g.type = "message" => \A j \in DOMAIN e : e[j] # 0
      <3>1. SUFFICES ASSUME g.type = "message", NEW j \in DOMAIN e
                     PROVE  e[j] # 0
        OBVIOUS
      <3>2. \A l \in DOMAIN e : Enc!Sizable(h, m, FieldOf(h, m, i), e[l])
        BY <1>2, <2>2, ElemsAreSizable, Zenon DEF FieldsOf
      <3>3. Enc!Sizable(h, m, FieldOf(h, m, i), e[j])
        BY <3>2
      <3>4. FieldOf(h, m, i).type = "message"
        BY <2>2, <3>1, Zenon DEF BothHave
      <3>5. m \in Nat
        <4>1. DOMAIN h = 1 .. Len(h)
          BY MessagesAreSeq
        <4>. QED
          BY <1>2, <4>1
      <3> DEFINE x == e[j]
                 f == FieldOf(h, m, i)
      <3> HIDE DEF x, f
      <3>6. \/ f.type = "string" /\ x \in Seq(Byte) /\ Len(x) < U32
            \/ f.type = "message" /\ x \in (m + 1) .. Len(h) /\ Sizes(h)[x] < U32
            \/ f.type \in NumberTypes /\ x \in Int
        BY <3>3, ElemKinds DEF x, f
      <3>7. x \in (m + 1) .. Len(h)
        BY <3>4, <3>6, KindsApart DEF f
      <3>8. x # 0
        BY <3>5, <3>7
      <3>. QED
        BY <3>8 DEF x
    <2>7. w = hp[n].val[g.num] /\ e = Elems(h, m, i)
      OBVIOUS
    <2> HIDE DEF w, e, k, d
    <2>8. CASE g.repeated
      <3>1. IsSeq(w) /\ Len(w) = k
            /\ \A j \in 1 .. k : Matches(g, hp, who, e[j], w[j])
        BY <2>3, <2>8, Zenon DEF Shows
      <3>2. DOMAIN w = 1 .. k
        BY <3>1, IsSeqLen
      <3>3. CASE k = 0
        <4>1. w = <<>>
          <5>1. w \in Seq({w[j] : j \in DOMAIN w})
            BY <3>1 DEF IsSeq, Enc!IsSeq
          <5>. QED
            BY <3>1, <3>3, <5>1, EmptySeq
        <4>2. w = Dec!DefaultValue(g)
          BY <2>8, <4>1 DEF Dec!DefaultValue
        <4>. QED
          BY <2>7, <4>2, Zenon DEF FieldPart
      <3>4. CASE k # 0
        <4>1. k \in 1 .. k /\ k \in DOMAIN e /\ \A j \in 1 .. (k - 1) : j \in 1 .. k
          BY <2>2, <2>4, <3>4
        <4>2. ASSUME NEW j \in 1 .. (k - 1)
              PROVE  Whole(s, g, e[j], w[j])
          <5>1. Matches(g, hp, who, e[j], w[j])
            BY <3>1, <4>1
          <5>2. g.type = "message" => ~ OnStack(st, w[j])
            BY <2>7, <2>8, <3>1, <4>2, Zenon DEF Earlier
          <5>. QED
            BY <5>1, <5>2, MatchIsWhole
        <4>3. Partly(p, g, e[k], w[k])
          <5>1. Matches(g, hp, who, e[k], w[k])
            BY <3>1, <4>1, Zenon
          <5>2. g.type = "message" => HasRef(hp, n, g, w[k]) /\ e[k] # 0
            BY <2>6, <2>7, <2>8, <3>2, <4>1, Zenon DEF HasRef, Refers
          <5>3. g.type = "string" => e[k] \in Seq(Byte)
            BY <2>5, <4>1, Zenon
          <5>. QED
            BY <1>1, <5>1, <5>2, <5>3, MatchIsPart
        <4>. QED
          BY <2>1, <2>4, <2>7, <2>8, <3>1, <4>2, <4>3, ListIsPart
      <3>. QED
        BY <3>3, <3>4
    <2>9. CASE ~ g.repeated
      <3>1. CASE k = 0
        <4>1. w = Dec!DefaultValue(g)
          BY <2>3, <2>9, <3>1, Zenon DEF Shows
        <4>. QED
          BY <2>7, <4>1, Zenon DEF FieldPart
      <3>2. CASE k # 0
        <4>1. 1 \in DOMAIN e /\ e # <<>>
          BY <2>2, <2>4, <3>2
        <4>2. Matches(g, hp, who, e[1], w)
          BY <2>3, <2>9, <3>2, Zenon DEF Shows
        <4>3. Partly(p, g, e[1], w)
          <5>1. g.type = "message" => HasRef(hp, n, g, w) /\ e[1] # 0
            <6>1. g.type = "message" => w \in DOMAIN hp
              BY <4>2, Zenon DEF Matches
            <6>. QED
              BY <1>1, <2>6, <2>7, <2>9, <4>1, <6>1, Zenon DEF HasRef, Refers
          <5>2. g.type = "string" => e[1] \in Seq(Byte)
            BY <2>5, <4>1, Zenon
          <5>. QED
            BY <1>1, <4>2, <5>1, <5>2, MatchIsPart
        <4>4. Partly(p, g, e[1], hp[n].val[g.num])
          BY <2>7, <4>3
        <4>. QED
          BY <2>1, <2>7, <2>9, <4>1, <4>4, ValueIsPart
      <3>. QED
        BY <3>1, <3>2
    <2>. QED
      BY <2>8, <2>9
  <1>. QED
    BY <1>3, <1>4

\* The beginning of a sequence.
LEMMA BeginningOf ==
    ASSUME NEW x \in Seq(Byte), NEW q \in Seq(Byte), NEW y, x \o q = y
    PROVE  x = SubSeq(y, 1, Len(x))
  <1>1. Len(x) \in Nat /\ Len(q) \in Nat
    OBVIOUS
  <1>2. /\ y \in Seq(Byte) /\ Len(y) = Len(x) + Len(q)
        /\ \A j \in 1 .. Len(x) : y[j] = x[j]
    <2>1. x \o q \in Seq(Byte)
      BY ConcatProperties
    <2>. QED
      BY <2>1, ConcatProperties
  <1> DEFINE a == Len(x)
             t == SubSeq(y, 1, a)
  <1>3. a <= Len(y) /\ a \in Nat
    BY <1>1, <1>2
  <1>4. t \in Seq(Byte) /\ Len(t) = a /\ \A j \in 1 .. a : t[j] = y[j]
    BY <1>2, <1>3
  <1> HIDE DEF t
  <1>5. \A j \in 1 .. Len(x) : t[j] = x[j]
    BY <1>2, <1>4
  <1>6. x = t
    BY <1>4, <1>5, SeqEqual
  <1>. QED
    BY <1>6 DEF t

LEMMA PartialIsPart ==
    ASSUME NEW h, Enc!SizableMessages(h), Readable(h), NEW hp, NEW who, NEW got,
           Objects(h, hp, who, got), NEW n \in DOMAIN hp, NEW m, m = who[n],
           NEW g \in Dec!Fields(hp[n].type), Partial(h, hp, who, got, n, g),
           NEW s, NEW p
    PROVE  FieldPart(h, hp, s, p, m, n, g)
  <1>1. g.type = "string"
    BY DEF Partial
  <1>2. PICK i \in FieldsOf(h, m), q \in Seq(Byte) :
            /\ FieldOf(h, m, i).num = g.num
            /\ got[n][i] + 1 <= Len(Elems(h, m, i))
            /\ Begun(g, Elems(h, m, i), got[n][i] + 1, hp[n].val[g.num], q)
    BY Zenon DEF Partial
  <1>3. Common(h, hp, m, n, g, i) /\ m \in DOMAIN h /\ got[n] \in Counts(h, m)
    <2>1. /\ m \in DOMAIN h /\ got[n] \in Counts(h, m)
          /\ \A j \in FieldsOf(h, m) :
                FieldOf(h, m, j).num = g.num => Common(h, hp, m, n, g, j)
      BY CommonField
    <2>. QED
      BY <1>2, <2>1, Zenon
  <1> DEFINE w == hp[n].val[g.num]
             e == Elems(h, m, i)
             k == got[n][i] + 1
  <1>4. k \in Nat /\ k # 0
    <2>1. got[n][i] \in Nat
      BY <1>2, <1>3, CountOf
    <2>. QED
      BY <2>1
  <1>5. Begun(g, e, k, w, q) /\ k <= Len(e) /\ w = hp[n].val[g.num]
        /\ e = Elems(h, m, i)
    BY <1>2
  <1> HIDE DEF w, e, k
  <1>6. CASE g.repeated
    <2>1. /\ IsSeq(w) /\ Len(w) = k
          /\ \A j \in 1 .. (k - 1) : w[j] = e[j]
          /\ w[k] \in Seq(Byte) /\ w[k] \o q = e[k]
      BY <1>5, <1>6, Zenon DEF Begun
    <2>2. \A j \in 1 .. (k - 1) : Whole(s, g, e[j], w[j])
      BY <1>1, <2>1 DEF Whole, Same
    <2>3. Partly(p, g, e[k], w[k])
      <3>1. w[k] = SubSeq(e[k], 1, Len(w[k]))
        BY <2>1, BeginningOf
      <3>. QED
        BY <1>1, <3>1 DEF Partly
    <2>. QED
      BY <1>3, <1>4, <1>5, <1>6, <2>1, <2>2, <2>3, ListIsPart
  <1>7. CASE ~ g.repeated
    <2>1. k = 1 /\ w \in Seq(Byte) /\ w \o q = e[1]
      BY <1>5, <1>7, Zenon DEF Begun
    <2>2. e # <<>>
      <3>1. 1 <= Len(e)
        BY <1>5, <2>1
      <3>. QED
        BY <3>1
    <2>3. Partly(p, g, e[1], w)
      <3>1. w = SubSeq(e[1], 1, Len(w))
        BY <2>1, BeginningOf
      <3>. QED
        BY <1>1, <3>1 DEF Partly
    <2>4. Partly(p, g, e[1], hp[n].val[g.num])
      BY <1>5, <2>3
    <2>. QED
      BY <1>3, <1>5, <1>7, <2>2, <2>4, ValueIsPart
  <1>. QED
    BY <1>6, <1>7

LEMMA HeldIsPart ==
    ASSUME NEW h, Enc!SizableMessages(h), Readable(h), NEW hp, NEW st, NEW who,
           NEW got, Held(h, hp, st, who, got), Refs(hp, st)
    PROVE  PartOf(h, hp, SameOf(h, hp))[1][1]
  <1> DEFINE s == SameOf(h, hp)
             p == PartOf(h, hp, s)
             N == Len(h)
             T == {m \in 1 .. N : \A n \in DOMAIN hp : who[n] = m => p[m][n]}
             C == {n \in DOMAIN hp : ~ OnStack(st, n)}
  <1>1. N \in Nat /\ DOMAIN h = 1 .. N
    BY MessagesAreSeq
  <1>2. Objects(h, hp, who, got)
    BY Zenon DEF Held
  <1>3. RefsInside(hp) /\ Lists(hp)
    BY HeldRefs
  <1>4. KnownTypes(hp)
    BY <1>2, ObjectTypes
  <1>5. OthersSame(hp, st, who, s)
    <2>1. Complete(h, hp, who, got, C)
      BY OthersAreComplete
    <2>2. \A n \in C : SameOf(h, hp)[who[n]][n]
      <3> HIDE DEF C
      <3>. QED
        BY <1>2, <2>1, CompleteAreSame
    <2>. QED
      BY <2>2, Zenon DEF OthersSame
  <1> HIDE DEF s, C
  <1>6. ASSUME NEW m \in 1 .. N, \A j \in (m + 1) .. N : j \in T
        PROVE  m \in T
    <2>1. SUFFICES ASSUME NEW n \in DOMAIN hp, who[n] = m
                   PROVE  p[m][n]
      OBVIOUS
    <2>2. \A j \in (m + 1) .. N : \A y \in DOMAIN hp : who[y] = j => p[j][y]
      BY <1>6
    <2> HIDE DEF p, T
    <2>3. m \in DOMAIN h /\ m = who[n]
      BY <1>1, <2>1
    <2>4. ASSUME NEW g \in Dec!Fields(hp[n].type)
          PROVE  FieldPart(h, hp, s, p, m, n, g)
      <3>1. HeldField(h, hp, st, who, got, n, g)
        BY Zenon DEF Held
      <3>2. CASE Partial(h, hp, who, got, n, g)
        BY <1>2, <2>3, <3>2, PartialIsPart
      <3>3. CASE FieldOK(h, hp, who, got, n, g)
        <4>1. ASSUME NEW y, HasRef(hp, n, g, y)
              PROVE  p[who[y]][y]
          <5>1. y \in DOMAIN hp /\ who[y] \in (m + 1) .. N
            BY <1>2, <2>3, <3>3, <4>1, RefIsYounger
          <5>. QED
            BY <2>2, <5>1, Zenon
        <4>2. RefsPart(hp, who, p, n, g)
          BY <4>1, Zenon DEF RefsPart
        <4>3. Earlier(st, g, hp[n].val[g.num])
          BY Zenon DEF Refs, LastOpen
        <4>. QED
          BY <1>2, <1>5, <2>3, <3>3, <4>2, <4>3, ReadIsPart
      <3>. QED
        BY <3>1, <3>2, <3>3, Zenon DEF HeldField
    <2>5. hp[n].type = h[m].type
      <3>1. hp[n].type = h[who[n]].type
        BY <1>2, ObjectsAre
      <3>. QED
        BY <2>1, <3>1
    <2>6. IsPart(h, hp, s, p, m, n)
      BY <2>4, <2>5, Zenon DEF IsPart
    <2>. QED
      BY <1>3, <1>4, <2>3, <2>6, PartRows DEF p
  <1>7. \A m \in 1 .. N : m \in T
    <2> HIDE DEF T, N
    <2>. QED
      BY <1>1, <1>6, BackwardInduction
  <1>8. 1 \in DOMAIN hp /\ who[1] = 1
    <2>1. IsSeq(hp) /\ hp # <<>> /\ who[1] = 1
      BY <1>2, Zenon DEF Objects
    <2>2. Len(hp) \in Nat /\ DOMAIN hp = 1 .. Len(hp)
      BY <2>1, IsSeqLen
    <2>3. Len(hp) # 0
      <3>1. hp \in Seq({hp[i] : i \in DOMAIN hp})
        BY <2>1 DEF IsSeq, Enc!IsSeq
      <3>. QED
        BY <2>1, <3>1, EmptySeq
    <2>. QED
      BY <2>1, <2>2, <2>3
  <1>9. who[1] \in 1 .. N
    BY <1>1, <1>2, <1>8, ObjectsAre
  <1>10. p[1][1]
    <2> HIDE DEF p, N
    <2>1. 1 \in T
      BY <1>7, <1>8, <1>9
    <2>. QED
      BY <1>8, <2>1
  <1>. QED
    BY <1>10, Zenon DEF s

LEMMA ReaderHasAPart ==
    ASSUME SourcesAreReadable, Mirrors, Referring
    PROVE  DecodesAPart
  <1>1. SUFFICES ASSUME refused = 0
                 PROVE  PartOfMessage[1][1]
    BY Zenon DEF DecodesAPart
  <1>2. /\ src \in Sources
        /\ Mirror(src, heap, stack, consumed, pc, rd, field, result)
    BY <1>1, Zenon DEF Mirrors, Encoding
  <1>3. Enc!SizableMessages(src) /\ Readable(src)
    BY <1>2, Zenon DEF SourcesAreReadable
  <1>4. Refs(heap, stack)
    BY <1>1, Zenon DEF Referring
  <1>5. PICK who, got :
            Follows(src, heap, stack, consumed, pc, rd, field, result, who, got)
    BY <1>2, Zenon DEF Mirror
  <1>6. Held(src, heap, stack, who, got)
    <2>1. CASE Going(src, heap, stack, consumed, pc, rd, field, who, got)
      BY <1>3, <2>1, GoingHolds
    <2>2. CASE Gone(src, heap, stack, pc, result, who, got)
      BY <2>2, GoneHolds
    <2>. QED
      BY <1>5, <2>1, <2>2, FollowsIs, Zenon
  <1>7. PartOf(src, heap, SameOf(src, heap))[1][1]
    BY <1>3, <1>4, <1>6, HeldIsPart
  <1>8. SameMessage = SameOf(src, heap)
    BY SameMessageIs, Zenon DEF SameOf
  <1>9. PartOfMessage = PartOf(src, heap, SameOf(src, heap))
    BY <1>8, PartOfMessageIs
  <1>. QED
    BY <1>7, <1>9

\* At no time does the reader hold something that the writer's message does
\* not: while DecodeMessage runs, and when it has returned, what it has filled
\* in is a part of what was encoded, in order and without gaps, for the same
\* schemas and messages as DecodeMirrorsEncode.
THEOREM DecodedIsPart ==
    ASSUME \A h \in Sources : Enc!SizableMessages(h) /\ Readable(h)
    PROVE  Spec => []DecodesAPart
  <1>1. SourcesAreReadable
    BY DEF SourcesAreReadable
  <1>2. Spec => [](Mirrors /\ Referring)
    BY <1>1, ReaderRefers
  <1>3. Mirrors /\ Referring => DecodesAPart
    BY <1>1, ReaderHasAPart
  <1>. QED
    BY <1>2, <1>3, PTL

=============================================================================
