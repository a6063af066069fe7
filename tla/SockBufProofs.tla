--------------------------- MODULE SockBufProofs ---------------------------
(***************************************************************************)
(* Proofs about the socket buffers (SockBuf), for every limit, every shape *)
(* of what is appended and every read.                                     *)
(*                                                                         *)
(* The bytes of a buffer are those of its mbufs, in all its records: every *)
(* operator on buffers is a fact about that sequence.  What it does to the *)
(* chains and the counters follows from it.                                *)
(***************************************************************************)
EXTENDS SockBuf, ListLemmas, SequenceTheorems, TLAPS

SbByte == Int
SbMbuf == [type : {"name", "data"}, data : Seq(SbByte), eor : BOOLEAN]
SbRecs == Seq(Seq(SbMbuf))
SbAny(x) == TRUE

Gather  == INSTANCE SeqLemmas WITH Op <- AddData, Holds <- SbAny
Flatten == INSTANCE SeqLemmas WITH Op <- AddMbufs, Holds <- SbAny
Tally   == INSTANCE SeqLemmas WITH Op <- Plus, Holds <- SbAny
Growing == INSTANCE SeqLemmas WITH Op <- Turn, Holds <- SbAny
Flushing == INSTANCE SeqLemmas WITH Op <- DropAll, Holds <- SbAny

\* The operators of SockBuf that are folds, as folds of SeqLemmas.
LEMMA BytesIs == \A s : Bytes(s) = Gather!Fold(<<>>, s)
  BY Zenon DEF Bytes, AddData, Gather!Fold, FoldLeft, Gather!FoldLeft, MapThenFoldSet,
               Gather!MapThenFoldSet, Max, Gather!Max
LEMMA MbufsIs == \A s : Mbufs(s) = Flatten!Fold(<<>>, s)
  BY Zenon DEF Mbufs, AddMbufs, Flatten!Fold, FoldLeft, Flatten!FoldLeft, MapThenFoldSet,
               Flatten!MapThenFoldSet, Max, Flatten!Max
LEMMA ShapeTotalIs == \A s : Total(s) = Tally!Fold(0, s)
  BY Zenon DEF Total, Plus, Tally!Fold, FoldLeft, Tally!FoldLeft, MapThenFoldSet,
               Tally!MapThenFoldSet, Max, Tally!Max

-----------------------------------------------------------------------------
\* A list in two parts.
LEMMA SbSplit ==
    ASSUME NEW S, NEW s \in Seq(S), NEW k \in 0 .. Len(s)
    PROVE  /\ s = SubSeq(s, 1, k) \o SubSeq(s, k + 1, Len(s))
           /\ SubSeq(s, 1, k) \in Seq(S) /\ Len(SubSeq(s, 1, k)) = k
           /\ SubSeq(s, k + 1, Len(s)) \in Seq(S) /\ Len(SubSeq(s, k + 1, Len(s))) = Len(s) - k
<1>1. SubSeq(s, 1, k) \in Seq(S) /\ Len(SubSeq(s, 1, k)) = k
  OBVIOUS
<1>2. SubSeq(s, k + 1, Len(s)) \in Seq(S) /\ Len(SubSeq(s, k + 1, Len(s))) = Len(s) - k
  OBVIOUS
<1>3. SubSeq(s, 1, k) \o SubSeq(s, k + 1, Len(s)) = SubSeq(s, 1, Len(s))
  <2>1. 1 \in 1 .. Len(s) + 1 /\ k \in 1 - 1 .. Len(s) /\ Len(s) \in k .. Len(s)
    OBVIOUS
  <2> QED BY <2>1, ConcatAdjacentSubSeq
<1>4. SubSeq(s, 1, Len(s)) = s
  OBVIOUS
<1> QED
  BY <1>1, <1>2, <1>3, <1>4

\* Concatenation, of bytes and of mbufs.
LEMMA SbAssoc == \A a, b, c \in Seq(SbByte) : (a \o b) \o c = a \o (b \o c)
BY ConcatAssociative
LEMMA SbMbufAssoc == \A a, b, c \in Seq(SbMbuf) : (a \o b) \o c = a \o (b \o c)
BY ConcatAssociative

\* Nothing is added by an empty list.
LEMMA SbNil ==
    ASSUME NEW S, NEW a \in Seq(S)
    PROVE  a \o <<>> = a /\ <<>> \o a = a
BY ConcatEmptySeq

\* A list that is gone through.
LEMMA SbPrefix ==
    ASSUME NEW S, NEW s \in Seq(S), NEW i \in 1 .. Len(s)
    PROVE  /\ i - 1 \in 0 .. Len(s) /\ i \in 0 .. Len(s) /\ (i - 1) + 1 = i /\ s[i] \in S
           /\ SubSeq(s, 1, i - 1) \in Seq(S)
           /\ SubSeq(s, 1, i) = Append(SubSeq(s, 1, i - 1), s[i])
<1>1. i - 1 \in 0 .. Len(s) /\ i \in 0 .. Len(s) /\ (i - 1) + 1 = i /\ s[i] \in S
  OBVIOUS
<1>2. SubSeq(s, 1, i - 1) \in Seq(S)
  BY <1>1
<1>3. SubSeq(s, 1, i) = Append(SubSeq(s, 1, i - 1), s[i])
  BY <1>1
<1> QED
  BY <1>1, <1>2, <1>3

\* The front of two lists.
LEMMA SbTake ==
    ASSUME NEW S, NEW a \in Seq(S), NEW b \in Seq(S), NEW n \in 0 .. Len(a)
    PROVE  SubSeq(a \o b, 1, n) = SubSeq(a, 1, n)
<1>1. CASE n = 0
  BY <1>1
<1>2. CASE n # 0
  <2>1. 1 \in 1 .. Len(a) /\ n \in 1 .. Len(a)
    BY <1>2
  <2> QED BY <2>1, SubSeqOfConcat1
<1> QED
  BY <1>1, <1>2

\* What is cut off the front of two lists.
LEMMA SbCut ==
    ASSUME NEW S, NEW a \in Seq(S), NEW b \in Seq(S), NEW n \in 0 .. Len(a) + Len(b)
    PROVE  SubSeq(a \o b, n + 1, Len(a \o b))
             = IF n <= Len(a) THEN SubSeq(a, n + 1, Len(a)) \o b ELSE SubSeq(b, n - Len(a) + 1, Len(b))
<1> DEFINE c == a \o b
           z == SubSeq(a, n + 1, Len(a))
           A == z \o b
           B == SubSeq(b, n - Len(a) + 1, Len(b))
<1>1. /\ c \in Seq(S) /\ Len(c) = Len(a) + Len(b)
      /\ \A i \in 1 .. Len(a) + Len(b) : c[i] = IF i <= Len(a) THEN a[i] ELSE b[i - Len(a)]
  BY ConcatProperties
<1> HIDE DEF c
<1>2. /\ SubSeq(c, n + 1, Len(c)) \in Seq(S) /\ Len(SubSeq(c, n + 1, Len(c))) = Len(a) + Len(b) - n
      /\ \A i \in 1 .. Len(a) + Len(b) - n : SubSeq(c, n + 1, Len(c))[i] = c[n + i]
  BY <1>1
<1>3. ASSUME n <= Len(a)
      PROVE  SubSeq(c, n + 1, Len(c)) = A
  <2>1. /\ z \in Seq(S) /\ Len(z) = Len(a) - n
        /\ \A i \in 1 .. Len(a) - n : z[i] = a[n + i]
    BY <1>3
  <2> HIDE DEF z
  <2>2. /\ A \in Seq(S) /\ Len(A) = Len(a) - n + Len(b)
        /\ \A i \in 1 .. Len(a) - n + Len(b) :
               A[i] = IF i <= Len(a) - n THEN z[i] ELSE b[i - (Len(a) - n)]
    <3>1. /\ A \in Seq(S) /\ Len(A) = Len(z) + Len(b)
          /\ \A i \in 1 .. Len(z) + Len(b) : A[i] = IF i <= Len(z) THEN z[i] ELSE b[i - Len(z)]
      BY <2>1, ConcatProperties
    <3> HIDE DEF A
    <3> QED BY <2>1, <3>1
  <2> HIDE DEF A
  <2>3. ASSUME NEW i \in 1 .. Len(A)
        PROVE  A[i] = SubSeq(c, n + 1, Len(c))[i]
    <3>1. i \in Int /\ 1 <= i /\ i <= Len(a) + Len(b) - n /\ Len(a) \in Nat /\ Len(b) \in Nat /\ n \in Nat
      BY <2>2
    <3>2. SubSeq(c, n + 1, Len(c))[i] = c[n + i]
      <4>1. i \in 1 .. Len(a) + Len(b) - n
        BY <3>1
      <4> QED BY <1>2, <4>1
    <3>3. c[n + i] = IF n + i <= Len(a) THEN a[n + i] ELSE b[n + i - Len(a)]
      <4>1. n + i \in 1 .. Len(a) + Len(b)
        BY <3>1
      <4> QED BY <1>1, <4>1
    <3>4. A[i] = IF i <= Len(a) - n THEN z[i] ELSE b[i - (Len(a) - n)]
      BY <2>2, <3>1
    <3>5. CASE i <= Len(a) - n
      <4>1. i \in 1 .. Len(a) - n /\ n + i <= Len(a)
        BY <3>1, <3>5
      <4> QED BY <2>1, <3>2, <3>3, <3>4, <3>5, <4>1
    <3>6. CASE ~ (i <= Len(a) - n)
      <4>1. i - (Len(a) - n) = n + i - Len(a)
        BY <3>1
      <4>2. ~ (n + i <= Len(a))
        BY <3>1, <3>6
      <4> QED BY <3>2, <3>3, <3>4, <3>6, <4>1, <4>2
    <3> QED BY <3>5, <3>6
  <2>4. Len(A) = Len(SubSeq(c, n + 1, Len(c)))
    BY <1>2, <2>2
  <2> QED BY <1>2, <2>2, <2>3, <2>4, SeqEqual
<1>4. ASSUME ~ (n <= Len(a))
      PROVE  SubSeq(c, n + 1, Len(c)) = B
  <2>1. /\ B \in Seq(S) /\ Len(B) = Len(a) + Len(b) - n
        /\ \A i \in 1 .. Len(a) + Len(b) - n : B[i] = b[n - Len(a) + i]
    BY <1>4
  <2> HIDE DEF B
  <2>2. ASSUME NEW i \in 1 .. Len(B)
        PROVE  B[i] = SubSeq(c, n + 1, Len(c))[i]
    <3>1. i \in Int /\ 1 <= i /\ i <= Len(a) + Len(b) - n /\ Len(a) \in Nat /\ Len(b) \in Nat /\ n \in Nat
      BY <2>1
    <3>2. SubSeq(c, n + 1, Len(c))[i] = c[n + i] /\ B[i] = b[n - Len(a) + i]
      BY <1>2, <2>1, <3>1
    <3>3. n + i \in 1 .. Len(a) + Len(b) /\ ~ (n + i <= Len(a)) /\ n + i - Len(a) = n - Len(a) + i
      BY <1>4, <3>1
    <3>4. c[n + i] = b[n + i - Len(a)]
      BY <1>1, <3>3
    <3> QED BY <3>2, <3>3, <3>4
  <2>3. Len(B) = Len(SubSeq(c, n + 1, Len(c)))
    BY <1>2, <2>1
  <2> QED BY <1>2, <2>1, <2>2, <2>3, SeqEqual
<1> QED
  BY <1>3, <1>4 DEF c, z

-----------------------------------------------------------------------------
\* The bytes of mbufs.
LEMMA SbBytesIn ==
    ASSUME NEW s \in Seq(SbMbuf)
    PROVE  Bytes(s) \in Seq(SbByte) /\ Size(s) \in Nat
<1>1. <<>> \in Seq(SbByte)
  OBVIOUS
<1>2. ASSUME NEW i \in 1 .. Len(s), NEW a \in Seq(SbByte)
      PROVE  AddData(a, s[i]) \in Seq(SbByte)
  <2>1. s[i] \in SbMbuf
    OBVIOUS
  <2>2. s[i].data \in Seq(SbByte)
    BY <2>1 DEF SbMbuf
  <2> QED BY <2>2 DEF AddData
<1>3. Gather!Fold(<<>>, s) \in Seq(SbByte)
  BY <1>1, <1>2, Gather!FoldIn
<1> QED
  BY <1>3, BytesIs DEF Size

\* No mbuf has no bytes, and one mbuf has its own.
LEMMA SbBytesOne ==
    /\ Bytes(<<>>) = <<>> /\ Size(<<>>) = 0
    /\ \A m \in SbMbuf : Bytes(<<m>>) = m.data /\ Size(<<m>>) = Len(m.data)
<1>1. Bytes(<<>>) = <<>>
  BY Gather!FoldEmpty, BytesIs
<1>2. ASSUME NEW m \in SbMbuf
      PROVE  Bytes(<<m>>) = m.data
  <2>1. <<>> \in Seq(SbMbuf) /\ <<m>> = Append(<<>>, m)
    OBVIOUS
  <2>2. Gather!Fold(<<>>, Append(<<>>, m)) = AddData(Gather!Fold(<<>>, <<>>), m)
    BY <2>1, Gather!FoldAppend
  <2>3. m.data \in Seq(SbByte) /\ <<>> \o m.data = m.data
    BY DEF SbMbuf
  <2> QED BY <1>1, <2>1, <2>2, <2>3, BytesIs DEF AddData
<1> QED
  BY <1>1, <1>2 DEF Size

\* The bytes of two chains.
LEMMA SbBytesCat ==
    ASSUME NEW s \in Seq(SbMbuf), NEW t \in Seq(SbMbuf)
    PROVE  Bytes(s \o t) = Bytes(s) \o Bytes(t) /\ Size(s \o t) = Size(s) + Size(t)
<1> DEFINE H == [i \in 0 .. Len(t) |-> {Bytes(s) \o Bytes(SubSeq(t, 1, i))}]
<1>1. SubSeq(t, 1, Len(t)) = t /\ SubSeq(t, 1, 0) = <<>> /\ Len(t) \in 0 .. Len(t) /\ 0 \in 0 .. Len(t)
  OBVIOUS
<1>2. Bytes(s) \in Seq(SbByte) /\ Bytes(t) \in Seq(SbByte)
  BY SbBytesIn
<1>3. Bytes(s) \in H[0]
  <2>1. Bytes(s) \o <<>> = Bytes(s)
    BY <1>2, SbNil
  <2> QED BY <1>1, <2>1, SbBytesOne
<1>4. ASSUME NEW i \in 1 .. Len(t), NEW a \in H[i - 1]
      PROVE  AddData(a, t[i]) \in H[i]
  <2>1. i - 1 \in 0 .. Len(t) /\ i \in 0 .. Len(t) /\ SubSeq(t, 1, i - 1) \in Seq(SbMbuf)
        /\ t[i] \in SbMbuf /\ i - 1 \in 0 .. Len(t) - 1 /\ (i - 1) + 1 = i
    OBVIOUS
  <2>2. a = Bytes(s) \o Bytes(SubSeq(t, 1, i - 1))
    BY <1>4, <2>1
  <2>3. Bytes(SubSeq(t, 1, i)) = Bytes(SubSeq(t, 1, i - 1)) \o t[i].data
    <3>1. Gather!Fold(<<>>, SubSeq(t, 1, (i - 1) + 1)) = AddData(Gather!Fold(<<>>, SubSeq(t, 1, i - 1)), t[(i - 1) + 1])
      BY <2>1, Gather!FoldPrefix
    <3> QED BY <3>1, <2>1, BytesIs DEF AddData
  <2>4. Bytes(SubSeq(t, 1, i - 1)) \in Seq(SbByte) /\ t[i].data \in Seq(SbByte)
    BY <2>1, SbBytesIn DEF SbMbuf
  <2>5. (Bytes(s) \o Bytes(SubSeq(t, 1, i - 1))) \o t[i].data = Bytes(s) \o (Bytes(SubSeq(t, 1, i - 1)) \o t[i].data)
    <3> DEFINE x == Bytes(s)
               y == Bytes(SubSeq(t, 1, i - 1))
               z == t[i].data
    <3>1. x \in Seq(SbByte) /\ y \in Seq(SbByte) /\ z \in Seq(SbByte)
      BY <1>2, <2>4
    <3> HIDE DEF x, y, z
    <3>2. (x \o y) \o z = x \o (y \o z)
      BY <3>1, SbAssoc, Zenon
    <3> QED BY <3>2 DEF x, y, z
  <2> QED BY <2>1, <2>2, <2>3, <2>5 DEF AddData
<1>5. Gather!Fold(Bytes(s), t) \in H[Len(t)]
  <2> HIDE DEF H
  <2> QED BY <1>3, <1>4, Gather!FoldThrough
<1>6. Bytes(s \o t) = Gather!Fold(Bytes(s), t)
  <2>1. Gather!Fold(<<>>, s \o t) = Gather!Fold(Gather!Fold(<<>>, s), t)
    BY Gather!FoldConcat
  <2> QED BY <2>1, BytesIs
<1>7. Bytes(s \o t) = Bytes(s) \o Bytes(t)
  BY <1>1, <1>5, <1>6
<1> QED
  BY <1>2, <1>7 DEF Size

\* The mbufs of records.
LEMMA SbMbufsIn ==
    ASSUME NEW r \in SbRecs
    PROVE  Mbufs(r) \in Seq(SbMbuf)
<1>1. <<>> \in Seq(SbMbuf)
  OBVIOUS
<1>2. ASSUME NEW i \in 1 .. Len(r), NEW a \in Seq(SbMbuf)
      PROVE  AddMbufs(a, r[i]) \in Seq(SbMbuf)
  <2>1. r[i] \in Seq(SbMbuf)
    BY DEF SbRecs
  <2> QED BY <2>1 DEF AddMbufs
<1>3. r \in Seq(Seq(SbMbuf))
  BY DEF SbRecs
<1>4. Flatten!Fold(<<>>, r) \in Seq(SbMbuf)
  BY <1>1, <1>2, <1>3, Flatten!FoldIn
<1> QED
  BY <1>4, MbufsIs

\* No record, and one record.
LEMMA SbMbufsOne ==
    Mbufs(<<>>) = <<>> /\ \A s \in Seq(SbMbuf) : Mbufs(<<s>>) = s
<1>1. Mbufs(<<>>) = <<>>
  BY Flatten!FoldEmpty, MbufsIs
<1>2. ASSUME NEW s \in Seq(SbMbuf)
      PROVE  Mbufs(<<s>>) = s
  <2>1. <<>> \in Seq(Seq(SbMbuf)) /\ <<s>> = Append(<<>>, s)
    OBVIOUS
  <2>2. Flatten!Fold(<<>>, Append(<<>>, s)) = AddMbufs(Flatten!Fold(<<>>, <<>>), s)
    BY <2>1, Flatten!FoldAppend
  <2>3. <<>> \o s = s
    BY SbNil
  <2> QED BY <1>1, <2>1, <2>2, <2>3, MbufsIs DEF AddMbufs
<1> QED
  BY <1>1, <1>2

\* The mbufs of two lists of records.
LEMMA SbMbufsCat ==
    ASSUME NEW r \in SbRecs, NEW q \in SbRecs
    PROVE  Mbufs(r \o q) = Mbufs(r) \o Mbufs(q)
<1> DEFINE H == [i \in 0 .. Len(q) |-> {Mbufs(r) \o Mbufs(SubSeq(q, 1, i))}]
<1>1. /\ SubSeq(q, 1, Len(q)) = q /\ SubSeq(q, 1, 0) = <<>> /\ Len(q) \in 0 .. Len(q) /\ 0 \in 0 .. Len(q)
      /\ q \in Seq(Seq(SbMbuf)) /\ r \in Seq(Seq(SbMbuf))
  BY DEF SbRecs
<1>2. Mbufs(r) \in Seq(SbMbuf) /\ Mbufs(q) \in Seq(SbMbuf)
  BY SbMbufsIn
<1>3. Mbufs(r) \in H[0]
  <2>1. Mbufs(r) \o <<>> = Mbufs(r)
    BY <1>2, SbNil
  <2> QED BY <1>1, <2>1, SbMbufsOne
<1>4. ASSUME NEW i \in 1 .. Len(q), NEW a \in H[i - 1]
      PROVE  AddMbufs(a, q[i]) \in H[i]
  <2>1. i - 1 \in 0 .. Len(q) /\ i \in 0 .. Len(q) /\ SubSeq(q, 1, i - 1) \in Seq(Seq(SbMbuf))
        /\ q[i] \in Seq(SbMbuf) /\ i - 1 \in 0 .. Len(q) - 1 /\ (i - 1) + 1 = i
    BY <1>1
  <2>2. a = Mbufs(r) \o Mbufs(SubSeq(q, 1, i - 1))
    BY <1>4, <2>1
  <2>3. Mbufs(SubSeq(q, 1, i)) = Mbufs(SubSeq(q, 1, i - 1)) \o q[i]
    <3>1. Flatten!Fold(<<>>, SubSeq(q, 1, (i - 1) + 1))
            = AddMbufs(Flatten!Fold(<<>>, SubSeq(q, 1, i - 1)), q[(i - 1) + 1])
      BY <1>1, <2>1, Flatten!FoldPrefix
    <3> QED BY <3>1, <2>1, MbufsIs DEF AddMbufs
  <2>4. Mbufs(SubSeq(q, 1, i - 1)) \in Seq(SbMbuf)
    BY <2>1, SbMbufsIn DEF SbRecs
  <2>5. (Mbufs(r) \o Mbufs(SubSeq(q, 1, i - 1))) \o q[i] = Mbufs(r) \o (Mbufs(SubSeq(q, 1, i - 1)) \o q[i])
    BY <1>2, <2>1, <2>4, SbMbufAssoc, Zenon
  <2> QED BY <2>1, <2>2, <2>3, <2>5 DEF AddMbufs
<1>5. Flatten!Fold(Mbufs(r), q) \in H[Len(q)]
  <2> HIDE DEF H
  <2> QED BY <1>1, <1>3, <1>4, Flatten!FoldThrough
<1>6. Mbufs(r \o q) = Flatten!Fold(Mbufs(r), q)
  <2>1. Flatten!Fold(<<>>, r \o q) = Flatten!Fold(Flatten!Fold(<<>>, r), q)
    BY <1>1, Flatten!FoldConcat
  <2> QED BY <2>1, MbufsIs
<1> QED
  BY <1>1, <1>5, <1>6

-----------------------------------------------------------------------------
\* The least and the greatest of a set of places.
LEMMA SbMaxIs ==
    ASSUME NEW n \in Nat, NEW I \in SUBSET (0 .. n), NEW x \in I, \A y \in I : x >= y
    PROVE  Max(I) = x
<1>1. \A y \in I : y \in Int
  OBVIOUS
<1>2. \A z \in I : (\A y \in I : z >= y) => z = x
  BY <1>1
<1> QED
  BY <1>2 DEF Max

\* A set of places has its greatest.
LEMMA SbMaxIn ==
    ASSUME NEW n \in Nat, NEW I \in SUBSET (0 .. n), I # {}
    PROVE  Max(I) \in I /\ \A y \in I : Max(I) >= y
<1> DEFINE J == {n - y : y \in I}
<1>0. \A y \in I : y \in Int /\ n - y \in Nat
  OBVIOUS
<1>1. J \in SUBSET Nat /\ J # {}
  BY <1>0
<1>2. PICK m \in J : \A k \in J : m <= k
  <2> HIDE DEF J
  <2> QED BY <1>1, NatMin
<1>3. PICK x \in I : m = n - x
  BY <1>2
<1>4. ASSUME NEW y \in I PROVE x >= y
  <2>1. n - y \in J /\ x \in Int /\ y \in Int
    BY <1>0
  <2>2. m <= n - y
    <3> HIDE DEF J
    <3> QED BY <1>2, <2>1
  <2> QED BY <1>3, <2>1, <2>2
<1>5. Max(I) = x
  BY <1>4, SbMaxIs
<1> QED
  BY <1>4, <1>5

\* A set of numbers has its least.
LEMMA SbMinIn ==
    ASSUME NEW I \in SUBSET Nat, I # {}
    PROVE  Min(I) \in I /\ \A y \in I : Min(I) <= y
<1>1. PICK m \in I : \A k \in I : m <= k
  BY NatMin
<1> QED
  BY <1>1 DEF Min

-----------------------------------------------------------------------------
\* Taking n bytes off mbufs takes them off the front of their bytes.
LEMMA SbRestOK ==
    ASSUME NEW s \in Seq(SbMbuf), NEW n \in 0 .. Size(s)
    PROVE  /\ Rest(s, n) \in Seq(SbMbuf)
           /\ Bytes(Rest(s, n)) = SubSeq(Bytes(s), n + 1, Size(s))
           /\ n = Size(s) => Rest(s, n) = <<>>
<1> DEFINE J == {j \in 0 .. Len(s) : Size(SubSeq(s, 1, j)) <= n}
           gone == Max(J)
           p == SubSeq(s, 1, gone)
           q == SubSeq(s, gone + 1, Len(s))
           a == Bytes(p)
           b == Bytes(q)
           k == n - Size(p)
<1>0. Size(s) \in Nat /\ n \in Nat
  BY SbBytesIn
<1>1. gone \in 0 .. Len(s) /\ Size(p) <= n /\ \A j \in J : gone >= j
  <2>1. 0 \in J
    <3>1. SubSeq(s, 1, 0) = <<>> /\ 0 \in 0 .. Len(s)
      OBVIOUS
    <3>2. Size(SubSeq(s, 1, 0)) = 0
      BY <3>1, SbBytesOne
    <3> QED BY <1>0, <3>1, <3>2
  <2>2. Len(s) \in Nat /\ J \in SUBSET (0 .. Len(s)) /\ J # {}
    BY <2>1
  <2>3. gone \in J /\ \A j \in J : gone >= j
    <3> HIDE DEF J
    <3> QED BY <2>2, SbMaxIn
  <2> QED BY <2>3
<1>2. Rest(s, n) = IF q = <<>> THEN q
                   ELSE [q EXCEPT ![1].data = SubSeq(@, k + 1, Len(@))]
  BY DEF Rest
<1>3. ASSUME gone + 1 \in 0 .. Len(s)
      PROVE  ~ (Size(SubSeq(s, 1, gone + 1)) <= n)
  <2>1. gone + 1 \notin J
    <3> HIDE DEF J
    <3> QED BY <1>1
  <2> QED BY <1>3, <2>1
<1> HIDE DEF J, gone
<1>4. s = p \o q /\ p \in Seq(SbMbuf) /\ q \in Seq(SbMbuf) /\ Len(q) = Len(s) - gone
  BY <1>1, SbSplit
<1>5. /\ a \in Seq(SbByte) /\ b \in Seq(SbByte) /\ Bytes(s) = a \o b /\ Size(s) = Len(a) + Len(b)
      /\ Len(a) = Size(p) /\ Len(b) = Size(q)
  <2> HIDE DEF p, q
  <2>1. a \in Seq(SbByte) /\ b \in Seq(SbByte) /\ Bytes(s) = a \o b
    BY <1>4, SbBytesIn, SbBytesCat
  <2> QED BY <1>4, <2>1, SbBytesCat DEF Size
<1>6. SubSeq(Bytes(s), n + 1, Size(s)) = SubSeq(b, k + 1, Len(b))
  <2> HIDE DEF a, b, p, q
  <2>1. n \in 0 .. Len(a) + Len(b) /\ Size(s) = Len(a \o b) /\ k = n - Len(a)
    BY <1>0, <1>5 DEF Size
  <2>2. SubSeq(a \o b, n + 1, Len(a \o b))
          = IF n <= Len(a) THEN SubSeq(a, n + 1, Len(a)) \o b ELSE SubSeq(b, n - Len(a) + 1, Len(b))
    BY <1>5, <2>1, SbCut
  <2>3. CASE n = Len(a)
    <3>1. SubSeq(a, n + 1, Len(a)) = <<>> /\ <<>> \o b = b /\ SubSeq(b, 1, Len(b)) = b
      BY <1>5, <2>3, SbNil
    <3>2. k + 1 = 1
      BY <1>0, <2>1, <2>3
    <3> QED BY <1>5, <2>1, <2>2, <2>3, <3>1, <3>2
  <2>4. CASE n # Len(a)
    <3>1. ~ (n <= Len(a))
      BY <1>0, <1>1, <1>5, <2>4
    <3> QED BY <1>5, <2>1, <2>2, <3>1
  <2> QED BY <2>3, <2>4
<1>7. CASE q = <<>>
  <2>1. b = <<>>
    BY <1>7, SbBytesOne
  <2>2. SubSeq(b, k + 1, Len(b)) = <<>>
    <3>1. k \in Nat
      <4> HIDE DEF p, q
      <4>1. Size(p) \in Nat
        BY <1>4, SbBytesIn
      <4> QED BY <1>0, <1>1, <4>1
    <3> HIDE DEF k, b
    <3> QED BY <2>1, <3>1
  <2> QED BY <1>2, <1>4, <1>6, <1>7, <2>1, <2>2
<1>8. CASE q # <<>>
  <2> DEFINE m == q[1]
             r == Tail(q)
             d == SubSeq(m.data, k + 1, Len(m.data))
             m2 == [m EXCEPT !.data = d]
  <2> HIDE DEF p, q
  <2>1. /\ m \in SbMbuf /\ r \in Seq(SbMbuf) /\ q = <<m>> \o r /\ <<m>> \in Seq(SbMbuf)
        /\ m.data \in Seq(SbByte)
    <3>1. m \in SbMbuf /\ r \in Seq(SbMbuf) /\ q = <<m>> \o r
      BY <1>4, <1>8
    <3> QED BY <3>1 DEF SbMbuf
  <2>2. k \in Nat /\ k < Len(m.data)
    <3>1. Size(p) \in Nat
      BY <1>4, SbBytesIn
    <3>2. gone + 1 \in 0 .. Len(s)
      BY <1>1, <1>4, <1>8
    <3>3. SubSeq(s, 1, gone + 1) = p \o <<m>>
      <4>1. SubSeq(s, 1, gone + 1) = Append(SubSeq(s, 1, gone), s[gone + 1])
        BY <1>1, <3>2
      <4>2. s[gone + 1] = m
        BY <1>1, <3>2 DEF q
      <4>3. Append(p, m) = p \o <<m>>
        BY <1>4, <2>1, AppendIsConcat
      <4> QED BY <4>1, <4>2, <4>3 DEF p
    <3>4. Size(SubSeq(s, 1, gone + 1)) = Size(p) + Len(m.data)
      BY <1>4, <2>1, <3>3, SbBytesCat, SbBytesOne
    <3> QED BY <1>0, <1>1, <1>3, <2>1, <3>1, <3>2, <3>4
  <2>3. d \in Seq(SbByte)
    BY <2>1, <2>2
  <2>4. m2 \in SbMbuf /\ m2.data = d
    BY <2>1, <2>3 DEF SbMbuf
  <2>5. Rest(s, n) = <<m2>> \o r
    <3>1. Rest(s, n) = [q EXCEPT ![1] = m2]
      BY <1>2, <1>8
    <3>2. [q EXCEPT ![1] = m2] = <<m2>> \o r
      <4> HIDE DEF m2
      <4> QED BY <1>4, <1>8, <2>1, <2>4
    <3> QED BY <3>1, <3>2
  <2>6. Bytes(Rest(s, n)) = d \o Bytes(r)
    <3> HIDE DEF m2, d, r
    <3>1. Bytes(<<m2>>) = d /\ <<m2>> \in Seq(SbMbuf)
      BY <2>4, SbBytesOne
    <3> QED BY <2>1, <2>5, <3>1, SbBytesCat
  <2>7. b = m.data \o Bytes(r) /\ Bytes(r) \in Seq(SbByte)
    BY <2>1, SbBytesCat, SbBytesOne, SbBytesIn
  <2>8. SubSeq(b, k + 1, Len(b)) = d \o Bytes(r)
    <3> DEFINE x == m.data
               y == Bytes(r)
    <3>1. x \in Seq(SbByte) /\ y \in Seq(SbByte) /\ k \in 0 .. Len(x) + Len(y) /\ k <= Len(x)
      BY <2>1, <2>2, <2>7
    <3> HIDE DEF x, y
    <3>2. SubSeq(x \o y, k + 1, Len(x \o y)) = SubSeq(x, k + 1, Len(x)) \o y
      BY <3>1, SbCut
    <3> QED BY <2>7, <3>2 DEF x, y
  <2>9. n # Size(s)
    <3>1. Size(q) = Len(m.data) + Size(r) /\ Size(r) \in Nat /\ Size(p) \in Nat /\ Len(m.data) \in Nat
      BY <1>4, <2>1, SbBytesCat, SbBytesOne, SbBytesIn
    <3>2. Size(s) = Size(p) + (Len(m.data) + Size(r))
      BY <1>5, <3>1
    <3> HIDE DEF m, r
    <3> QED BY <1>0, <2>2, <3>1, <3>2
  <2>10. Rest(s, n) \in Seq(SbMbuf)
    <3> HIDE DEF m2, r
    <3> QED BY <2>1, <2>4, <2>5
  <2> QED BY <1>6, <2>6, <2>8, <2>9, <2>10
<1> QED
  BY <1>7, <1>8

-----------------------------------------------------------------------------
\* A buffer that counts what is in it.
SbBuf == [recs : SbRecs, cc : Int, mbcnt : Int]
SbExact(b) == b \in SbBuf /\ b.cc = Size(Mbufs(b.recs)) /\ b.mbcnt = Len(Mbufs(b.recs))
SbFull(recs) == \A i \in 1 .. Len(recs) : recs[i] # <<>>
SbAll(b) == Bytes(Mbufs(b.recs))

\* The types of what an exact buffer has.
LEMMA SbAllIn ==
    ASSUME NEW b, SbExact(b)
    PROVE  /\ b.recs \in SbRecs /\ SbAll(b) \in Seq(SbByte) /\ b.cc = Len(SbAll(b)) /\ b.cc \in Nat
           /\ Mbufs(b.recs) \in Seq(SbMbuf)
<1>1. b.recs \in SbRecs
  BY DEF SbExact, SbBuf
<1>2. Mbufs(b.recs) \in Seq(SbMbuf)
  BY <1>1, SbMbufsIn
<1> QED
  BY <1>1, <1>2, SbBytesIn DEF SbExact, SbAll, Size

\* s comes in place of the first k records.
LEMMA SbShrunkOK ==
    ASSUME NEW b, SbExact(b), SbFull(b.recs), NEW k \in 0 .. Len(b.recs), NEW s \in Seq(SbMbuf)
    PROVE  LET c == Shrunk(b, k, s) IN
           /\ SbExact(c) /\ SbFull(c.recs)
           /\ SbAll(c) = Bytes(s) \o Bytes(Mbufs(SubSeq(b.recs, k + 1, Len(b.recs))))
           /\ c.recs = (IF s = <<>> THEN <<>> ELSE <<s>>) \o SubSeq(b.recs, k + 1, Len(b.recs))
           /\ Len(c.recs) = Len(b.recs) - k + (IF s = <<>> THEN 0 ELSE 1)
<1> DEFINE p == SubSeq(b.recs, 1, k)
           q == SubSeq(b.recs, k + 1, Len(b.recs))
           h == IF s = <<>> THEN <<>> ELSE <<s>>
           P == Mbufs(p)
           Q == Mbufs(q)
           c == Shrunk(b, k, s)
<1>1. b.recs \in Seq(Seq(SbMbuf))
  BY DEF SbExact, SbBuf, SbRecs
<1>2. b.recs = p \o q /\ p \in SbRecs /\ q \in SbRecs /\ Len(q) = Len(b.recs) - k
  BY <1>1, SbSplit DEF SbRecs
<1>3. h \in SbRecs /\ Mbufs(h) = s /\ Len(h) = (IF s = <<>> THEN 0 ELSE 1)
      /\ \A i \in 1 .. Len(h) : h[i] # <<>>
  BY SbMbufsOne DEF SbRecs
<1>4. c.recs = h \o q /\ c.cc = b.cc - (Size(P) - Size(s)) /\ c.mbcnt = b.mbcnt - (Len(P) - Len(s))
      /\ c = [recs |-> h \o q, cc |-> b.cc - (Size(P) - Size(s)), mbcnt |-> b.mbcnt - (Len(P) - Len(s))]
  BY DEF Shrunk
<1>5. \A i \in 1 .. Len(q) : q[i] # <<>>
  <2>1. \A i \in 1 .. Len(b.recs) - k : q[i] = b.recs[k + i]
    BY <1>1
  <2> HIDE DEF q
  <2>2. ASSUME NEW i \in 1 .. Len(q) PROVE q[i] # <<>>
    <3>1. i \in 1 .. Len(b.recs) - k /\ k + i \in 1 .. Len(b.recs)
      BY <1>1, <1>2
    <3>2. b.recs[k + i] # <<>>
      BY <3>1 DEF SbFull
    <3> QED BY <2>1, <3>1, <3>2
  <2> QED BY <2>2
<1> HIDE DEF c, p, q, h
<1>6. P \in Seq(SbMbuf) /\ Q \in Seq(SbMbuf) /\ Mbufs(b.recs) = P \o Q /\ Mbufs(h \o q) = s \o Q
  BY <1>2, <1>3, SbMbufsIn, SbMbufsCat
<1>7. h \o q \in SbRecs /\ Len(h \o q) = Len(h) + Len(q)
  <2>1. h \in Seq(Seq(SbMbuf)) /\ q \in Seq(Seq(SbMbuf))
    BY <1>2, <1>3 DEF SbRecs
  <2> QED BY <2>1, ConcatProperties DEF SbRecs
<1>8. SbFull(h \o q)
  <2>1. ASSUME NEW i \in 1 .. Len(h \o q) PROVE (h \o q)[i] # <<>>
    <3>1. h \in Seq(Seq(SbMbuf)) /\ q \in Seq(Seq(SbMbuf))
      BY <1>2, <1>3 DEF SbRecs
    <3>2. (h \o q)[i] = IF i <= Len(h) THEN h[i] ELSE q[i - Len(h)]
      BY <1>7, <3>1, ConcatProperties
    <3>3. CASE i <= Len(h)
      BY <1>3, <3>1, <3>2, <3>3
    <3>4. CASE ~ (i <= Len(h))
      <4>1. i - Len(h) \in 1 .. Len(q)
        BY <1>7, <3>1, <3>4
      <4> QED BY <1>5, <3>2, <3>4, <4>1
    <3> QED BY <3>3, <3>4
  <2> QED BY <2>1 DEF SbFull
<1> HIDE DEF P, Q
<1>9. Size(P \o Q) = Size(P) + Size(Q) /\ Size(s \o Q) = Size(s) + Size(Q)
      /\ Bytes(s \o Q) = Bytes(s) \o Bytes(Q)
      /\ Size(P) \in Nat /\ Size(Q) \in Nat /\ Size(s) \in Nat
  BY <1>6, SbBytesCat, SbBytesIn
<1>10. Len(P \o Q) = Len(P) + Len(Q) /\ Len(s \o Q) = Len(s) + Len(Q)
       /\ Len(P) \in Nat /\ Len(Q) \in Nat /\ Len(s) \in Nat
  BY <1>6
<1>11. c.cc = Size(Mbufs(c.recs)) /\ c.mbcnt = Len(Mbufs(c.recs)) /\ c.cc \in Int /\ c.mbcnt \in Int
  BY <1>4, <1>6, <1>9, <1>10 DEF SbExact
<1>12. SbExact(c)
  <2>1. c \in SbBuf
    BY <1>4, <1>7, <1>11 DEF SbBuf
  <2> QED BY <1>11, <2>1 DEF SbExact
<1>13. SbAll(c) = Bytes(s) \o Bytes(Q)
  BY <1>4, <1>6, <1>9 DEF SbAll
<1>14. Len(c.recs) = Len(b.recs) - k + (IF s = <<>> THEN 0 ELSE 1)
  BY <1>1, <1>2, <1>3, <1>4, <1>7
<1>15. SbFull(c.recs)
  BY <1>4, <1>8
<1> QED
  BY <1>4, <1>12, <1>13, <1>14, <1>15 DEF c, h, q, Q

\* n bytes are taken off the first k records.
LEMMA SbTakenOK ==
    ASSUME NEW b, SbExact(b), SbFull(b.recs), NEW k \in 0 .. Len(b.recs),
           NEW n \in 0 .. Size(Mbufs(SubSeq(b.recs, 1, k)))
    PROVE  LET P == Mbufs(SubSeq(b.recs, 1, k))
               c == Shrunk(b, k, Rest(P, n))
           IN  /\ SbExact(c) /\ SbFull(c.recs)
               /\ SbAll(c) = SubSeq(SbAll(b), n + 1, Len(SbAll(b)))
               /\ SubSeq(SbAll(b), 1, n) = SubSeq(Bytes(P), 1, n)
               /\ n = Size(P) => Len(c.recs) = Len(b.recs) - k
               /\ Len(c.recs) <= Len(b.recs) - k + 1
               /\ n <= Len(SbAll(b))
<1> DEFINE P == Mbufs(SubSeq(b.recs, 1, k))
           Q == Mbufs(SubSeq(b.recs, k + 1, Len(b.recs)))
           s == Rest(P, n)
           c == Shrunk(b, k, s)
<1>1. /\ SubSeq(b.recs, 1, k) \in SbRecs /\ SubSeq(b.recs, k + 1, Len(b.recs)) \in SbRecs
      /\ b.recs = SubSeq(b.recs, 1, k) \o SubSeq(b.recs, k + 1, Len(b.recs)) /\ Len(b.recs) \in Nat
  <2>1. b.recs \in Seq(Seq(SbMbuf))
    BY DEF SbExact, SbBuf, SbRecs
  <2>2. /\ SubSeq(b.recs, 1, k) \in Seq(Seq(SbMbuf)) /\ SubSeq(b.recs, k + 1, Len(b.recs)) \in Seq(Seq(SbMbuf))
        /\ b.recs = SubSeq(b.recs, 1, k) \o SubSeq(b.recs, k + 1, Len(b.recs))
    BY <2>1, SbSplit
  <2>3. Len(b.recs) \in Nat
    BY <2>1
  <2> QED BY <2>2, <2>3, Zenon DEF SbRecs
<1>2. P \in Seq(SbMbuf) /\ Q \in Seq(SbMbuf) /\ Mbufs(b.recs) = P \o Q
  BY <1>1, SbMbufsIn, SbMbufsCat
<1> HIDE DEF P, Q
<1>3. s \in Seq(SbMbuf) /\ Bytes(s) = SubSeq(Bytes(P), n + 1, Size(P)) /\ (n = Size(P) => s = <<>>)
  BY <1>2, SbRestOK DEF P
<1>4. Bytes(P) \in Seq(SbByte) /\ Bytes(Q) \in Seq(SbByte) /\ SbAll(b) = Bytes(P) \o Bytes(Q)
  BY <1>2, SbBytesIn, SbBytesCat DEF SbAll
<1> HIDE DEF s
<1>5. /\ SbExact(c) /\ SbFull(c.recs) /\ SbAll(c) = Bytes(s) \o Bytes(Q)
      /\ Len(c.recs) = Len(b.recs) - k + (IF s = <<>> THEN 0 ELSE 1)
  BY <1>3, SbShrunkOK DEF Q
<1> HIDE DEF c
<1>6. SbAll(c) = SubSeq(SbAll(b), n + 1, Len(SbAll(b))) /\ SubSeq(SbAll(b), 1, n) = SubSeq(Bytes(P), 1, n)
  <2> DEFINE x == Bytes(P)
             y == Bytes(Q)
  <2>1. x \in Seq(SbByte) /\ y \in Seq(SbByte) /\ n \in 0 .. Len(x) /\ n \in 0 .. Len(x) + Len(y) /\ n <= Len(x)
    BY <1>4 DEF Size, P
  <2>2. SbAll(c) = SubSeq(x, n + 1, Len(x)) \o y /\ SbAll(b) = x \o y
    BY <1>3, <1>4, <1>5 DEF Size
  <2> HIDE DEF x, y
  <2>3. SubSeq(x \o y, n + 1, Len(x \o y)) = SubSeq(x, n + 1, Len(x)) \o y
    BY <2>1, SbCut
  <2>4. SubSeq(x \o y, 1, n) = SubSeq(x, 1, n)
    BY <2>1, SbTake
  <2> QED BY <2>2, <2>3, <2>4 DEF x
<1>7. (n = Size(P) => Len(c.recs) = Len(b.recs) - k) /\ Len(c.recs) <= Len(b.recs) - k + 1
  <2>1. CASE s = <<>>
    <3>1. Len(c.recs) = Len(b.recs) - k + 0
      BY <1>5, <2>1
    <3> QED BY <1>1, <3>1
  <2>2. CASE s # <<>>
    <3>1. Len(c.recs) = Len(b.recs) - k + 1 /\ n # Size(P)
      BY <1>3, <1>5, <2>2
    <3> QED BY <1>1, <3>1
  <2> QED BY <2>1, <2>2
<1>8. n <= Len(SbAll(b))
  <2>1. Len(SbAll(b)) = Len(Bytes(P)) + Len(Bytes(Q)) /\ Len(Bytes(P)) \in Nat /\ Len(Bytes(Q)) \in Nat
    BY <1>4, ConcatProperties
  <2> QED BY <2>1 DEF Size, P
<1> QED
  BY <1>5, <1>6, <1>7, <1>8 DEF c, s, P

\* sbdrop takes n bytes off the front of the buffer.
LEMMA SbDropOK ==
    ASSUME NEW b, SbExact(b), SbFull(b.recs), NEW n \in 0 .. b.cc
    PROVE  LET c == sbdrop(b, n) IN
           /\ SbExact(c) /\ SbFull(c.recs)
           /\ SbAll(c) = SubSeq(SbAll(b), n + 1, Len(SbAll(b)))
           /\ Len(c.recs) <= Len(b.recs)
           /\ n = b.cc /\ b.recs # <<>> => Len(c.recs) < Len(b.recs)
<1> DEFINE before(j) == Mbufs(SubSeq(b.recs, 1, j))
           K == {Len(b.recs)} \cup {j \in 1 .. Len(b.recs) : Size(before(j)) >= n}
           k == Min(K)
           c == Shrunk(b, k, Rest(before(k), n))
<1>0. sbdrop(b, n) = c
  BY DEF sbdrop
<1>1. /\ b.recs \in Seq(Seq(SbMbuf)) /\ Len(b.recs) \in Nat /\ SubSeq(b.recs, 1, Len(b.recs)) = b.recs
      /\ b.cc \in Nat /\ b.cc = Size(Mbufs(b.recs)) /\ n \in Nat
  <2>1. b.recs \in Seq(Seq(SbMbuf)) /\ b.cc \in Nat
    BY SbAllIn DEF SbRecs
  <2> QED BY <2>1 DEF SbExact
<1>2. K \in SUBSET (0 .. Len(b.recs)) /\ K \in SUBSET Nat /\ K # {}
  BY <1>1
<1>3. k \in K
  <2> HIDE DEF K
  <2> QED BY <1>2, SbMinIn
<1>4. k \in 0 .. Len(b.recs) /\ (b.recs # <<>> => k >= 1)
  BY <1>1, <1>3
<1>5. n \in 0 .. Size(before(k))
  <2>1. Size(before(k)) \in Nat
    <3>1. SubSeq(b.recs, 1, k) \in SbRecs
      <4> HIDE DEF k
      <4> QED BY <1>1, <1>4 DEF SbRecs
    <3> QED BY <3>1, SbMbufsIn, SbBytesIn
  <2>2. n <= Size(before(k))
    <3>1. CASE k = Len(b.recs)
      <4>1. before(k) = Mbufs(b.recs)
        BY <1>1, <3>1
      <4> HIDE DEF k, before
      <4> QED BY <1>1, <4>1
    <3>2. CASE k # Len(b.recs)
      <4>1. k \in {j \in 1 .. Len(b.recs) : Size(before(j)) >= n}
        BY <1>3, <3>2
      <4> QED BY <1>1, <2>1, <4>1
    <3> QED BY <3>1, <3>2
  <2> QED BY <1>1, <2>1, <2>2
<1> HIDE DEF k
<1>6. /\ SbExact(c) /\ SbFull(c.recs) /\ SbAll(c) = SubSeq(SbAll(b), n + 1, Len(SbAll(b)))
      /\ n = Size(before(k)) => Len(c.recs) = Len(b.recs) - k
      /\ Len(c.recs) <= Len(b.recs) - k + 1
  BY <1>4, <1>5, SbTakenOK
<1>7. n = b.cc => n = Size(before(k))
  <2>1. SubSeq(b.recs, 1, k) \in SbRecs /\ SubSeq(b.recs, k + 1, Len(b.recs)) \in SbRecs
        /\ b.recs = SubSeq(b.recs, 1, k) \o SubSeq(b.recs, k + 1, Len(b.recs))
    BY <1>1, <1>4, SbSplit DEF SbRecs
  <2> DEFINE Q == Mbufs(SubSeq(b.recs, k + 1, Len(b.recs)))
  <2>2. before(k) \in Seq(SbMbuf) /\ Q \in Seq(SbMbuf) /\ Mbufs(b.recs) = before(k) \o Q
    BY <2>1, SbMbufsIn, SbMbufsCat
  <2> HIDE DEF Q, before
  <2>3. b.cc = Size(before(k)) + Size(Q) /\ Size(before(k)) \in Nat /\ Size(Q) \in Nat
    BY <1>1, <2>2, SbBytesCat, SbBytesIn
  <2> QED BY <1>1, <1>5, <2>3
<1> HIDE DEF c, before
<1>8. Len(c.recs) <= Len(b.recs) /\ (n = b.cc /\ b.recs # <<>> => Len(c.recs) < Len(b.recs))
  <2>1. Len(c.recs) \in Nat
    BY <1>6, SbAllIn DEF SbRecs
  <2>2. b.recs = <<>> => n = b.cc
    <3>1. b.recs = <<>> => b.cc = 0
      BY <1>1, SbMbufsOne, SbBytesOne
    <3> QED BY <1>1, <3>1
  <2>3. b.recs = <<>> => k = 0 /\ Len(b.recs) = 0
    BY <1>4
  <2> QED BY <1>1, <1>4, <1>6, <1>7, <2>1, <2>2, <2>3
<1> QED
  BY <1>0, <1>6, <1>8

\* sbflush leaves nothing.
LEMMA SbFlushIs == \A b : sbflush(b) = Flushing!Fold(b, b.recs)
  BY Zenon DEF sbflush, DropAll, Flushing!Fold, FoldLeft, Flushing!FoldLeft, MapThenFoldSet,
               Flushing!MapThenFoldSet, Max, Flushing!Max

\* sbflush: every sbdrop of the loop takes a record, so that none is left.
LEMMA SbFlushOK ==
    ASSUME NEW b, SbExact(b), SbFull(b.recs)
    PROVE  LET c == sbflush(b) IN SbExact(c) /\ c.recs = <<>>
<1> DEFINE n == Len(b.recs)
           H == [i \in 0 .. n |-> {x \in SbBuf : SbExact(x) /\ SbFull(x.recs) /\ Len(x.recs) <= n - i}]
<1>1. b.recs \in Seq(Seq(SbMbuf)) /\ n \in Nat /\ 0 \in 0 .. n /\ n \in 0 .. n /\ b \in SbBuf
  <2>1. b.recs \in Seq(Seq(SbMbuf)) /\ b \in SbBuf
    BY DEF SbExact, SbBuf, SbRecs
  <2> QED BY <2>1
<1>2. b \in H[0]
  BY <1>1
<1>3. ASSUME NEW i \in 1 .. Len(b.recs), NEW x \in H[i - 1]
      PROVE  DropAll(x, b.recs[i]) \in H[i]
  <2> DEFINE c == sbdrop(x, x.cc)
  <2>1. i - 1 \in 0 .. n /\ i \in 0 .. n /\ i \in Nat
    BY <1>1
  <2>2. SbExact(x) /\ SbFull(x.recs) /\ Len(x.recs) <= n - (i - 1)
    BY <1>3, <2>1
  <2>3. x.cc \in 0 .. x.cc /\ x.recs \in Seq(Seq(SbMbuf))
    BY <2>2, SbAllIn DEF SbRecs
  <2>4. /\ SbExact(c) /\ SbFull(c.recs) /\ Len(c.recs) <= Len(x.recs)
        /\ x.recs # <<>> => Len(c.recs) < Len(x.recs)
    BY <2>2, <2>3, SbDropOK
  <2> HIDE DEF c
  <2>5. c \in SbBuf /\ Len(c.recs) \in Nat
    BY <2>4, SbAllIn DEF SbExact, SbRecs
  <2>6. Len(c.recs) <= n - i
    <3>1. CASE x.recs = <<>>
      BY <1>1, <2>1, <2>4, <2>5, <3>1
    <3>2. CASE x.recs # <<>>
      <4> DEFINE k == Len(x.recs)
                 d == Len(c.recs)
      <4>1. k \in Nat /\ k <= n - (i - 1) /\ d \in Nat /\ d < k
        BY <2>2, <2>3, <2>4, <2>5, <3>2
      <4> HIDE DEF k, d, n
      <4>2. d <= n - i
        BY <1>1, <2>1, <4>1
      <4> QED BY <4>2 DEF d, n
    <3> QED BY <3>1, <3>2
  <2>7. c \in H[i]
    BY <2>1, <2>4, <2>5, <2>6
  <2> QED BY <2>7 DEF c, DropAll
<1>4. Flushing!Fold(b, b.recs) \in H[Len(b.recs)]
  <2> HIDE DEF H
  <2> QED BY <1>1, <1>2, <1>3, Flushing!FoldThrough
<1> DEFINE c == sbflush(b)
<1>5. SbExact(c) /\ Len(c.recs) <= n - n
  <2>1. c \in H[n]
    BY <1>4, SbFlushIs
  <2> HIDE DEF c
  <2> QED BY <1>1, <2>1
<1> HIDE DEF c
<1>6. c.recs = <<>>
  <2>1. c.recs \in Seq(Seq(SbMbuf))
    BY <1>5, SbAllIn DEF SbRecs
  <2> QED BY <1>1, <1>5, <2>1
<1> QED
  BY <1>5, <1>6 DEF c

-----------------------------------------------------------------------------
(***************************************************************************)
(* Appending.                                                              *)
(***************************************************************************)
\* c is b with data behind its last record.
SbGrown(b, c, data) ==
    /\ SbExact(c) /\ SbAll(c) = SbAll(b) \o data /\ Len(c.recs) = Len(b.recs)
    /\ \A i \in 1 .. Len(b.recs) : b.recs[i] # <<>> => c.recs[i] # <<>>

\* A list whose last element is replaced.
LEMMA SbLastIs ==
    ASSUME NEW S, NEW r \in Seq(S), r # <<>>, NEW x \in S
    PROVE  /\ Len(r) \in Nat /\ SubSeq(r, 1, Len(r) - 1) \in Seq(S) /\ r[Len(r)] \in S
           /\ r = SubSeq(r, 1, Len(r) - 1) \o <<r[Len(r)]>>
           /\ [r EXCEPT ![Len(r)] = x] = SubSeq(r, 1, Len(r) - 1) \o <<x>>
           /\ Len([r EXCEPT ![Len(r)] = x]) = Len(r)
           /\ \A i \in 1 .. Len(r) : [r EXCEPT ![Len(r)] = x][i] = IF i = Len(r) THEN x ELSE r[i]
<1> DEFINE n == Len(r)
           p == SubSeq(r, 1, n - 1)
           q == [r EXCEPT ![n] = x]
<1>1. n \in Nat /\ n >= 1 /\ n \in 1 .. Len(r)
  OBVIOUS
<1>2. /\ p \in Seq(S) /\ Len(p) = n - 1 /\ r[n] \in S
      /\ \A i \in 1 .. n - 1 : p[i] = r[i]
  <2>1. r[n] \in S
    BY <1>1
  <2>2. n - 1 \in 0 .. Len(r)
    BY <1>1
  <2>3. p \in Seq(S) /\ Len(p) = n - 1
    BY <2>2, SbSplit
  <2>4. \A i \in 1 .. n - 1 : p[i] = r[i]
    BY <1>1
  <2> QED BY <2>1, <2>3, <2>4
<1>3. /\ q \in Seq(S) /\ Len(q) = n
      /\ \A i \in 1 .. n : q[i] = IF i = n THEN x ELSE r[i]
  BY <1>1, ExceptSeq
<1> HIDE DEF p, q
<1>4. r = Append(p, r[n]) /\ q = Append(p, x)
  BY <1>1, <1>2, <1>3
<1>5. Append(p, r[n]) = p \o <<r[n]>> /\ Append(p, x) = p \o <<x>>
  BY <1>2, AppendIsConcat
<1> QED
  BY <1>1, <1>2, <1>3, <1>4, <1>5 DEF p, q

\* The last record of b is replaced.
LEMMA SbLastOK ==
    ASSUME NEW b, SbExact(b), b.recs # <<>>, NEW s \in Seq(SbMbuf), NEW c \in SbBuf,
           c.recs = [b.recs EXCEPT ![Len(b.recs)] = s],
           c.cc = b.cc + (Size(s) - Size(b.recs[Len(b.recs)])),
           c.mbcnt = b.mbcnt + (Len(s) - Len(b.recs[Len(b.recs)])),
           NEW data \in Seq(SbByte), Bytes(s) = Bytes(b.recs[Len(b.recs)]) \o data,
           b.recs[Len(b.recs)] # <<>> => s # <<>>
    PROVE  SbGrown(b, c, data)
<1> DEFINE n == Len(b.recs)
           p == SubSeq(b.recs, 1, n - 1)
           t == b.recs[n]
           P == Mbufs(p)
<1>1. b.recs \in Seq(Seq(SbMbuf))
  BY DEF SbExact, SbBuf, SbRecs
<1>2. /\ n \in Nat /\ p \in Seq(Seq(SbMbuf)) /\ t \in Seq(SbMbuf)
      /\ b.recs = p \o <<t>> /\ c.recs = p \o <<s>> /\ Len(c.recs) = n
      /\ \A i \in 1 .. n : c.recs[i] = IF i = n THEN s ELSE b.recs[i]
  <2> DEFINE r == b.recs
             S == Seq(SbMbuf)
  <2>1. r \in Seq(S) /\ r # <<>> /\ s \in S
    BY <1>1
  <2> HIDE DEF r, S
  <2>2. /\ Len(r) \in Nat /\ SubSeq(r, 1, Len(r) - 1) \in Seq(S) /\ r[Len(r)] \in S
        /\ r = SubSeq(r, 1, Len(r) - 1) \o <<r[Len(r)]>>
        /\ [r EXCEPT ![Len(r)] = s] = SubSeq(r, 1, Len(r) - 1) \o <<s>>
        /\ Len([r EXCEPT ![Len(r)] = s]) = Len(r)
        /\ \A i \in 1 .. Len(r) : [r EXCEPT ![Len(r)] = s][i] = IF i = Len(r) THEN s ELSE r[i]
    BY <2>1, SbLastIs
  <2> QED BY <2>2, Zenon DEF r, S
<1>3. p \in SbRecs /\ <<t>> \in SbRecs /\ <<s>> \in SbRecs
  <2> HIDE DEF p, t
  <2> QED BY <1>2 DEF SbRecs
<1>4. c.recs = p \o <<s>> /\ b.recs = p \o <<t>>
  BY <1>2
<1>5. P \in Seq(SbMbuf) /\ Mbufs(b.recs) = P \o t /\ Mbufs(c.recs) = P \o s
  <2>1. Mbufs(<<t>>) = t /\ Mbufs(<<s>>) = s
    BY <1>2, SbMbufsOne
  <2> HIDE DEF p, t
  <2> QED BY <1>3, <1>4, <2>1, SbMbufsIn, SbMbufsCat
<1> HIDE DEF P, p
<1>6. /\ Size(P \o t) = Size(P) + Size(t) /\ Size(P \o s) = Size(P) + Size(s)
      /\ Size(P) \in Nat /\ Size(t) \in Nat /\ Size(s) \in Nat
      /\ Bytes(P \o t) = Bytes(P) \o Bytes(t) /\ Bytes(P \o s) = Bytes(P) \o Bytes(s)
      /\ Bytes(P) \in Seq(SbByte) /\ Bytes(t) \in Seq(SbByte)
  <2> HIDE DEF t
  <2> QED BY <1>2, <1>5, SbBytesCat, SbBytesIn
<1>7. Len(P \o t) = Len(P) + Len(t) /\ Len(P \o s) = Len(P) + Len(s)
      /\ Len(P) \in Nat /\ Len(t) \in Nat /\ Len(s) \in Nat
  <2> HIDE DEF t
  <2> QED BY <1>2, <1>5
<1>8. SbExact(c)
  <2>1. b.cc = Size(P) + Size(t) /\ b.mbcnt = Len(P) + Len(t)
    BY <1>5, <1>6, <1>7 DEF SbExact
  <2>2. c.cc = b.cc + (Size(s) - Size(t)) /\ c.mbcnt = b.mbcnt + (Len(s) - Len(t))
    OBVIOUS
  <2>3. c.cc = Size(P) + Size(s) /\ c.mbcnt = Len(P) + Len(s)
    <3>1. c.cc = (Size(P) + Size(t)) + (Size(s) - Size(t))
      BY <2>1, <2>2
    <3>2. c.mbcnt = (Len(P) + Len(t)) + (Len(s) - Len(t))
      BY <2>1, <2>2
    <3> HIDE DEF t
    <3>3. \A x, y, z \in Nat : (x + y) + (z - y) = x + z
      OBVIOUS
    <3>4. c.cc = Size(P) + Size(s)
      BY <1>6, <3>1, <3>3, Zenon
    <3>5. c.mbcnt = Len(P) + Len(s)
      BY <1>7, <3>2, <3>3, Zenon
    <3> QED BY <3>4, <3>5
  <2> QED BY <1>5, <1>6, <1>7, <2>3 DEF SbExact
<1>9. SbAll(c) = SbAll(b) \o data
  <2>1. Bytes(s) = Bytes(t) \o data
    OBVIOUS
  <2> DEFINE x == Bytes(P)
             y == Bytes(t)
  <2>2. SbAll(c) = x \o (y \o data) /\ SbAll(b) = x \o y
    BY <1>5, <1>6, <2>1 DEF SbAll
  <2>3. x \in Seq(SbByte) /\ y \in Seq(SbByte)
    BY <1>6
  <2> HIDE DEF x, y
  <2>4. (x \o y) \o data = x \o (y \o data)
    BY <2>3, SbAssoc, Zenon
  <2> QED BY <2>2, <2>4, Zenon
<1>10. \A i \in 1 .. n : b.recs[i] # <<>> => c.recs[i] # <<>>
  BY <1>2
<1> QED
  BY <1>2, <1>8, <1>9, <1>10 DEF SbGrown

\* The last mbuf of s gets other data and another mark.
LEMMA SbLastMbuf ==
    ASSUME NEW s \in Seq(SbMbuf), s # <<>>, NEW m \in SbMbuf,
           NEW data \in Seq(SbByte), m.data = s[Len(s)].data \o data
    PROVE  LET q == [s EXCEPT ![Len(s)] = m] IN
           q \in Seq(SbMbuf) /\ q # <<>> /\ Len(q) = Len(s) /\ Bytes(q) = Bytes(s) \o data
           /\ Size(q) = Size(s) + Len(data)
<1> DEFINE n == Len(s)
           p == SubSeq(s, 1, n - 1)
           t == s[n]
           q == [s EXCEPT ![n] = m]
<1>1. /\ n \in Nat /\ p \in Seq(SbMbuf) /\ t \in SbMbuf
      /\ s = p \o <<t>> /\ q = p \o <<m>> /\ Len(q) = n
  <2> DEFINE S == SbMbuf
  <2>1. s \in Seq(S) /\ m \in S
    OBVIOUS
  <2> HIDE DEF S
  <2>2. /\ Len(s) \in Nat /\ SubSeq(s, 1, Len(s) - 1) \in Seq(S) /\ s[Len(s)] \in S
        /\ s = SubSeq(s, 1, Len(s) - 1) \o <<s[Len(s)]>>
        /\ [s EXCEPT ![Len(s)] = m] = SubSeq(s, 1, Len(s) - 1) \o <<m>>
        /\ Len([s EXCEPT ![Len(s)] = m]) = Len(s)
    BY <2>1, SbLastIs
  <2> QED BY <2>2, Zenon DEF S
<1>2. q \in Seq(SbMbuf) /\ q # <<>>
  <2> HIDE DEF p, t, q, n
  <2>1. q \in Seq(SbMbuf) /\ Len(q) >= 1
    BY <1>1
  <2> QED BY <2>1
<1>3. m.data = t.data \o data /\ t.data \in Seq(SbByte)
  BY <1>1 DEF SbMbuf
<1> HIDE DEF p, t, q
<1>4. Bytes(q) = Bytes(p) \o m.data /\ Bytes(s) = Bytes(p) \o t.data /\ Bytes(p) \in Seq(SbByte)
  <2>1. <<t>> \in Seq(SbMbuf) /\ <<m>> \in Seq(SbMbuf) /\ Bytes(<<t>>) = t.data /\ Bytes(<<m>>) = m.data
    <3>1. t \in SbMbuf /\ m \in SbMbuf
      BY <1>1
    <3>2. <<t>> \in Seq(SbMbuf) /\ <<m>> \in Seq(SbMbuf)
      BY <3>1
    <3> QED BY <3>1, <3>2, SbBytesOne, Zenon
  <2>2. Bytes(p \o <<t>>) = Bytes(p) \o Bytes(<<t>>) /\ Bytes(p \o <<m>>) = Bytes(p) \o Bytes(<<m>>)
    BY <1>1, <2>1, SbBytesCat
  <2> QED BY <1>1, <2>1, <2>2, SbBytesIn
<1>5. Bytes(q) = Bytes(s) \o data
  <2> DEFINE x == Bytes(p)
             y == t.data
  <2>1. x \in Seq(SbByte) /\ y \in Seq(SbByte) /\ Bytes(q) = x \o (y \o data) /\ Bytes(s) = x \o y
    BY <1>3, <1>4
  <2> HIDE DEF x, y
  <2>2. (x \o y) \o data = x \o (y \o data)
    BY <2>1, SbAssoc, Zenon
  <2> QED BY <2>1, <2>2, Zenon
<1>6. Size(q) = Size(s) + Len(data)
  <2>1. Bytes(s) \in Seq(SbByte)
    BY SbBytesIn
  <2> QED BY <1>5, <2>1 DEF Size
<1> QED
  BY <1>1, <1>2, <1>5, <1>6 DEF q

\* The record that grows, and its last mbuf
SbLast(b) == b.recs[Len(b.recs)]

\* The last record of a buffer that is not empty.
LEMMA SbLastIn ==
    ASSUME NEW b, SbExact(b), b.recs # <<>>
    PROVE  /\ SbLast(b) \in Seq(SbMbuf) /\ Len(b.recs) \in 1 .. Len(b.recs) /\ Size(SbLast(b)) \in Nat
           /\ b = [recs |-> b.recs, cc |-> b.cc, mbcnt |-> b.mbcnt] /\ b.cc \in Int /\ b.mbcnt \in Int
           /\ SbLast(b) # <<>> => Len(SbLast(b)) \in 1 .. Len(SbLast(b)) /\ SbLast(b)[Len(SbLast(b))] \in SbMbuf
           /\ \A s \in Seq(SbMbuf) : [b.recs EXCEPT ![Len(b.recs)] = s] \in SbRecs
<1>1. b.recs \in Seq(Seq(SbMbuf)) /\ b = [recs |-> b.recs, cc |-> b.cc, mbcnt |-> b.mbcnt] /\ b.cc \in Int /\ b.mbcnt \in Int
  BY DEF SbExact, SbBuf, SbRecs
<1>2. Len(b.recs) \in 1 .. Len(b.recs) /\ SbLast(b) \in Seq(SbMbuf)
  BY <1>1 DEF SbLast
<1>3. \A s \in Seq(SbMbuf) : [b.recs EXCEPT ![Len(b.recs)] = s] \in SbRecs
  BY <1>1, <1>2 DEF SbRecs
<1>4. SbLast(b) # <<>> => Len(SbLast(b)) \in 1 .. Len(SbLast(b)) /\ SbLast(b)[Len(SbLast(b))] \in SbMbuf
  BY <1>2
<1> QED
  BY <1>1, <1>2, <1>3, <1>4, SbBytesIn

\* A small mbuf is copied behind the last one.
LEMMA SbCopiedOK ==
    ASSUME NEW b, SbExact(b), b.recs # <<>>, SbLast(b) # <<>>, NEW m \in SbMbuf
    PROVE  SbGrown(b, Copied(b, SbLast(b)[Len(SbLast(b))], m), m.data)
<1> DEFINE rec == SbLast(b)
           last == rec[Len(rec)]
           data == last.data \o m.data
           m2 == [last EXCEPT !.data = data]
           s == [rec EXCEPT ![Len(rec)] = m2]
           c == Copied(b, last, m)
<1>1. rec \in Seq(SbMbuf) /\ last \in SbMbuf /\ Size(rec) \in Nat
  BY SbLastIn
<1>2. last.data \in Seq(SbByte) /\ m.data \in Seq(SbByte) /\ data \in Seq(SbByte)
  BY <1>1 DEF SbMbuf
<1>3. m2 \in SbMbuf /\ m2.data = last.data \o m.data
  BY <1>1, <1>2 DEF SbMbuf
<1>4. s \in Seq(SbMbuf) /\ s # <<>> /\ Len(s) = Len(rec) /\ Bytes(s) = Bytes(rec) \o m.data
      /\ Size(s) = Size(rec) + Len(m.data)
  <2> HIDE DEF m2, rec
  <2> QED BY <1>1, <1>2, <1>3, SbLastMbuf DEF rec
<1>5. c = [b EXCEPT !.recs[Len(b.recs)] = s, !.cc = @ + Len(m.data)]
  BY DEF Copied, SbLast
<1> HIDE DEF rec, s, c
<1>6. /\ c.recs = [b.recs EXCEPT ![Len(b.recs)] = s] /\ c.cc = b.cc + Len(m.data) /\ c.mbcnt = b.mbcnt
      /\ c \in SbBuf
  <2> DEFINE r == [b.recs EXCEPT ![Len(b.recs)] = s]
             x == b.cc + Len(m.data)
  <2>1. b \in SbBuf /\ r \in SbRecs /\ x \in Int
    BY <1>2, <1>4, SbLastIn DEF SbExact
  <2>2. c = [b EXCEPT !.recs = r, !.cc = x]
    BY <1>5, <2>1 DEF SbBuf
  <2> HIDE DEF r, x
  <2>3. c.recs = r /\ c.cc = x /\ c.mbcnt = b.mbcnt /\ c \in SbBuf
    BY <2>1, <2>2 DEF SbBuf
  <2> QED BY <2>3 DEF r, x
<1>8. c.cc = b.cc + (Size(s) - Size(rec)) /\ c.mbcnt = b.mbcnt + (Len(s) - Len(rec))
  <2>1. b.cc \in Int /\ b.mbcnt \in Int /\ Len(m.data) \in Nat /\ Len(rec) \in Nat
    BY <1>1, <1>2, SbLastIn
  <2> QED BY <1>1, <1>4, <1>6, <2>1
<1>7. SbGrown(b, c, m.data)
  <2>1. rec = b.recs[Len(b.recs)]
    BY DEF rec, SbLast
  <2> QED BY <1>2, <1>4, <1>6, <1>8, <2>1, SbLastOK
<1> QED
  BY <1>7 DEF c, rec

\* An mbuf is linked behind the last one.
LEMMA SbLinkedOK ==
    ASSUME NEW b, SbExact(b), b.recs # <<>>, NEW m \in SbMbuf
    PROVE  SbGrown(b, Linked(b, m), m.data) /\ SbLast(Linked(b, m)) # <<>>
<1> DEFINE rec == SbLast(b)
           m2 == [m EXCEPT !.eor = FALSE]
           s == Append(rec, m2)
           c == Linked(b, m)
<1>1. rec \in Seq(SbMbuf) /\ Size(rec) \in Nat /\ Len(rec) \in Nat
  BY SbLastIn
<1>2. m.data \in Seq(SbByte) /\ m2 \in SbMbuf /\ m2.data = m.data
  BY DEF SbMbuf
<1>3. s \in Seq(SbMbuf) /\ s # <<>> /\ Len(s) = Len(rec) + 1 /\ Bytes(s) = Bytes(rec) \o m.data
      /\ Size(s) = Size(rec) + Len(m.data)
  <2> HIDE DEF m2, rec
  <2>1. s = rec \o <<m2>> /\ <<m2>> \in Seq(SbMbuf)
    BY <1>1, <1>2, AppendIsConcat
  <2>2. Bytes(<<m2>>) = m.data /\ Size(<<m2>>) = Len(m.data)
    BY <1>2, SbBytesOne
  <2>3. s \in Seq(SbMbuf) /\ s # <<>> /\ Len(s) = Len(rec) + 1
    BY <1>1, <1>2
  <2> QED BY <1>1, <2>1, <2>2, <2>3, SbBytesCat
<1>4. /\ c.recs = [b.recs EXCEPT ![Len(b.recs)] = s] /\ c.cc = b.cc + Len(m.data) /\ c.mbcnt = b.mbcnt + 1
      /\ c \in SbBuf
  <2> DEFINE r == [b.recs EXCEPT ![Len(b.recs)] = s]
             x == b.cc + Len(m.data)
             y == b.mbcnt + 1
  <2>1. b \in SbBuf /\ r \in SbRecs /\ x \in Int /\ y \in Int /\ s = Append(b.recs[Len(b.recs)], m2)
    <3>1. s = Append(b.recs[Len(b.recs)], m2)
      BY DEF SbLast
    <3> HIDE DEF s
    <3>2. b \in SbBuf /\ b.cc \in Int /\ b.mbcnt \in Int
      BY SbLastIn DEF SbExact
    <3>3. r \in SbRecs
      BY <1>3, SbLastIn
    <3>4. x \in Int /\ y \in Int
      BY <1>2, <3>2
    <3> QED BY <3>1, <3>2, <3>3, <3>4
  <2>2. c = [[b EXCEPT !.cc = b.cc + Len(m.data), !.mbcnt = b.mbcnt + 1] EXCEPT !.recs[Len(b.recs)] = Append(@, m2)]
    BY DEF Linked, sballoc
  <2> HIDE DEF s, c, m2
  <2>3. c = [[b EXCEPT !.cc = x, !.mbcnt = y] EXCEPT !.recs[Len(b.recs)] = Append(@, m2)]
    BY <2>2
  <2> HIDE DEF x, y
  <2>4. c = [[b EXCEPT !.cc = x, !.mbcnt = y] EXCEPT !.recs = r]
    BY <2>1, <2>3 DEF SbBuf
  <2> HIDE DEF r
  <2>5. c.recs = r /\ c.cc = x /\ c.mbcnt = y /\ c \in SbBuf
    BY <2>1, <2>4 DEF SbBuf
  <2> QED BY <2>5 DEF r, x, y
<1> HIDE DEF rec, s, c
<1>5. c \in SbBuf
  BY <1>4
<1>6. c.cc = b.cc + (Size(s) - Size(rec)) /\ c.mbcnt = b.mbcnt + (Len(s) - Len(rec))
  <2>1. b.cc \in Int /\ b.mbcnt \in Int /\ Len(m.data) \in Nat
    BY <1>2, SbLastIn
  <2> QED BY <1>1, <1>3, <1>4, <2>1
<1>7. SbGrown(b, c, m.data)
  <2>1. rec = b.recs[Len(b.recs)]
    BY DEF rec, SbLast
  <2> QED BY <1>2, <1>3, <1>4, <1>5, <1>6, <2>1, SbLastOK
<1>8. SbLast(c) = s
  <2>1. b.recs \in Seq(Seq(SbMbuf)) /\ Len(b.recs) \in 1 .. Len(b.recs)
    BY SbLastIn, SbAllIn DEF SbRecs
  <2> QED BY <1>4, <2>1 DEF SbLast
<1> QED
  BY <1>3, <1>7, <1>8 DEF c

\* A buffer that is left alone.
LEMMA SbGrownSame ==
    ASSUME NEW b, SbExact(b)
    PROVE  SbGrown(b, b, <<>>)
<1>1. SbAll(b) \o <<>> = SbAll(b)
  BY SbAllIn, SbNil
<1> QED
  BY <1>1 DEF SbGrown

\* A buffer that grows and grows again.
LEMMA SbGrownTwice ==
    ASSUME NEW a, SbExact(a), NEW b, NEW c, NEW d \in Seq(SbByte), NEW e \in Seq(SbByte),
           SbGrown(a, b, d), SbGrown(b, c, e)
    PROVE  SbGrown(a, c, d \o e)
<1>1. SbAll(c) = SbAll(a) \o (d \o e)
  <2> DEFINE x == SbAll(a)
  <2>1. x \in Seq(SbByte) /\ SbAll(c) = (x \o d) \o e
    BY SbAllIn DEF SbGrown
  <2> HIDE DEF x
  <2>2. (x \o d) \o e = x \o (d \o e)
    BY <2>1, SbAssoc, Zenon
  <2> QED BY <2>1, <2>2 DEF x
<1> QED
  BY <1>1 DEF SbGrown

\* The end of a record is marked.
LEMMA SbMarkOK ==
    ASSUME NEW b, SbExact(b), b.recs # <<>>
    PROVE  SbGrown(b, MarkEor(b), <<>>)
<1> DEFINE rec == SbLast(b)
           last == rec[Len(rec)]
           m2 == [last EXCEPT !.eor = TRUE]
           s == [rec EXCEPT ![Len(rec)] = m2]
           c == MarkEor(b)
<1>1. /\ rec \in Seq(SbMbuf) /\ Size(rec) \in Nat /\ Len(rec) \in Nat /\ b \in SbBuf
      /\ b.cc \in Int /\ b.mbcnt \in Int
  BY SbLastIn DEF SbExact
<1>2. Bytes(rec) \o <<>> = Bytes(rec) /\ <<>> \in Seq(SbByte)
  <2> HIDE DEF rec
  <2> QED BY <1>1, SbBytesIn, SbNil
<1>3. s \in Seq(SbMbuf) /\ (rec # <<>> => s # <<>>) /\ Len(s) = Len(rec) /\ Bytes(s) = Bytes(rec) /\ Size(s) = Size(rec)
  <2>1. CASE rec = <<>>
    <3>1. s = rec
      BY <1>1, <2>1
    <3> QED BY <1>1, <3>1
  <2>2. CASE rec # <<>>
    <3>1. last \in SbMbuf
      BY <2>2, SbLastIn
    <3>2. m2 \in SbMbuf /\ m2.data = last.data /\ last.data \in Seq(SbByte)
      BY <3>1 DEF SbMbuf
    <3>3. m2.data = last.data \o <<>>
      BY <3>2, SbNil
    <3> HIDE DEF m2, rec
    <3>4. s \in Seq(SbMbuf) /\ s # <<>> /\ Len(s) = Len(rec) /\ Bytes(s) = Bytes(rec) \o <<>>
          /\ Size(s) = Size(rec) + Len(<<>>)
      BY <1>1, <1>2, <2>2, <3>2, <3>3, SbLastMbuf
    <3>5. Size(s) = Size(rec)
      BY <1>1, <3>4
    <3> QED BY <1>2, <3>4, <3>5
  <2> QED BY <2>1, <2>2
<1>4. c = [b EXCEPT !.recs[Len(b.recs)] = s]
  BY DEF MarkEor, SbLast
<1> HIDE DEF rec, s, c
<1>5. /\ c.recs = [b.recs EXCEPT ![Len(b.recs)] = s] /\ c.cc = b.cc /\ c.mbcnt = b.mbcnt
      /\ c \in SbBuf
  <2> DEFINE r == [b.recs EXCEPT ![Len(b.recs)] = s]
  <2>1. b \in SbBuf /\ r \in SbRecs
    BY <1>1, <1>3, SbLastIn
  <2>2. c = [b EXCEPT !.recs = r]
    BY <1>4, <2>1 DEF SbBuf
  <2> HIDE DEF r
  <2>3. c.recs = r /\ c.cc = b.cc /\ c.mbcnt = b.mbcnt /\ c \in SbBuf
    BY <2>1, <2>2 DEF SbBuf
  <2> QED BY <2>3 DEF r
<1>6. c.cc = b.cc + (Size(s) - Size(rec)) /\ c.mbcnt = b.mbcnt + (Len(s) - Len(rec))
  BY <1>1, <1>3, <1>5
<1>7. SbGrown(b, c, <<>>)
  <2>1. rec = b.recs[Len(b.recs)]
    BY DEF rec, SbLast
  <2> QED BY <1>2, <1>3, <1>5, <1>6, <2>1, SbLastOK
<1> QED
  BY <1>7 DEF c

\* One turn of the loop of sbcompress.
LEMMA SbCompressOK ==
    ASSUME NEW b, SbExact(b), b.recs # <<>>, NEW m \in SbMbuf, NEW eor, NEW lastOfChain
    PROVE  SbGrown(b, Compress(b, m, eor, lastOfChain), m.data)
<1> DEFINE rec == b.recs[Len(b.recs)]
           last == rec[Len(rec)]
           c == Compress(b, m, eor, lastOfChain)
<1>1. \/ c = b /\ m.data = <<>>
      \/ c = Copied(b, last, m) /\ rec # <<>>
      \/ c = Linked(b, m)
  BY Zenon DEF Compress
<1>2. CASE c = b /\ m.data = <<>>
  BY <1>2, SbGrownSame
<1>3. CASE c = Copied(b, last, m) /\ rec # <<>>
  BY <1>3, SbCopiedOK DEF SbLast
<1>4. CASE c = Linked(b, m)
  BY <1>4, SbLinkedOK
<1> QED
  BY <1>1, <1>2, <1>3, <1>4

\* The loop of sbcompress as a fold of SeqLemmas.
LEMMA SbCompressingIs == \A b, q : FoldLeft(Turn, b, q) = Growing!Fold(b, q)
  BY Zenon DEF Turn, Growing!Fold, FoldLeft, Growing!FoldLeft, MapThenFoldSet,
               Growing!MapThenFoldSet, Max, Growing!Max

\* sbcompress puts the bytes of the chain behind those of the last record.
LEMMA SbChainOK ==
    ASSUME NEW b, SbExact(b), b.recs # <<>>, NEW chain \in Seq(SbMbuf), NEW eor \in BOOLEAN
    PROVE  SbGrown(b, sbcompress(b, chain, eor), Bytes(chain))
<1> DEFINE X == [m : SbMbuf, last : BOOLEAN]
           q == [i \in DOMAIN chain |-> [m |-> chain[i], last |-> i = Len(chain)]]
           s0 == [b |-> b, eor |-> eor]
           n == Len(chain)
           H == [i \in 0 .. n |-> {x \in [b : SbBuf, eor : BOOLEAN] : SbGrown(b, x.b, Bytes(SubSeq(chain, 1, i)))}]
           s == Growing!Fold(s0, q)
<1>0. n \in Nat /\ SubSeq(chain, 1, 0) = <<>> /\ SubSeq(chain, 1, n) = chain /\ 0 \in 0 .. n /\ n \in 0 .. n
      /\ DOMAIN chain = 1 .. n
  OBVIOUS
<1>1. q \in Seq(X) /\ Len(q) = n /\ \A i \in 1 .. n : q[i] = [m |-> chain[i], last |-> i = n]
  <2>1. \A i \in 1 .. n : [m |-> chain[i], last |-> i = n] \in X
    BY <1>0
  <2>2. q \in [1 .. n -> X]
    BY <1>0, <2>1
  <2> QED BY <1>0, <2>2
<1>2. s0 \in H[0]
  <2>1. SbGrown(b, b, Bytes(SubSeq(chain, 1, 0)))
    BY <1>0, SbBytesOne, SbGrownSame
  <2>2. b \in SbBuf
    BY DEF SbExact
  <2> QED BY <1>0, <2>1, <2>2
<1> HIDE DEF q
<1>3. ASSUME NEW i \in 1 .. Len(q), NEW x \in H[i - 1]
      PROVE  Turn(x, q[i]) \in H[i]
  <2> DEFINE m == chain[i]
             e == x.eor \/ m.eor
             c == Compress(x.b, m, e, i = n)
             d == Bytes(SubSeq(chain, 1, i - 1))
  <2>1. /\ i \in 1 .. n /\ i - 1 \in 0 .. n /\ i \in 0 .. n /\ m \in SbMbuf /\ (i - 1) + 1 = i
        /\ SubSeq(chain, 1, i - 1) \in Seq(SbMbuf)
        /\ SubSeq(chain, 1, i) = Append(SubSeq(chain, 1, i - 1), m)
    <3>1. i \in 1 .. n
      BY <1>1
    <3> QED BY <3>1, SbPrefix
  <2>2. x \in [b : SbBuf, eor : BOOLEAN] /\ SbGrown(b, x.b, d)
    BY <1>3, <2>1
  <2>3. SbExact(x.b) /\ x.b.recs # <<>>
    <3>1. b.recs \in Seq(Seq(SbMbuf)) /\ x.b.recs \in Seq(Seq(SbMbuf)) /\ Len(x.b.recs) = Len(b.recs) /\ SbExact(x.b)
      BY <2>2, SbAllIn DEF SbGrown, SbRecs
    <3> QED BY <3>1
  <2>4. m.data \in Seq(SbByte) /\ m.eor \in BOOLEAN /\ d \in Seq(SbByte)
    BY <2>1, SbBytesIn DEF SbMbuf
  <2>5. SbGrown(x.b, c, m.data)
    BY <2>1, <2>3, SbCompressOK
  <2>6. Bytes(SubSeq(chain, 1, i)) = d \o m.data
    <3> DEFINE y == SubSeq(chain, 1, i - 1)
    <3>1. y \in Seq(SbMbuf) /\ m \in SbMbuf /\ SubSeq(chain, 1, i) = Append(y, m) /\ d = Bytes(y)
      BY <2>1
    <3> HIDE DEF y, m, d
    <3>2. Append(y, m) = y \o <<m>> /\ <<m>> \in Seq(SbMbuf)
      BY <3>1, AppendIsConcat
    <3>3. Bytes(y \o <<m>>) = Bytes(y) \o Bytes(<<m>>) /\ Bytes(<<m>>) = m.data
      BY <3>1, <3>2, SbBytesCat, SbBytesOne
    <3> QED BY <3>1, <3>2, <3>3
  <2>7. SbGrown(b, c, d \o m.data)
    BY <2>2, <2>4, <2>5, SbGrownTwice
  <2>8. Turn(x, q[i]) = [b |-> c, eor |-> e]
    <3>1. q[i] = [m |-> m, last |-> i = n]
      BY <1>1, <2>1, Zenon
    <3>2. Turn(x, [m |-> m, last |-> i = n]) = [b |-> c, eor |-> e]
      BY Zenon DEF Turn
    <3> QED BY <3>1, <3>2, Zenon
  <2>9. e \in BOOLEAN /\ c \in SbBuf
    BY <2>2, <2>4, <2>5 DEF SbGrown, SbExact
  <2> HIDE DEF c, e, d
  <2>10. [b |-> c, eor |-> e] \in [b : SbBuf, eor : BOOLEAN]
    BY <2>9
  <2>11. SbGrown(b, [b |-> c, eor |-> e].b, Bytes(SubSeq(chain, 1, i)))
    BY <2>6, <2>7
  <2>12. [b |-> c, eor |-> e] \in H[i]
    BY <2>1, <2>10, <2>11
  <2> QED BY <2>8, <2>12, Zenon
<1>4. s \in H[Len(q)]
  <2> HIDE DEF H, s0, X
  <2> QED BY <1>1, <1>2, <1>3, Growing!FoldThrough
<1>5. SbGrown(b, s.b, Bytes(chain)) /\ s \in [b : SbBuf, eor : BOOLEAN]
  <2> HIDE DEF s
  <2> QED BY <1>0, <1>1, <1>4
<1>6. sbcompress(b, chain, eor) = IF s.eor THEN MarkEor(s.b) ELSE s.b
  BY SbCompressingIs, Zenon DEF sbcompress, q
<1> HIDE DEF s
<1>7. CASE s.eor
  <2>1. SbExact(s.b) /\ s.b.recs # <<>>
    <3>1. b.recs \in Seq(Seq(SbMbuf)) /\ s.b.recs \in Seq(Seq(SbMbuf)) /\ Len(s.b.recs) = Len(b.recs) /\ SbExact(s.b)
      BY <1>5, SbAllIn DEF SbGrown, SbRecs
    <3> QED BY <3>1
  <2>2. SbGrown(s.b, MarkEor(s.b), <<>>)
    BY <2>1, SbMarkOK
  <2>3. Bytes(chain) \in Seq(SbByte) /\ <<>> \in Seq(SbByte) /\ Bytes(chain) \o <<>> = Bytes(chain)
    BY SbBytesIn, SbNil
  <2>4. SbGrown(b, MarkEor(s.b), Bytes(chain) \o <<>>)
    BY <1>5, <2>2, <2>3, SbGrownTwice
  <2> QED BY <1>6, <1>7, <2>3, <2>4
<1>8. CASE ~ s.eor
  BY <1>5, <1>6, <1>8
<1> QED
  BY <1>7, <1>8

\* The first mbuf of s gets another mark.
LEMMA SbFirstMbuf ==
    ASSUME NEW s \in Seq(SbMbuf), s # <<>>, NEW m \in SbMbuf, m.data = s[1].data
    PROVE  LET q == [s EXCEPT ![1] = m] IN q \in Seq(SbMbuf) /\ Bytes(q) = Bytes(s)
<1> DEFINE q == [s EXCEPT ![1] = m]
           r == Tail(s)
           t == s[1]
<1>1. r \in Seq(SbMbuf) /\ t \in SbMbuf /\ s = <<t>> \o r /\ q = <<m>> \o r /\ q \in Seq(SbMbuf)
  <2>1. r \in Seq(SbMbuf) /\ t \in SbMbuf /\ s = <<t>> \o r
    OBVIOUS
  <2>2. q = <<m>> \o r
    BY <2>1
  <2>3. q \in Seq(SbMbuf)
    OBVIOUS
  <2> QED BY <2>1, <2>2, <2>3
<1> HIDE DEF q, r, t
<1>2. <<t>> \in Seq(SbMbuf) /\ <<m>> \in Seq(SbMbuf)
  BY <1>1
<1>3. Bytes(<<t>>) = t.data /\ Bytes(<<m>>) = m.data
  BY <1>1, SbBytesOne
<1>4. Bytes(s) = t.data \o Bytes(r) /\ Bytes(q) = m.data \o Bytes(r)
  <2>1. Bytes(<<t>> \o r) = Bytes(<<t>>) \o Bytes(r)
    BY <1>1, <1>2, SbBytesCat
  <2>2. Bytes(<<m>> \o r) = Bytes(<<m>>) \o Bytes(r)
    BY <1>1, <1>2, SbBytesCat
  <2> QED BY <1>1, <1>3, <2>1, <2>2
<1>5. m.data = t.data
  BY DEF t
<1> QED
  BY <1>1, <1>4, <1>5 DEF q

\* A chain, in its first mbuf and the others.
LEMMA SbHeadTail ==
    ASSUME NEW chain \in Seq(SbMbuf), chain # <<>>
    PROVE  /\ Head(chain) \in SbMbuf /\ Tail(chain) \in Seq(SbMbuf) /\ Head(chain).data \in Seq(SbByte)
           /\ Bytes(chain) = Head(chain).data \o Bytes(Tail(chain))
<1> DEFINE m == Head(chain)
           r == Tail(chain)
<1>1. m \in SbMbuf /\ r \in Seq(SbMbuf) /\ chain = <<m>> \o r
  OBVIOUS
<1> HIDE DEF m, r
<1>2. <<m>> \in Seq(SbMbuf)
  BY <1>1
<1>3. Bytes(<<m>>) = m.data /\ m.data \in Seq(SbByte)
  BY <1>1, SbBytesOne DEF SbMbuf
<1>4. Bytes(chain) = m.data \o Bytes(r)
  BY <1>1, <1>2, <1>3, SbBytesCat
<1> QED
  BY <1>1, <1>3, <1>4 DEF m, r

\* A record is put behind the others.
LEMMA SbNewRecordOK ==
    ASSUME NEW b, SbExact(b), SbFull(b.recs), NEW s \in Seq(SbMbuf), s # <<>>,
           NEW c \in SbBuf, c.recs = Append(b.recs, s), c.cc = b.cc + Size(s), c.mbcnt = b.mbcnt + Len(s)
    PROVE  SbExact(c) /\ SbFull(c.recs) /\ SbAll(c) = SbAll(b) \o Bytes(s) /\ c.recs # <<>>
           /\ Len(c.recs) = Len(b.recs) + 1 /\ c.recs[Len(b.recs) + 1] = s
           /\ \A i \in 1 .. Len(b.recs) : c.recs[i] = b.recs[i]
<1> DEFINE M == Mbufs(b.recs)
           S == Seq(SbMbuf)
           r == b.recs
<1>1. r \in Seq(S) /\ s \in S /\ M \in Seq(SbMbuf) /\ b.cc = Size(M) /\ b.mbcnt = Len(M)
  BY SbAllIn DEF SbRecs, SbExact
<1>2. c.recs = r \o <<s>> /\ Len(c.recs) = Len(r) + 1 /\ c.recs # <<>> /\ Len(r) \in Nat
      /\ c.recs[Len(r) + 1] = s /\ \A i \in 1 .. Len(r) : c.recs[i] = r[i]
  <2>1. c.recs = Append(r, s)
    OBVIOUS
  <2> HIDE DEF r, S
  <2>2. Append(r, s) = r \o <<s>>
    BY <1>1, AppendIsConcat
  <2> QED BY <1>1, <2>1, <2>2
<1>3. Mbufs(c.recs) = M \o s
  <2>1. r \in SbRecs /\ <<s>> \in SbRecs
    BY <1>1 DEF SbRecs
  <2>2. Mbufs(<<s>>) = s
    BY SbMbufsOne
  <2> HIDE DEF r
  <2>3. Mbufs(r \o <<s>>) = Mbufs(r) \o Mbufs(<<s>>)
    BY <2>1, SbMbufsCat
  <2> QED BY <1>2, <2>2, <2>3 DEF r
<1> HIDE DEF M
<1>4. Size(M \o s) = Size(M) + Size(s) /\ Bytes(M \o s) = Bytes(M) \o Bytes(s) /\ Len(M \o s) = Len(M) + Len(s)
  BY <1>1, SbBytesCat
<1>5. SbExact(c)
  BY <1>1, <1>3, <1>4 DEF SbExact
<1>6. SbAll(c) = SbAll(b) \o Bytes(s)
  BY <1>3, <1>4 DEF SbAll, M
<1>7. SbFull(c.recs)
  <2>1. \A i \in 1 .. Len(r) : r[i] # <<>>
    BY DEF SbFull
  <2> HIDE DEF r
  <2> QED BY <1>2, <2>1 DEF SbFull
<1> QED
  BY <1>2, <1>5, <1>6, <1>7

\* sbappendrecord, whatever end of record the first mbuf has.
LEMMA SbRecordOK ==
    ASSUME NEW b, SbExact(b), SbFull(b.recs), NEW chain \in Seq(SbMbuf), chain # <<>>
    PROVE  LET c == sbappendrecord(b, chain) IN
           SbExact(c) /\ SbFull(c.recs) /\ SbAll(c) = SbAll(b) \o Bytes(chain)
<1> DEFINE m0 == Head(chain)
           rest == Tail(chain)
           moved == m0.eor /\ rest # <<>>
           m1 == [m0 EXCEPT !.eor = @ /\ ~moved]
           b1 == [sballoc(b, m0) EXCEPT !.recs = Append(@, <<m1>>)]
           rest2 == IF moved THEN [rest EXCEPT ![1].eor = TRUE] ELSE rest
           c == sbcompress(b1, rest2, FALSE)
<1>0. sbappendrecord(b, chain) = c
  BY Zenon DEF sbappendrecord
<1>1. m0 \in SbMbuf /\ rest \in Seq(SbMbuf) /\ m0.data \in Seq(SbByte) /\ Bytes(chain) = m0.data \o Bytes(rest)
  BY SbHeadTail
<1>2. m1 \in SbMbuf /\ m1.data = m0.data
  <2>1. moved \in BOOLEAN /\ m0.eor \in BOOLEAN
    BY <1>1 DEF SbMbuf
  <2>2. (m0.eor /\ ~moved) \in BOOLEAN
    BY <2>1
  <2> DEFINE e == m0.eor /\ ~moved
  <2>3. m1 = [m0 EXCEPT !.eor = e] /\ e \in BOOLEAN
    BY <2>2
  <2> HIDE DEF e, m1, m0
  <2> QED BY <1>1, <2>3 DEF SbMbuf
<1>3. rest2 \in Seq(SbMbuf) /\ Bytes(rest2) = Bytes(rest)
  <2>1. CASE moved
    <3> DEFINE r2 == [rest[1] EXCEPT !.eor = TRUE]
    <3>1. rest # <<>> /\ rest2 = [rest EXCEPT ![1] = r2]
      BY <2>1
    <3>2. rest[1] \in SbMbuf
      BY <1>1, <3>1
    <3>3. r2 \in SbMbuf /\ r2.data = rest[1].data
      BY <3>2 DEF SbMbuf
    <3> HIDE DEF r2, rest, rest2
    <3> QED BY <1>1, <3>1, <3>3, SbFirstMbuf
  <2>2. CASE ~moved
    BY <1>1, <2>2
  <2> QED BY <2>1, <2>2
<1> HIDE DEF m1, rest2, m0, rest
<1>4. <<m1>> \in Seq(SbMbuf) /\ <<m1>> # <<>> /\ Len(<<m1>>) = 1
      /\ Bytes(<<m1>>) = m0.data /\ Size(<<m1>>) = Len(m0.data)
  <2>1. <<m1>> \in Seq(SbMbuf)
    BY <1>2
  <2> QED BY <1>2, <2>1, SbBytesOne
<1>5. /\ b1.recs = Append(b.recs, <<m1>>) /\ b1.cc = b.cc + Len(m0.data) /\ b1.mbcnt = b.mbcnt + 1
      /\ b1 \in SbBuf
  <2> DEFINE r == Append(b.recs, <<m1>>)
             x == b.cc + Len(m0.data)
             y == b.mbcnt + 1
  <2>1. b \in SbBuf /\ r \in SbRecs /\ x \in Int /\ y \in Int
    <3>1. b \in SbBuf /\ b.recs \in Seq(Seq(SbMbuf)) /\ b.cc \in Int /\ b.mbcnt \in Int
      BY DEF SbExact, SbBuf, SbRecs
    <3>2. r \in SbRecs
      BY <1>4, <3>1 DEF SbRecs
    <3> QED BY <1>1, <3>1, <3>2
  <2>2. b1 = [[b EXCEPT !.cc = b.cc + Len(m0.data), !.mbcnt = b.mbcnt + 1] EXCEPT !.recs = Append(@, <<m1>>)]
    BY DEF sballoc
  <2> HIDE DEF b1
  <2>3. b1 = [[b EXCEPT !.cc = x, !.mbcnt = y] EXCEPT !.recs = Append(@, <<m1>>)]
    BY <2>2
  <2> HIDE DEF x, y
  <2>4. b1 = [[b EXCEPT !.cc = x, !.mbcnt = y] EXCEPT !.recs = r]
    BY <2>1, <2>3 DEF SbBuf
  <2> HIDE DEF r
  <2>5. b1.recs = r /\ b1.cc = x /\ b1.mbcnt = y /\ b1 \in SbBuf
    BY <2>1, <2>4 DEF SbBuf
  <2> QED BY <2>5 DEF r, x, y
<1> HIDE DEF b1
<1>6. SbExact(b1) /\ SbFull(b1.recs) /\ SbAll(b1) = SbAll(b) \o m0.data /\ b1.recs # <<>>
  <2> DEFINE rec1 == <<m1>>
  <2>1. /\ rec1 \in Seq(SbMbuf) /\ rec1 # <<>> /\ Bytes(rec1) = m0.data /\ b1.recs = Append(b.recs, rec1)
        /\ b1.cc = b.cc + Size(rec1) /\ b1.mbcnt = b.mbcnt + Len(rec1) /\ b1 \in SbBuf
    BY <1>4, <1>5
  <2> HIDE DEF rec1
  <2>2. SbExact(b1) /\ SbFull(b1.recs) /\ SbAll(b1) = SbAll(b) \o Bytes(rec1) /\ b1.recs # <<>>
    BY <2>1, SbNewRecordOK
  <2> QED BY <2>1, <2>2
<1>7. SbGrown(b1, c, Bytes(rest))
  BY <1>3, <1>6, SbChainOK
<1> HIDE DEF c
<1>8. SbExact(c) /\ SbFull(c.recs)
  BY <1>6, <1>7 DEF SbGrown, SbFull
<1>9. SbAll(c) = SbAll(b) \o Bytes(chain)
  <2> DEFINE x == SbAll(b)
             y == m0.data
             z == Bytes(rest)
  <2>1. x \in Seq(SbByte) /\ y \in Seq(SbByte) /\ z \in Seq(SbByte)
        /\ SbAll(c) = (x \o y) \o z /\ Bytes(chain) = y \o z
    BY <1>1, <1>6, <1>7, SbAllIn, SbBytesIn DEF SbGrown
  <2> HIDE DEF x, y, z
  <2>2. (x \o y) \o z = x \o (y \o z)
    BY <2>1, SbAssoc, Zenon
  <2> QED BY <2>1, <2>2 DEF x
<1> QED
  BY <1>0, <1>8, <1>9

\* sbappend adds the bytes of the chain, and no empty record.
LEMMA SbAppendOK ==
    ASSUME NEW b, SbExact(b), SbFull(b.recs), NEW chain \in Seq(SbMbuf), chain # <<>>
    PROVE  LET c == sbappend(b, chain) IN
           SbExact(c) /\ SbFull(c.recs) /\ SbAll(c) = SbAll(b) \o Bytes(chain)
<1> DEFINE n == Len(b.recs)
           b0 == [b EXCEPT !.recs = <<<<>>>>]
           b1 == sbcompress(b0, chain, FALSE)
           c == sbappend(b, chain)
<1>1. \/ c = sbappendrecord(b, chain)
      \/ n > 0 /\ c = sbcompress(b, chain, FALSE)
      \/ ~ (n > 0) /\ c = IF b1.recs[1] = <<>> THEN b ELSE b1
  BY Zenon DEF sbappend
<1>2. b.recs \in Seq(Seq(SbMbuf)) /\ n \in Nat /\ b \in SbBuf
  <2>1. b.recs \in Seq(Seq(SbMbuf)) /\ b \in SbBuf
    BY SbAllIn DEF SbRecs, SbExact
  <2> QED BY <2>1
<1>3. CASE c = sbappendrecord(b, chain)
  BY <1>3, SbRecordOK
<1>4. CASE n > 0 /\ c = sbcompress(b, chain, FALSE)
  <2>1. b.recs # <<>>
    BY <1>2, <1>4
  <2>2. SbGrown(b, c, Bytes(chain))
    BY <1>4, <2>1, SbChainOK
  <2> HIDE DEF c
  <2> QED BY <2>2 DEF SbGrown, SbFull, c
<1>5. CASE ~ (n > 0) /\ c = IF b1.recs[1] = <<>> THEN b ELSE b1
  <2>1. b.recs = <<>>
    BY <1>2, <1>5
  <2>2. SbAll(b) = <<>> /\ b.cc = 0 /\ b.mbcnt = 0
    BY <2>1, SbMbufsOne, SbBytesOne DEF SbAll, SbExact
  <2>3. <<<<>>>> \in SbRecs /\ <<<<>>>> # <<>> /\ Len(<<<<>>>>) = 1 /\ <<>> \in Seq(SbMbuf)
    BY DEF SbRecs
  <2>4. b0 \in SbBuf /\ b0.recs = <<<<>>>> /\ b0.cc = b.cc /\ b0.mbcnt = b.mbcnt
    BY <1>2, <2>3 DEF SbBuf
  <2>5. Mbufs(<<<<>>>>) = <<>>
    BY <2>3, SbMbufsOne
  <2> HIDE DEF b0, c
  <2>6. SbExact(b0) /\ SbAll(b0) = <<>>
    BY <2>2, <2>4, <2>5, SbBytesOne DEF SbExact, SbAll
  <2>7. SbGrown(b0, b1, Bytes(chain))
    BY <2>3, <2>4, <2>6, SbChainOK
  <2> HIDE DEF b1
  <2>8. Bytes(chain) \in Seq(SbByte) /\ <<>> \o Bytes(chain) = Bytes(chain)
    BY SbBytesIn, SbNil
  <2>9. SbExact(b1) /\ SbAll(b1) = Bytes(chain) /\ Len(b1.recs) = 1 /\ b1.recs \in Seq(Seq(SbMbuf))
    BY <2>3, <2>4, <2>6, <2>7, <2>8, SbAllIn DEF SbGrown, SbRecs
  <2>10. CASE b1.recs[1] = <<>>
    <3>1. b1.recs = <<<<>>>>
      BY <2>9, <2>10
    <3>2. Bytes(chain) = <<>>
      BY <2>5, <2>9, <3>1, SbBytesOne DEF SbAll
    <3> QED BY <1>5, <2>2, <2>8, <2>10, <3>2 DEF c
  <2>11. CASE b1.recs[1] # <<>>
    <3>1. c = b1
      BY <1>5, <2>11
    <3>2. SbFull(b1.recs)
      BY <2>9, <2>11 DEF SbFull
    <3> QED BY <2>2, <2>8, <2>9, <3>1, <3>2 DEF c
  <2> QED BY <2>10, <2>11
<1> QED
  BY <1>1, <1>3, <1>4, <1>5

\* A datagram is a record of its own, behind the others, or nothing.
LEMMA SbAddrOK ==
    ASSUME NEW b, SbExact(b), SbFull(b.recs), NEW chain \in Seq(SbMbuf), NEW name \in SbByte,
           NEW c, c = sbappendaddr(b, name, chain), c # b
    PROVE  /\ SbExact(c) /\ SbFull(c.recs) /\ Len(c.recs) = Len(b.recs) + 1
           /\ c.recs[Len(b.recs) + 1][1].data = <<name>> /\ Tail(c.recs[Len(b.recs) + 1]) = chain
           /\ \A i \in 1 .. Len(b.recs) : c.recs[i] = b.recs[i]
<1> DEFINE m == Mbuf("name", <<name>>, FALSE)
           rec == <<m>> \o chain
           r == Append(b.recs, rec)
           x == b.cc + Size(rec)
           y == b.mbcnt + Len(rec)
<1>1. m \in SbMbuf /\ m.data = <<name>>
  BY DEF Mbuf, SbMbuf
<1>2. c = [recs |-> r, cc |-> x, mbcnt |-> y]
  BY Zenon DEF sbappendaddr
<1> HIDE DEF m
<1>3. rec \in Seq(SbMbuf) /\ rec # <<>> /\ rec[1] = m /\ Tail(rec) = chain
  <2>1. <<m>> \in Seq(SbMbuf)
    BY <1>1
  <2>2. rec \in Seq(SbMbuf) /\ rec # <<>> /\ rec[1] = m
    BY <2>1
  <2>3. Tail(rec) = chain
    BY <2>1, <2>2
  <2> QED BY <2>2, <2>3
<1> HIDE DEF rec
<1>4. r \in SbRecs /\ x \in Int /\ y \in Int
  <2>1. b.recs \in Seq(Seq(SbMbuf)) /\ b.cc \in Int /\ b.mbcnt \in Int
    BY DEF SbExact, SbBuf, SbRecs
  <2>2. Size(rec) \in Nat /\ Len(rec) \in Nat
    BY <1>3, SbBytesIn
  <2>3. r \in SbRecs
    BY <1>3, <2>1 DEF SbRecs
  <2> QED BY <2>1, <2>2, <2>3
<1> HIDE DEF r, x, y
<1>5. c \in SbBuf /\ c.recs = r /\ c.cc = x /\ c.mbcnt = y
  BY <1>2, <1>4 DEF SbBuf
<1>6. c.recs = Append(b.recs, rec) /\ c.cc = b.cc + Size(rec) /\ c.mbcnt = b.mbcnt + Len(rec) /\ c \in SbBuf
  BY <1>5 DEF r, x, y
<1>7. SbExact(c) /\ SbFull(c.recs) /\ Len(c.recs) = Len(b.recs) + 1 /\ c.recs[Len(b.recs) + 1] = rec
      /\ \A i \in 1 .. Len(b.recs) : c.recs[i] = b.recs[i]
  <2>1. SbExact(c) /\ SbFull(c.recs)
    BY <1>3, <1>6, SbNewRecordOK
  <2>2. Len(c.recs) = Len(b.recs) + 1 /\ c.recs[Len(b.recs) + 1] = rec
    BY <1>3, <1>6, SbNewRecordOK
  <2>3. \A i \in 1 .. Len(b.recs) : c.recs[i] = b.recs[i]
    BY <1>3, <1>6, SbNewRecordOK
  <2> QED BY <2>1, <2>2, <2>3
<1> QED
  BY <1>1, <1>3, <1>7

-----------------------------------------------------------------------------
\* The bytes that are appended: n numbers from first + 1 on.
SbNumbers(first, n) == [k \in 1 .. n |-> first + k]

\* Numbered bytes are bytes.
LEMMA SbNumbersIn ==
    ASSUME NEW first \in Nat, NEW n \in Nat
    PROVE  SbNumbers(first, n) \in Seq(SbByte) /\ Len(SbNumbers(first, n)) = n
<1>1. \A k \in 1 .. n : first + k \in SbByte
  BY DEF SbByte
<1> QED
  BY <1>1 DEF SbNumbers

\* Numbered bytes, and those that follow them.
LEMMA SbNumbersCat ==
    ASSUME NEW first \in Nat, NEW n \in Nat, NEW p \in Nat
    PROVE  SbNumbers(first, n) \o SbNumbers(first + n, p) = SbNumbers(first, n + p)
<1> DEFINE a == SbNumbers(first, n)
           b == SbNumbers(first + n, p)
           c == SbNumbers(first, n + p)
<1>1. a \in Seq(SbByte) /\ Len(a) = n /\ b \in Seq(SbByte) /\ Len(b) = p /\ c \in Seq(SbByte) /\ Len(c) = n + p
  <2>1. first + n \in Nat /\ n + p \in Nat
    OBVIOUS
  <2> QED BY <2>1, SbNumbersIn
<1>2. /\ \A k \in 1 .. n : a[k] = first + k
      /\ \A k \in 1 .. p : b[k] = first + n + k
      /\ \A k \in 1 .. n + p : c[k] = first + k
  BY DEF SbNumbers
<1> HIDE DEF a, b, c
<1>3. /\ a \o b \in Seq(SbByte) /\ Len(a \o b) = n + p
      /\ \A k \in 1 .. n + p : (a \o b)[k] = IF k <= n THEN a[k] ELSE b[k - n]
  BY <1>1, ConcatProperties
<1>4. ASSUME NEW k \in 1 .. n + p
      PROVE  (a \o b)[k] = c[k]
  <2>1. k <= n => k \in 1 .. n
    OBVIOUS
  <2>2. ~ (k <= n) => k - n \in 1 .. p /\ first + n + (k - n) = first + k
    OBVIOUS
  <2> QED BY <1>2, <1>3, <2>1, <2>2
<1> QED
  BY <1>1, <1>3, <1>4, SeqEqual DEF a, b, c

\* The length of a shape, one mbuf after the other.
LEMMA SbTotalOK ==
    ASSUME NEW shape \in Seq(Nat)
    PROVE  /\ Total(shape) \in Nat /\ Total(<<>>) = 0
           /\ \A i \in 1 .. Len(shape) :
                  /\ Total(SubSeq(shape, 1, i - 1)) \in Nat
                  /\ Total(SubSeq(shape, 1, i)) = Total(SubSeq(shape, 1, i - 1)) + shape[i]
<1>1. ASSUME NEW s \in Seq(Nat)
      PROVE  Total(s) \in Nat
  <2>1. \A i \in 1 .. Len(s) : \A a \in Nat : Plus(a, s[i]) \in Nat
    BY DEF Plus
  <2>2. Tally!Fold(0, s) \in Nat
    BY <2>1, Tally!FoldIn
  <2> QED BY <2>2, ShapeTotalIs
<1>2. Total(<<>>) = 0
  BY Tally!FoldEmpty, ShapeTotalIs
<1>3. ASSUME NEW i \in 1 .. Len(shape)
      PROVE  /\ Total(SubSeq(shape, 1, i - 1)) \in Nat
             /\ Total(SubSeq(shape, 1, i)) = Total(SubSeq(shape, 1, i - 1)) + shape[i]
  <2>1. SubSeq(shape, 1, i - 1) \in Seq(Nat) /\ i - 1 \in 0 .. Len(shape) - 1 /\ (i - 1) + 1 = i
    OBVIOUS
  <2>2. Tally!Fold(0, SubSeq(shape, 1, (i - 1) + 1)) = Plus(Tally!Fold(0, SubSeq(shape, 1, i - 1)), shape[(i - 1) + 1])
    BY <2>1, Tally!FoldPrefix
  <2> QED BY <1>1, <2>1, <2>2, ShapeTotalIs DEF Plus
<1> QED
  BY <1>1, <1>2, <1>3

\* A chain has the numbered bytes of its shape.
LEMMA SbShapeOK ==
    ASSUME NEW shape \in Seq(Nat), shape # <<>>, NEW first \in Nat, NEW eor \in BOOLEAN
    PROVE  /\ Chain(shape, first, eor) \in Seq(SbMbuf) /\ Chain(shape, first, eor) # <<>>
           /\ Bytes(Chain(shape, first, eor)) = SbNumbers(first, Total(shape))
<1> DEFINE n == Len(shape)
           c == Chain(shape, first, eor)
           t(i) == Total(SubSeq(shape, 1, i))
           H == [i \in 0 .. n |-> {SbNumbers(first, t(i))}]
<1>1. n \in Nat /\ n > 0 /\ DOMAIN shape = 1 .. n /\ \A i \in 1 .. n : shape[i] \in Nat
  OBVIOUS
<1>2. \A i \in 1 .. n : t(i - 1) \in Nat /\ t(i) = t(i - 1) + shape[i]
  BY SbTotalOK
<1> HIDE DEF t
<1>3. ASSUME NEW i \in 1 .. n
      PROVE  Mbuf("data", SbNumbers(first + t(i - 1), shape[i]), eor /\ i = n) \in SbMbuf
  <2>1. first + t(i - 1) \in Nat /\ (eor /\ i = n) \in BOOLEAN
    BY <1>1, <1>2
  <2>2. SbNumbers(first + t(i - 1), shape[i]) \in Seq(SbByte)
    BY <1>1, <2>1, SbNumbersIn
  <2> QED BY <2>1, <2>2 DEF Mbuf, SbMbuf
<1>4. c = [i \in 1 .. n |-> Mbuf("data", SbNumbers(first + t(i - 1), shape[i]), eor /\ i = n)]
  <2>1. c = [i \in 1 .. n |-> Mbuf("data", [k \in 1 .. shape[i] |-> first + t(i - 1) + k], eor /\ i = n)]
    BY <1>1, Zenon DEF Chain, t
  <2> QED BY <2>1, Zenon DEF SbNumbers
<1> HIDE DEF c
<1>5. c \in Seq(SbMbuf) /\ Len(c) = n /\ c # <<>> /\ \A i \in 1 .. n : c[i].data = SbNumbers(first + t(i - 1), shape[i])
  <2>1. c \in Seq(SbMbuf) /\ Len(c) = n /\ c # <<>>
    <3> DEFINE F(i) == Mbuf("data", SbNumbers(first + t(i - 1), shape[i]), eor /\ i = n)
    <3>1. \A i \in 1 .. n : F(i) \in SbMbuf
      BY <1>3
    <3>2. c = [i \in 1 .. n |-> F(i)]
      BY <1>4
    <3> HIDE DEF F, n
    <3> QED BY <1>1, <3>1, <3>2
  <2>2. \A i \in 1 .. n : c[i].data = SbNumbers(first + t(i - 1), shape[i])
    BY <1>4, Zenon DEF Mbuf
  <2> QED BY <2>1, <2>2
<1>6. t(n) = Total(shape) /\ t(0) = 0
  <2>1. SubSeq(shape, 1, Len(shape)) = shape /\ SubSeq(shape, 1, 0) = <<>>
    OBVIOUS
  <2> QED BY <2>1, SbTotalOK DEF t
<1>7. <<>> \in H[0]
  <2>1. SbNumbers(first, 0) = <<>>
    BY DEF SbNumbers
  <2> QED BY <1>1, <1>6, <2>1
<1>8. ASSUME NEW i \in 1 .. Len(c), NEW a \in H[i - 1]
      PROVE  AddData(a, c[i]) \in H[i]
  <2>1. i \in 1 .. n /\ i - 1 \in 0 .. n /\ i \in 0 .. n
    BY <1>1, <1>5
  <2>2. a = SbNumbers(first, t(i - 1)) /\ c[i].data = SbNumbers(first + t(i - 1), shape[i])
    BY <1>5, <1>8, <2>1
  <2>3. SbNumbers(first, t(i - 1)) \o SbNumbers(first + t(i - 1), shape[i]) = SbNumbers(first, t(i))
    <3> DEFINE p == t(i - 1)
               d == shape[i]
    <3>1. p \in Nat /\ d \in Nat /\ t(i) = p + d
      BY <1>1, <1>2, <2>1
    <3> HIDE DEF p, d
    <3>2. SbNumbers(first, p) \o SbNumbers(first + p, d) = SbNumbers(first, p + d)
      BY <3>1, SbNumbersCat
    <3> QED BY <3>1, <3>2 DEF p, d
  <2> QED BY <2>1, <2>2, <2>3 DEF AddData
<1>9. Gather!Fold(<<>>, c) \in H[Len(c)]
  <2> HIDE DEF H
  <2> QED BY <1>5, <1>7, <1>8, Gather!FoldThrough
<1>10. Bytes(c) = SbNumbers(first, Total(shape))
  BY <1>1, <1>5, <1>6, <1>9, BytesIs
<1> QED
  BY <1>5, <1>10 DEF c

-----------------------------------------------------------------------------
(***************************************************************************)
(* The invariant.  Of a stream, what was taken and what is in the buffer   *)
(* are what was put in; of a datagram socket, every record is the datagram *)
(* that was put in at its place.                                           *)
(***************************************************************************)
SbRead == [resid : Nat, peek : BOOLEAN, waitall : BOOLEAN, dontwait : BOOLEAN, data : Seq(SbByte)]
SbPut == Seq(SbByte) \X Seq(SbByte)
SbTaken == Seq(SbByte) \X Seq(SbByte) \X Nat

SbTypeOK ==
    /\ kind \in {"stream", "dgram", "send"} /\ cantrcvmore \in BOOLEAN /\ oobmark \in Nat /\ reader \in SbRead
    /\ SbExact(sb) /\ SbFull(sb.recs)

SbStreamOK ==
    /\ kind # "dgram" => put \in Seq(SbByte) /\ taken \in Seq(SbByte) /\ taken \o SbAll(sb) = put
    /\ kind = "send" => reader = NoRead

SbGot(t, p) ==
    \A i \in 1 .. Len(t) :
        t[i][1] = p[i][1] /\ t[i][2] = SubSeq(p[i][2], 1, Min({t[i][3], Len(p[i][2])}))
SbQueued(n, p, recs) ==
    \A i \in 1 .. Len(recs) :
        recs[i][1].data = p[n + i][1] /\ Bytes(Tail(recs[i])) = p[n + i][2]
SbDgramOK ==
    kind = "dgram" =>
        /\ reader.data = <<>> /\ put \in Seq(SbPut) /\ taken \in Seq(SbTaken)
        /\ Len(taken) + Len(sb.recs) = Len(put)
        /\ SbGot(taken, put) /\ SbQueued(Len(taken), put, sb.recs)

SbMarkOnlyOK == MarkKept /\ (kind # "stream" => oobmark = 0)

SbInv == SbTypeOK /\ SbStreamOK /\ SbDgramOK /\ SbMarkOnlyOK

\* An empty buffer.
LEMMA SbInvInit == SbInit => SbInv
<1> SUFFICES ASSUME SbInit PROVE SbInv
  OBVIOUS
<1> USE DEF SbInit
<1>1. EmptySb \in SbBuf /\ EmptySb.recs = <<>> /\ EmptySb.cc = 0 /\ EmptySb.mbcnt = 0
  BY DEF EmptySb, SbBuf, SbRecs
<1>2. SbExact(sb) /\ SbFull(sb.recs) /\ SbAll(sb) = <<>>
  <2> HIDE DEF SbInit
  <2>1. sb = EmptySb
    BY DEF SbInit
  <2> QED BY <1>1, <2>1, SbMbufsOne, SbBytesOne DEF SbExact, SbFull, SbAll
<1>3. NoRead \in SbRead /\ NoRead.data = <<>>
  BY DEF NoRead, SbRead
<1>4. SbTypeOK
  BY <1>2, <1>3 DEF SbTypeOK
<1>5. SbStreamOK
  BY <1>2 DEF SbStreamOK
<1>6. SbDgramOK
  BY <1>1, <1>3 DEF SbDgramOK, SbGot, SbQueued
<1>7. SbMarkOnlyOK
  BY DEF SbMarkOnlyOK, MarkKept
<1> QED
  BY <1>4, <1>5, <1>6, <1>7 DEF SbInv

\* The invariant is the property.
LEMMA SbInvIntact == SbInv => StreamIntact
<1> SUFFICES ASSUME SbInv PROVE StreamIntact
  OBVIOUS
<1> USE DEF SbInv
<1>1. SbTypeOK /\ SbStreamOK /\ SbDgramOK /\ SbMarkOnlyOK
  OBVIOUS
<1> HIDE DEF SbInv
<1>2. sb.recs \in Seq(Seq(SbMbuf)) /\ SbExact(sb) /\ SbFull(sb.recs)
  BY <1>1 DEF SbTypeOK, SbExact, SbBuf, SbRecs
<1>3. CountsExact
  <2>1. DOMAIN sb.recs = 1 .. Len(sb.recs)
    BY <1>2
  <2> QED BY <1>2, <2>1 DEF CountsExact, SbExact, SbFull
<1>4. NothingLostOrMixed
  <2>1. CASE kind = "dgram"
    <3>1. taken \in Seq(SbTaken) /\ Len(taken) + Len(sb.recs) = Len(put) /\ SbGot(taken, put)
      BY <1>1, <2>1 DEF SbDgramOK
    <3>2. DOMAIN taken = 1 .. Len(taken)
      BY <3>1
    <3> QED BY <2>1, <3>1, <3>2 DEF NothingLostOrMixed, SbGot
  <2>2. CASE kind # "dgram"
    BY <1>1, <2>2 DEF SbStreamOK, NothingLostOrMixed, SbAll
  <2> QED BY <2>1, <2>2
<1>5. MarkKept
  BY <1>1 DEF SbMarkOnlyOK
<1> QED
  BY <1>3, <1>4, <1>5 DEF StreamIntact

\* A read takes what the record has, what was asked for, and nothing past the mark.
LEMMA SbAmountOK ==
    ASSUME NEW r \in SbRead, NEW rec \in Seq(SbMbuf), oobmark \in Nat
    PROVE  /\ Amount(r, rec) \in 0 .. Size(rec) /\ Amount(r, rec) <= r.resid
           /\ oobmark > 0 => Amount(r, rec) <= oobmark
<1> DEFINE ends == {i \in DOMAIN rec : rec[i].eor}
           e == ToEor(rec)
           I == {r.resid, e} \cup (IF oobmark > 0 THEN {oobmark} ELSE {})
<1>1. Size(rec) \in Nat /\ r.resid \in Nat
  BY SbBytesIn DEF SbRead
<1>2. e \in Nat /\ e <= Size(rec)
  <2>1. CASE ends = {}
    BY <1>1, <2>1 DEF ToEor
  <2>2. CASE ends # {}
    <3>1. ends \in SUBSET Nat /\ ends \subseteq 1 .. Len(rec)
      OBVIOUS
    <3> DEFINE k == Min(ends)
    <3>2. k \in 0 .. Len(rec)
      <4>1. k \in ends
        BY <2>2, <3>1, SbMinIn
      <4> HIDE DEF k, ends
      <4> QED BY <3>1, <4>1
    <3> DEFINE x == SubSeq(rec, 1, k)
               y == SubSeq(rec, k + 1, Len(rec))
    <3>3. e = Size(x)
      BY <2>2, Zenon DEF ToEor
    <3> HIDE DEF k
    <3>4. rec = x \o y /\ x \in Seq(SbMbuf) /\ y \in Seq(SbMbuf)
      BY <3>2, SbSplit
    <3> HIDE DEF x, y, e
    <3>5. Size(x \o y) = Size(x) + Size(y) /\ Size(x) \in Nat /\ Size(y) \in Nat
      BY <3>4, SbBytesCat, SbBytesIn
    <3> QED BY <3>3, <3>4, <3>5
  <2> QED BY <2>1, <2>2
<1> HIDE DEF e
<1>3. I \in SUBSET Nat /\ I # {}
  BY <1>1, <1>2
<1>4. Amount(r, rec) = Min(I)
  BY Zenon DEF Amount, e
<1>5. Min(I) \in I /\ \A y \in I : Min(I) <= y
  <2> HIDE DEF I
  <2> QED BY <1>3, SbMinIn
<1> DEFINE n == Min(I)
<1>6. n \in Nat /\ n <= r.resid /\ n <= e /\ (oobmark > 0 => n <= oobmark)
  <2>1. r.resid \in I /\ e \in I /\ (oobmark > 0 => oobmark \in I)
    OBVIOUS
  <2> HIDE DEF I
  <2> QED BY <1>3, <1>5, <2>1
<1> HIDE DEF n
<1>7. Amount(r, rec) = n
  BY <1>4 DEF n
<1> QED
  BY <1>1, <1>2, <1>6, <1>7

\* What is taken off the front of the buffer goes to what was taken.
LEMMA SbMovedOK ==
    ASSUME NEW t \in Seq(SbByte), NEW a \in Seq(SbByte), NEW n \in 0 .. Len(a)
    PROVE  /\ t \o SubSeq(a, 1, n) \in Seq(SbByte) /\ Len(t \o SubSeq(a, 1, n)) = Len(t) + n
           /\ (t \o SubSeq(a, 1, n)) \o SubSeq(a, n + 1, Len(a)) = t \o a
           /\ SubSeq(t \o a, Len(t) + 1, Len(t) + n) = SubSeq(a, 1, n)
<1> DEFINE x == SubSeq(a, 1, n)
           y == SubSeq(a, n + 1, Len(a))
<1>1. a = x \o y /\ x \in Seq(SbByte) /\ y \in Seq(SbByte) /\ Len(x) = n
  BY SbSplit
<1> HIDE DEF x, y
<1>2. (t \o x) \o y = t \o (x \o y)
  BY <1>1, SbAssoc, Zenon
<1>3. t \o x \in Seq(SbByte) /\ Len(t \o x) = Len(t) + n
  BY <1>1, ConcatProperties
<1>4. SubSeq(t \o a, Len(t) + 1, Len(t) + n) = SubSeq(a, 1, n)
  <2>1. CASE n = 0
    <3>1. Len(t) \in Nat /\ Len(t) + 1 > Len(t) + n
      BY <2>1
    <3>2. SubSeq(t \o a, Len(t) + 1, Len(t) + n) = <<>> /\ SubSeq(a, 1, n) = <<>>
      BY <2>1, <3>1
    <3> QED BY <3>2
  <2>2. CASE n # 0
    <3>1. Len(t) + 1 \in Len(t) + 1 .. Len(t) + Len(a) /\ Len(t) + n \in Len(t) + 1 .. Len(t) + Len(a)
          /\ Len(t) + 1 - Len(t) = 1 /\ Len(t) + n - Len(t) = n
      BY <2>2
    <3>2. SubSeq(t \o a, Len(t) + 1, Len(t) + n) = SubSeq(a, Len(t) + 1 - Len(t), Len(t) + n - Len(t))
      BY <3>1, SubSeqOfConcat2
    <3> QED BY <3>1, <3>2
  <2> QED BY <2>1, <2>2
<1> QED
  BY <1>1, <1>2, <1>3, <1>4 DEF x, y

\* soreceive, from a stream.
LEMMA SbReadStreamStep ==
    ASSUME SbInv, kind = "stream", NEW r \in SbRead, sb.recs # <<>>, ReadStream(r),
           UNCHANGED <<kind, cantrcvmore, put>>
    PROVE  SbInv'
<1> DEFINE rec == sb.recs[1]
           n == Amount(r, rec)
           b == Shrunk(sb, 1, Rest(rec, n))
           data == SubSeq(Bytes(rec), 1, n)
           a == SbAll(sb)
<1>1. SbTypeOK /\ SbStreamOK /\ SbMarkOnlyOK
  BY DEF SbInv
<1>2. SbExact(sb) /\ SbFull(sb.recs) /\ oobmark \in Nat /\ reader \in SbRead /\ cantrcvmore \in BOOLEAN
  BY <1>1 DEF SbTypeOK
<1>3. put \in Seq(SbByte) /\ taken \in Seq(SbByte) /\ taken \o a = put
  BY <1>1 DEF SbStreamOK
<1>4. sb.recs \in Seq(Seq(SbMbuf)) /\ rec \in Seq(SbMbuf) /\ 1 \in 0 .. Len(sb.recs) /\ SubSeq(sb.recs, 1, 1) = <<rec>>
  <2>1. sb.recs \in Seq(Seq(SbMbuf))
    BY <1>2, SbAllIn DEF SbRecs
  <2> DEFINE R == sb.recs
             S == Seq(SbMbuf)
  <2>2. R \in Seq(S) /\ R # <<>>
    BY <2>1
  <2> HIDE DEF R, S
  <2>3. R[1] \in S /\ 1 \in 0 .. Len(R)
    BY <2>2
  <2>4. SubSeq(R, 1, 1) = <<R[1]>>
    <3>1. SubSeq(R, 1, 1) \in Seq(S) /\ Len(SubSeq(R, 1, 1)) = 1 /\ SubSeq(R, 1, 1)[1] = R[1]
      BY <2>2, <2>3
    <3> DEFINE f == SubSeq(R, 1, 1)
    <3> HIDE DEF f
    <3>2. f \in Seq(S) /\ Len(f) = 1 /\ f[1] = R[1]
      BY <3>1 DEF f
    <3>3. f = <<f[1]>>
      BY <3>2
    <3> QED BY <3>2, <3>3 DEF f
  <2> QED BY <2>2, <2>3, <2>4 DEF R, S
<1>5. n \in 0 .. Size(rec) /\ n <= r.resid /\ (oobmark > 0 => n <= oobmark) /\ Bytes(rec) \in Seq(SbByte)
  BY <1>2, <1>4, SbAmountOK, SbBytesIn
<1>6. /\ (sb' = IF r.peek THEN sb ELSE b)
      /\ (oobmark' = IF r.peek \/ oobmark = 0 THEN oobmark ELSE oobmark - n)
      /\ (taken' = IF r.peek THEN taken ELSE taken \o data)
      /\ (reader' = IF ~r.peek /\ WaitMore(r, n, b)
                   THEN [r EXCEPT !.resid = @ - n, !.data = @ \o data] ELSE NoRead)
      /\ (markAt' = IF ~r.peek /\ oobmark > 0 /\ oobmark = n THEN -1 ELSE markAt)
  BY Zenon DEF ReadStream
<1> HIDE DEF n
<1>7. SbExact(b) /\ SbFull(b.recs) /\ SbAll(b) = SubSeq(a, n + 1, Len(a)) /\ SubSeq(a, 1, n) = data
      /\ n <= Len(a)
  <2> DEFINE P == Mbufs(SubSeq(sb.recs, 1, 1))
  <2>1. P = rec
    BY <1>4, SbMbufsOne
  <2> HIDE DEF P
  <2>2. n \in 0 .. Size(P)
    BY <1>5, <2>1
  <2> DEFINE c == Shrunk(sb, 1, Rest(P, n))
  <2>3. /\ SbExact(c) /\ SbFull(c.recs) /\ SbAll(c) = SubSeq(SbAll(sb), n + 1, Len(SbAll(sb)))
        /\ SubSeq(SbAll(sb), 1, n) = SubSeq(Bytes(P), 1, n) /\ n <= Len(SbAll(sb))
    BY <1>2, <1>4, <2>2, SbTakenOK, Zenon DEF P
  <2> QED BY <2>1, <2>3
<1>8. a \in Seq(SbByte) /\ n \in 0 .. Len(a) /\ data \in Seq(SbByte) /\ Len(data) = n
  <2>1. a \in Seq(SbByte)
    BY <1>2, SbAllIn
  <2>2. data \in Seq(SbByte) /\ Len(data) = n /\ n \in Nat
    BY <1>5 DEF Size
  <2>3. n <= Len(a)
    BY <1>7
  <2> HIDE DEF a
  <2> QED BY <2>1, <2>2, <2>3
<1> HIDE DEF b, data, a, rec
<1>9. /\ taken \o data \in Seq(SbByte) /\ Len(taken \o data) = Len(taken) + n
      /\ (taken \o data) \o SbAll(b) = put
  <2>1. /\ taken \o SubSeq(a, 1, n) \in Seq(SbByte) /\ Len(taken \o SubSeq(a, 1, n)) = Len(taken) + n
        /\ (taken \o SubSeq(a, 1, n)) \o SubSeq(a, n + 1, Len(a)) = taken \o a
    BY <1>3, <1>8, SbMovedOK
  <2> QED BY <1>3, <1>7, <2>1
<1>10. reader' \in SbRead
  <2>1. NoRead \in SbRead
    BY DEF NoRead, SbRead
  <2> DEFINE x == r.resid - n
             y == r.data \o data
  <2>2. x \in Nat /\ y \in Seq(SbByte)
    BY <1>5, <1>8 DEF SbRead
  <2>3. [r EXCEPT !.resid = @ - n, !.data = @ \o data] = [r EXCEPT !.resid = x, !.data = y]
    BY DEF SbRead
  <2> HIDE DEF x, y
  <2>4. [r EXCEPT !.resid = x, !.data = y] \in SbRead
    BY <2>2 DEF SbRead
  <2> QED BY <1>6, <2>1, <2>3, <2>4
<1>11. SbTypeOK'
  <2>1. oobmark' \in Nat
    BY <1>2, <1>5, <1>6
  <2>2. SbExact(sb') /\ SbFull(sb'.recs)
    BY <1>2, <1>6, <1>7
  <2> QED BY <1>2, <1>10, <2>1, <2>2 DEF SbTypeOK
<1>12. SbStreamOK'
  <2>1. CASE r.peek
    BY <1>3, <1>6, <2>1 DEF SbStreamOK, a
  <2>2. CASE ~r.peek
    BY <1>3, <1>6, <1>9, <2>2 DEF SbStreamOK
  <2> QED BY <2>1, <2>2
<1>13. SbDgramOK'
  BY DEF SbDgramOK
<1>14. SbMarkOnlyOK'
  <2>1. MarkKept
    BY <1>1 DEF SbMarkOnlyOK
  <2>2. CASE r.peek
    BY <1>6, <2>1, <2>2 DEF SbMarkOnlyOK, MarkKept
  <2>3. CASE ~r.peek
    <3>1. taken' = taken \o data /\ Len(taken \o data) = Len(taken) + n /\ Len(taken) \in Nat /\ n \in Nat
      BY <1>3, <1>6, <1>8, <1>9, <2>3
    <3>2. MarkKept'
      BY <1>2, <1>5, <1>6, <2>1, <2>3, <3>1 DEF MarkKept
    <3> QED BY <3>2 DEF SbMarkOnlyOK
  <2> QED BY <2>2, <2>3
<1> QED
  BY <1>11, <1>12, <1>13, <1>14 DEF SbInv

\* What follows the first of a list.
LEMMA SbBehindFirst ==
    ASSUME NEW S, NEW s \in Seq(S), s # <<>>
    PROVE  /\ Len(s) \in Nat /\ Len(s) > 0 /\ s[1] \in S
           /\ SubSeq(s, 2, Len(s)) \in Seq(S) /\ Len(SubSeq(s, 2, Len(s))) = Len(s) - 1
           /\ \A i \in 1 .. Len(s) - 1 : SubSeq(s, 2, Len(s))[i] = s[i + 1]
<1> DEFINE n == Len(s)
           q == SubSeq(s, 2, n)
<1>1. n \in Nat /\ n > 0 /\ \A i \in 1 .. n : s[i] \in S
  OBVIOUS
<1>2. q \in Seq(S)
  BY <1>1
<1>3. Len(q) = n - 1
  <2>1. 1 \in 0 .. Len(s)
    BY <1>1
  <2>2. Len(SubSeq(s, 1 + 1, Len(s))) = Len(s) - 1
    BY <2>1, SbSplit
  <2>3. 1 + 1 = 2
    OBVIOUS
  <2> QED BY <2>2, <2>3
<1>4. \A i \in 1 .. n - 1 : q[i] = s[i + 1]
  BY <1>1
<1> QED
  BY <1>1, <1>2, <1>3, <1>4

\* soreceive, from a datagram socket: the first record is the next datagram.
LEMMA SbReadDgramStep ==
    ASSUME SbInv, kind = "dgram", NEW r \in SbRead, sb.recs # <<>>, ReadDgram(r),
           UNCHANGED <<kind, cantrcvmore, put>>
    PROVE  SbInv'
<1> DEFINE recs == sb.recs
           rec == recs[1]
           rest == Tail(rec)
           n == Min({r.resid, Size(rest)})
           e == <<rec[1].data, SubSeq(Bytes(rest), 1, n), r.resid>>
           b == sbdroprecord(sb)
           L == Len(taken)
<1>1. SbTypeOK /\ SbStreamOK /\ SbDgramOK /\ SbMarkOnlyOK
  BY DEF SbInv
<1>2. SbExact(sb) /\ SbFull(recs) /\ oobmark \in Nat /\ cantrcvmore \in BOOLEAN
  BY <1>1 DEF SbTypeOK
<1>3. /\ put \in Seq(SbPut) /\ taken \in Seq(SbTaken) /\ L + Len(recs) = Len(put)
      /\ SbGot(taken, put) /\ SbQueued(L, put, recs)
  BY <1>1 DEF SbDgramOK
<1>4. recs \in Seq(Seq(SbMbuf)) /\ rec \in Seq(SbMbuf) /\ Len(recs) > 0 /\ Len(recs) \in Nat /\ L \in Nat
  <2>1. recs \in Seq(Seq(SbMbuf)) /\ recs # <<>>
    BY <1>2, SbAllIn DEF SbRecs
  <2> DEFINE S == Seq(SbMbuf)
  <2>2. recs \in Seq(S) /\ recs # <<>>
    BY <2>1
  <2> HIDE DEF recs, S
  <2>3. recs[1] \in S /\ Len(recs) > 0 /\ Len(recs) \in Nat
    BY <2>2
  <2> QED BY <1>3, <2>1, <2>3 DEF S
<1>5. /\ (sb' = IF r.peek THEN sb ELSE b)
      /\ (taken' = IF r.peek THEN taken ELSE Append(taken, e))
      /\ reader' = NoRead /\ oobmark' = oobmark /\ markAt' = markAt
  <2>1. /\ (sb' = IF r.peek THEN sb ELSE b)
        /\ (taken' = IF r.peek THEN taken ELSE Append(taken, e))
        /\ reader' = NoRead /\ UNCHANGED <<oobmark, markAt>>
    BY Zenon DEF ReadDgram
  <2> QED BY <2>1
<1>6. NoRead \in SbRead /\ NoRead.data = <<>>
  BY DEF NoRead, SbRead
<1>7. SbExact(b) /\ SbFull(b.recs) /\ b.recs = SubSeq(recs, 2, Len(recs))
  <2>1. 1 \in 0 .. Len(recs) /\ <<>> \in Seq(SbMbuf)
    BY <1>4
  <2> DEFINE c == Shrunk(sb, 1, <<>>)
             q == SubSeq(recs, 1 + 1, Len(recs))
  <2>2. SbExact(c) /\ SbFull(c.recs) /\ c.recs = (IF <<>> = <<>> THEN <<>> ELSE << <<>> >>) \o q
    BY <1>2, <2>1, SbShrunkOK, Zenon
  <2>3. q \in Seq(Seq(SbMbuf))
    <3> DEFINE S == Seq(SbMbuf)
    <3>1. recs \in Seq(S)
      BY <1>4
    <3> HIDE DEF recs, S
    <3>2. q \in Seq(S)
      BY <1>4, <3>1
    <3> QED BY <3>2 DEF S
  <2> HIDE DEF q, c
  <2>4. <<>> \o q = q
    BY <2>3, SbNil
  <2>5. c.recs = q
    BY <2>2, <2>4
  <2> QED BY <2>2, <2>5 DEF c, q, sbdroprecord
<1> HIDE DEF b
<1>8. rec # <<>> /\ rec[1].data = put[L + 1][1] /\ Bytes(rest) = put[L + 1][2]
  <2>1. 1 \in 1 .. Len(recs)
    BY <1>4
  <2>2. recs[1] # <<>>
    BY <1>2, <2>1, Zenon DEF SbFull
  <2>3. recs[1][1].data = put[L + 1][1] /\ Bytes(Tail(recs[1])) = put[L + 1][2]
    BY <1>3, <2>1, Zenon DEF SbQueued
  <2> QED BY <2>2, <2>3
<1>9. n \in Nat /\ n <= Size(rest) /\ Bytes(rest) \in Seq(SbByte) /\ rec[1].data \in Seq(SbByte) /\ r.resid \in Nat
  <2> HIDE DEF rec
  <2>1. rest \in Seq(SbMbuf) /\ rec[1] \in SbMbuf
    BY <1>4, <1>8
  <2>2. rec[1].data \in Seq(SbByte)
    BY <2>1 DEF SbMbuf
  <2> HIDE DEF rest
  <2>3. Bytes(rest) \in Seq(SbByte) /\ Size(rest) \in Nat
    BY <2>1, SbBytesIn
  <2>4. r.resid \in Nat
    BY DEF SbRead
  <2> DEFINE I == {r.resid, Size(rest)}
  <2>5. I \in SUBSET Nat /\ I # {}
    BY <2>3, <2>4
  <2>6. Min(I) \in I /\ \A y \in I : Min(I) <= y
    <3> HIDE DEF I
    <3> QED BY <2>5, SbMinIn
  <2>7. n \in Nat /\ n <= Size(rest)
    BY <2>5, <2>6
  <2> QED BY <2>2, <2>3, <2>4, <2>7
<1>10. e \in SbTaken
  <2> DEFINE x == SubSeq(Bytes(rest), 1, n)
             y == rec[1].data
  <2>1. x \in Seq(SbByte) /\ y \in Seq(SbByte)
    <3> DEFINE z == Bytes(rest)
    <3>1. z \in Seq(SbByte) /\ n \in Nat /\ n <= Len(z)
      BY <1>9 DEF Size
    <3> HIDE DEF z, n
    <3>2. SubSeq(z, 1, n) \in Seq(SbByte)
      BY <3>1
    <3> QED BY <1>9, <3>2 DEF z
  <2> HIDE DEF x, y
  <2>2. <<y, x, r.resid>> \in SbTaken
    BY <1>9, <2>1 DEF SbTaken
  <2> QED BY <2>2 DEF x, y
<1>11. e[1] = put[L + 1][1] /\ e[2] = SubSeq(put[L + 1][2], 1, Min({e[3], Len(put[L + 1][2])}))
  <2>1. e[1] = rec[1].data /\ e[2] = SubSeq(Bytes(rest), 1, n) /\ e[3] = r.resid
    OBVIOUS
  <2> QED BY <1>8, <2>1, Zenon DEF Size
<1> HIDE DEF e, rec, rest, recs
<1>12. SbTypeOK'
  BY <1>1, <1>2, <1>5, <1>6, <1>7 DEF SbTypeOK, recs
<1>13. SbStreamOK'
  BY DEF SbStreamOK
<1>14. SbMarkOnlyOK'
  BY <1>1, <1>5 DEF SbMarkOnlyOK, MarkKept
<1>15. CASE r.peek
  <2>1. sb' = sb /\ taken' = taken
    BY <1>5, <1>15
  <2> QED BY <1>1, <1>5, <1>6, <1>12, <1>13, <1>14, <2>1 DEF SbDgramOK, SbInv
<1>16. CASE ~ r.peek
  <2> DEFINE t == Append(taken, e)
             q == SubSeq(recs, 2, Len(recs))
  <2>1. taken' = t /\ sb'.recs = q /\ put' = put /\ reader'.data = <<>>
    BY <1>5, <1>6, <1>7, <1>16
  <2>2. /\ t \in Seq(SbTaken) /\ Len(t) = L + 1 /\ t[L + 1] = e
        /\ \A i \in 1 .. L : t[i] = taken[i]
    BY <1>3, <1>10
  <2>3. Len(q) = Len(recs) - 1 /\ \A i \in 1 .. Len(recs) - 1 : q[i] = recs[i + 1]
    <3> DEFINE S == Seq(SbMbuf)
    <3>1. recs \in Seq(S)
      BY <1>4
    <3> HIDE DEF S
    <3>2. recs # <<>>
      BY <1>4 DEF recs
    <3> QED BY <3>1, <3>2, SbBehindFirst
  <2> HIDE DEF t, q, L
  <2>4. Len(t) + Len(q) = Len(put)
    <3> DEFINE k == Len(recs)
    <3>1. k \in Nat /\ L \in Nat /\ L + k = Len(put)
      BY <1>3, <1>4, Zenon DEF L
    <3>2. Len(t) = L + 1 /\ Len(q) = k - 1
      BY <2>2, <2>3, Zenon DEF L
    <3> HIDE DEF k
    <3> QED BY <3>1, <3>2
  <2>5. SbGot(t, put)
    <3> SUFFICES ASSUME NEW i \in 1 .. Len(t)
                 PROVE  t[i][1] = put[i][1] /\ t[i][2] = SubSeq(put[i][2], 1, Min({t[i][3], Len(put[i][2])}))
      BY Zenon DEF SbGot
    <3>1. CASE i = L + 1
      BY <1>11, <2>2, <3>1, Zenon
    <3>2. CASE i # L + 1
      <4>1. i \in 1 .. L
        BY <1>4, <2>2, <3>2
      <4>2. i \in 1 .. Len(taken)
        BY <4>1 DEF L
      <4> QED BY <1>3, <2>2, <4>1, <4>2, Zenon DEF SbGot
    <3> QED BY <3>1, <3>2
  <2>6. SbQueued(L + 1, put, q)
    <3> SUFFICES ASSUME NEW i \in 1 .. Len(q)
                 PROVE  q[i][1].data = put[(L + 1) + i][1] /\ Bytes(Tail(q[i])) = put[(L + 1) + i][2]
      BY Zenon DEF SbQueued
    <3>1. i \in 1 .. Len(recs) - 1 /\ i + 1 \in 1 .. Len(recs) /\ (L + 1) + i = L + (i + 1)
      BY <1>4, <2>3
    <3>2. recs[i + 1][1].data = put[L + (i + 1)][1] /\ Bytes(Tail(recs[i + 1])) = put[L + (i + 1)][2]
      BY <1>3, <3>1, Zenon DEF SbQueued
    <3> QED BY <2>3, <3>1, <3>2, Zenon
  <2>7. SbDgramOK'
    BY <1>3, <2>1, <2>2, <2>4, <2>5, <2>6 DEF SbDgramOK
  <2> QED BY <1>12, <1>13, <1>14, <2>7 DEF SbInv
<1> QED
  BY <1>15, <1>16

\* The head of soreceive.
LEMMA SbAttemptStep ==
    ASSUME SbInv, kind # "send", NEW r \in SbRead, kind = "dgram" => r.data = <<>>, Attempt(r),
           UNCHANGED <<kind, cantrcvmore, put>>
    PROVE  SbInv'
<1> DEFINE Stays == Wanting(r) /\ ~(sb.recs # <<>> /\ (cantrcvmore \/ \E i \in DOMAIN sb.recs[1] : sb.recs[1][i].eor))
<1>1. CASE Stays
  <2>1. /\ (reader' = IF cantrcvmore \/ r.dontwait THEN NoRead ELSE r)
        /\ UNCHANGED <<sb, oobmark, taken, markAt>>
    BY <1>1, Zenon DEF Attempt
  <2>2. NoRead \in SbRead /\ NoRead.data = <<>>
    BY DEF NoRead, SbRead
  <2>3. reader' \in SbRead /\ (kind = "dgram" => reader'.data = <<>>)
    BY <2>1, <2>2
  <2>4. SbTypeOK'
    BY <2>1, <2>3 DEF SbInv, SbTypeOK
  <2>5. SbStreamOK'
    BY <2>1 DEF SbInv, SbStreamOK
  <2>6. SbDgramOK'
    BY <2>1, <2>3 DEF SbInv, SbDgramOK
  <2>7. SbMarkOnlyOK'
    BY <2>1 DEF SbInv, SbMarkOnlyOK, MarkKept
  <2> QED BY <2>4, <2>5, <2>6, <2>7 DEF SbInv
<1>2. CASE ~ Stays
  <2>1. sb.recs # <<>>
    BY <1>2, Zenon DEF Wanting
  <2>2. IF kind = "stream" THEN ReadStream(r) ELSE ReadDgram(r)
    BY <1>2, Zenon DEF Attempt
  <2>3. CASE kind = "stream"
    BY <2>1, <2>2, <2>3, SbReadStreamStep
  <2>4. CASE kind # "stream"
    <3>1. kind = "dgram"
      BY <2>4 DEF SbInv, SbTypeOK
    <3> QED BY <2>1, <2>2, <2>4, <3>1, SbReadDgramStep
  <2> QED BY <2>3, <2>4
<1> QED
  BY <1>1, <1>2

\* A read is taken up.
LEMMA SbReceiveStep ==
    ASSUME SbInv, NEW q \in Requests, soreceive(q)
    PROVE  SbInv'
<1> DEFINE r == [resid |-> q.resid, peek |-> q.peek, waitall |-> q.waitall, dontwait |-> q.dontwait, data |-> <<>>]
<1>1. r \in SbRead /\ r.data = <<>>
  <2>1. q \in [resid : Nat, peek : BOOLEAN, waitall : BOOLEAN, dontwait : BOOLEAN]
    BY SbAssumption
  <2> QED BY <2>1 DEF SbRead
<1>2. kind # "send" /\ Attempt(r) /\ UNCHANGED <<kind, cantrcvmore, put>>
  BY Zenon DEF soreceive
<1> HIDE DEF r
<1> QED
  BY <1>1, <1>2, SbAttemptStep

\* sorwakeup: nothing wakes a reader of a send buffer, because there is none.
LEMMA SbResumeStep ==
    ASSUME SbInv, Resume
    PROVE  SbInv'
<1>1. SbTypeOK /\ SbStreamOK /\ SbDgramOK /\ SbMarkOnlyOK
  BY DEF SbInv
<1>2. kind # "send" /\ reader \in SbRead /\ (kind = "dgram" => reader.data = <<>>)
  BY <1>1 DEF Resume, Woken, Idle, SbTypeOK, SbStreamOK, SbDgramOK
<1>3. UNCHANGED <<kind, cantrcvmore, put>>
  BY DEF Resume
<1>4. \/ Attempt(reader)
      \/ reader.data # <<>> /\ reader' = NoRead /\ UNCHANGED <<sb, oobmark, taken, markAt>>
      \/ reader.data # <<>> /\ sb.recs # <<>> /\ ReadStream(reader)
  BY Zenon DEF Resume
<1>5. CASE Attempt(reader)
  BY <1>2, <1>3, <1>5, SbAttemptStep
<1>6. CASE reader.data # <<>> /\ reader' = NoRead /\ UNCHANGED <<sb, oobmark, taken, markAt>>
  <2>1. NoRead \in SbRead /\ NoRead.data = <<>>
    BY DEF NoRead, SbRead
  <2>2. SbTypeOK'
    BY <1>1, <1>3, <1>6, <2>1 DEF SbTypeOK
  <2>3. SbStreamOK'
    BY <1>1, <1>3, <1>6 DEF SbStreamOK
  <2>4. SbDgramOK'
    BY <1>1, <1>3, <1>6, <2>1 DEF SbDgramOK
  <2>5. SbMarkOnlyOK'
    BY <1>1, <1>3, <1>6 DEF SbMarkOnlyOK, MarkKept
  <2> QED BY <2>2, <2>3, <2>4, <2>5 DEF SbInv
<1>7. CASE reader.data # <<>> /\ sb.recs # <<>> /\ ReadStream(reader)
  <2>1. kind = "stream"
    BY <1>1, <1>2, <1>7 DEF SbTypeOK
  <2> QED BY <1>2, <1>3, <1>7, <2>1, SbReadStreamStep
<1> QED
  BY <1>4, <1>5, <1>6, <1>7

\* tcp_input and PRU_SEND append to a stream.
LEMMA SbAppendStreamStep ==
    ASSUME SbInv, NEW shape \in Chains, NEW eor \in BOOLEAN, AppendStream(shape, eor)
    PROVE  SbInv'
<1> DEFINE n == Total(shape)
           chain == Chain(shape, Len(put), eor)
           b == sbappend(sb, chain)
<1>1. SbTypeOK /\ SbStreamOK /\ SbDgramOK /\ SbMarkOnlyOK
  BY DEF SbInv
<1>2. shape \in Seq(Nat) /\ shape # <<>>
  BY SbAssumption
<1>3. /\ kind # "dgram" /\ sb' = b /\ put' = put \o [k \in 1 .. n |-> Len(put) + k]
      /\ UNCHANGED <<kind, oobmark, cantrcvmore, reader, taken, markAt>>
  BY Zenon DEF AppendStream
<1>4. SbExact(sb) /\ SbFull(sb.recs)
  BY <1>1 DEF SbTypeOK
<1>5. put \in Seq(SbByte) /\ taken \in Seq(SbByte) /\ taken \o SbAll(sb) = put /\ Len(put) \in Nat
  <2>1. put \in Seq(SbByte)
    BY <1>1, <1>3 DEF SbStreamOK
  <2> QED BY <1>1, <1>3, <2>1 DEF SbStreamOK
<1>6. chain \in Seq(SbMbuf) /\ chain # <<>> /\ Bytes(chain) = SbNumbers(Len(put), n)
  BY <1>2, <1>5, SbShapeOK, Zenon
<1>7. n \in Nat /\ SbNumbers(Len(put), n) \in Seq(SbByte)
  <2>1. n \in Nat
    BY <1>2, SbTotalOK
  <2> QED BY <1>5, <2>1, SbNumbersIn
<1>8. put' = put \o SbNumbers(Len(put), n)
  BY <1>3, Zenon DEF SbNumbers
<1> HIDE DEF chain, n
<1>9. SbExact(b) /\ SbFull(b.recs) /\ SbAll(b) = SbAll(sb) \o Bytes(chain)
  BY <1>4, <1>6, SbAppendOK, Zenon
<1> HIDE DEF b
<1>10. put' \in Seq(SbByte) /\ taken \o SbAll(b) = put'
  <2> DEFINE t == taken
             a == SbAll(sb)
             d == Bytes(chain)
  <2>1. t \in Seq(SbByte) /\ a \in Seq(SbByte) /\ d \in Seq(SbByte) /\ SbAll(b) = a \o d /\ put' = (t \o a) \o d
        /\ put \in Seq(SbByte) /\ put' = put \o d
    BY <1>4, <1>5, <1>6, <1>7, <1>8, <1>9, SbAllIn
  <2> HIDE DEF t, a, d
  <2>2. (t \o a) \o d = t \o (a \o d)
    BY <2>1, SbAssoc, Zenon
  <2>3. put' \in Seq(SbByte)
    BY <2>1, ConcatProperties
  <2> QED BY <2>1, <2>2, <2>3 DEF t
<1>11. SbTypeOK'
  BY <1>1, <1>3, <1>9 DEF SbTypeOK
<1>12. SbStreamOK'
  BY <1>1, <1>3, <1>5, <1>10 DEF SbStreamOK
<1>13. SbDgramOK'
  BY <1>3 DEF SbDgramOK
<1>14. SbMarkOnlyOK'
  BY <1>1, <1>3 DEF SbMarkOnlyOK, MarkKept
<1> QED
  BY <1>11, <1>12, <1>13, <1>14 DEF SbInv

\* udp_input and rip_input: a datagram goes behind the others or is dropped.
LEMMA SbAppendDgramStep ==
    ASSUME SbInv, NEW shape \in Chains, AppendDgram(shape)
    PROVE  SbInv'
<1> DEFINE n == Total(shape)
           name == Len(put) + 1
           chain == Chain(shape, 0, FALSE)
           b == sbappendaddr(sb, name, chain)
           data == [k \in 1 .. n |-> k]
           e == <<<<name>>, data>>
           L == Len(taken)
           recs == sb.recs
<1>1. SbTypeOK /\ SbStreamOK /\ SbDgramOK /\ SbMarkOnlyOK
  BY DEF SbInv
<1>2. shape \in Seq(Nat) /\ shape # <<>>
  BY SbAssumption
<1>3. /\ kind = "dgram" /\ sb' = b /\ (put' = IF b = sb THEN put ELSE Append(put, e))
      /\ UNCHANGED <<kind, oobmark, cantrcvmore, reader, taken, markAt>>
  BY Zenon DEF AppendDgram
<1>4. SbExact(sb) /\ SbFull(recs)
  BY <1>1 DEF SbTypeOK
<1>5. /\ put \in Seq(SbPut) /\ taken \in Seq(SbTaken) /\ L + Len(recs) = Len(put) /\ reader.data = <<>>
      /\ SbGot(taken, put) /\ SbQueued(L, put, recs)
  BY <1>1, <1>3 DEF SbDgramOK
<1>6. L \in Nat /\ Len(put) \in Nat /\ Len(recs) \in Nat
  <2>1. recs \in Seq(Seq(SbMbuf))
    BY <1>4, SbAllIn DEF SbRecs
  <2>2. Len(recs) \in Nat
    BY <2>1
  <2> QED BY <1>5, <2>2
<1>7. chain \in Seq(SbMbuf) /\ Bytes(chain) = SbNumbers(0, n)
  <2>1. 0 \in Nat /\ FALSE \in BOOLEAN
    OBVIOUS
  <2> QED BY <1>2, <2>1, SbShapeOK, Zenon
<1>8. data = SbNumbers(0, n) /\ data \in Seq(SbByte) /\ name \in SbByte
  <2>1. n \in Nat
    BY <1>2, SbTotalOK
  <2>2. \A k \in 1 .. n : 0 + k = k
    OBVIOUS
  <2>3. data = SbNumbers(0, n)
    BY <2>2, Zenon DEF SbNumbers
  <2>4. name \in SbByte
    BY <1>6 DEF SbByte
  <2>5. SbNumbers(0, n) \in Seq(SbByte)
    BY <2>1, SbNumbersIn
  <2> QED BY <2>3, <2>4, <2>5
<1> HIDE DEF chain, data, name
<1>9. e \in SbPut /\ e[1] = <<name>> /\ e[2] = data
  <2> DEFINE y == <<name>>
  <2>1. y \in Seq(SbByte)
    BY <1>8
  <2> HIDE DEF y
  <2>2. <<y, data>> \in SbPut
    BY <1>8, <2>1 DEF SbPut
  <2>3. <<y, data>>[1] = y /\ <<y, data>>[2] = data
    OBVIOUS
  <2> QED BY <2>2, <2>3 DEF y
<1>10. CASE b = sb
  <2>1. sb' = sb /\ put' = put
    BY <1>3, <1>10
  <2>2. SbTypeOK'
    BY <1>1, <1>3, <2>1 DEF SbTypeOK
  <2>3. SbStreamOK'
    BY <1>1, <1>3, <2>1 DEF SbStreamOK
  <2>4. SbDgramOK'
    BY <1>1, <1>3, <2>1 DEF SbDgramOK
  <2>5. SbMarkOnlyOK'
    BY <1>1, <1>3 DEF SbMarkOnlyOK, MarkKept
  <2> QED BY <2>2, <2>3, <2>4, <2>5 DEF SbInv
<1>11. CASE b # sb
  <2> HIDE DEF e
  <2> DEFINE p == Append(put, e)
             q == b.recs
             N == Len(recs)
  <2>1. /\ SbExact(b) /\ SbFull(q) /\ Len(q) = N + 1
        /\ q[N + 1][1].data = <<name>> /\ Tail(q[N + 1]) = chain
        /\ \A i \in 1 .. N : q[i] = recs[i]
    BY <1>4, <1>7, <1>8, <1>11, SbAddrOK, Zenon
  <2> HIDE DEF b
  <2>2. put' = p /\ sb' = b /\ taken' = taken /\ reader' = reader
    BY <1>3, <1>11
  <2>3. /\ p \in Seq(SbPut) /\ Len(p) = Len(put) + 1 /\ p[Len(put) + 1] = e
        /\ \A i \in 1 .. Len(put) : p[i] = put[i]
    BY <1>5, <1>9
  <2>4. N \in Nat /\ L \in Nat /\ L + N = Len(put) /\ Len(put) \in Nat
    BY <1>5, <1>6
  <2> HIDE DEF p, q, N, recs
  <2>5. Len(taken) + Len(q) = Len(p)
    BY <2>1, <2>3, <2>4
  <2>6. SbGot(taken, p)
    <3> SUFFICES ASSUME NEW i \in 1 .. Len(taken)
                 PROVE  taken[i][1] = p[i][1] /\ taken[i][2] = SubSeq(p[i][2], 1, Min({taken[i][3], Len(p[i][2])}))
      BY Zenon DEF SbGot
    <3>1. i \in 1 .. Len(put)
      BY <2>4
    <3>2. p[i] = put[i]
      BY <2>3, <3>1, Zenon
    <3>3. taken[i][1] = put[i][1] /\ taken[i][2] = SubSeq(put[i][2], 1, Min({taken[i][3], Len(put[i][2])}))
      BY <1>5, Zenon DEF SbGot
    <3> QED BY <3>2, <3>3, Zenon
  <2>7. SbQueued(L, p, q)
    <3> SUFFICES ASSUME NEW i \in 1 .. Len(q)
                 PROVE  q[i][1].data = p[L + i][1] /\ Bytes(Tail(q[i])) = p[L + i][2]
      BY Zenon DEF SbQueued
    <3>1. CASE i = N + 1
      <4>1. L + i = Len(put) + 1
        BY <2>4, <3>1
      <4> QED BY <1>7, <1>8, <1>9, <2>1, <2>3, <3>1, <4>1, Zenon
    <3>2. CASE i # N + 1
      <4>1. i \in 1 .. N /\ L + i \in 1 .. Len(put)
        BY <2>1, <2>4, <3>2
      <4>2. q[i] = recs[i] /\ p[L + i] = put[L + i]
        BY <2>1, <2>3, <4>1, Zenon
      <4>3. i \in 1 .. Len(recs)
        BY <4>1 DEF N
      <4> QED BY <1>5, <4>2, <4>3, Zenon DEF SbQueued
    <3> QED BY <3>1, <3>2
  <2>8. SbTypeOK'
    BY <1>1, <1>3, <2>1, <2>2 DEF SbTypeOK, q
  <2>9. SbStreamOK'
    BY <1>3, <1>1 DEF SbStreamOK
  <2>10. SbDgramOK'
    BY <1>5, <2>2, <2>3, <2>5, <2>6, <2>7 DEF SbDgramOK, q
  <2>11. SbMarkOnlyOK'
    BY <1>1, <1>3 DEF SbMarkOnlyOK, MarkKept
  <2> QED BY <2>8, <2>9, <2>10, <2>11 DEF SbInv
<1> QED
  BY <1>10, <1>11

\* tcp_input: what is acknowledged leaves the front of the send buffer.
LEMMA SbAckedStep ==
    ASSUME SbInv, NEW n \in 1 .. sb_hiwat, Acked(n)
    PROVE  SbInv'
<1> DEFINE b == sbdrop(sb, n)
           a == SbAll(sb)
<1>1. SbTypeOK /\ SbStreamOK /\ SbDgramOK /\ SbMarkOnlyOK
  BY DEF SbInv
<1>2. /\ kind = "send" /\ n <= sb.cc /\ sb' = b /\ taken' = taken \o SubSeq(put, Len(taken) + 1, Len(taken) + n)
      /\ UNCHANGED <<kind, oobmark, cantrcvmore, reader, put, markAt>>
  BY Zenon DEF Acked
<1>3. SbExact(sb) /\ SbFull(sb.recs)
  BY <1>1 DEF SbTypeOK
<1>4. put \in Seq(SbByte) /\ taken \in Seq(SbByte) /\ taken \o a = put /\ a \in Seq(SbByte) /\ sb.cc = Len(a)
  BY <1>1, <1>2, <1>3, SbAllIn DEF SbStreamOK
<1>5. n \in 0 .. sb.cc /\ n \in 0 .. Len(a)
  <2>1. sb_hiwat \in Nat /\ sb.cc \in Nat
    BY <1>3, SbAssumption, SbAllIn
  <2> HIDE DEF a
  <2> QED BY <1>2, <1>4, <2>1
<1>6. SbExact(b) /\ SbFull(b.recs) /\ SbAll(b) = SubSeq(a, n + 1, Len(a))
  BY <1>3, <1>5, SbDropOK, Zenon
<1> HIDE DEF a, b
<1>7. taken' \in Seq(SbByte) /\ taken' \o SbAll(b) = put
  <2>1. /\ taken \o SubSeq(a, 1, n) \in Seq(SbByte)
        /\ (taken \o SubSeq(a, 1, n)) \o SubSeq(a, n + 1, Len(a)) = taken \o a
        /\ SubSeq(taken \o a, Len(taken) + 1, Len(taken) + n) = SubSeq(a, 1, n)
    BY <1>4, <1>5, SbMovedOK, Zenon
  <2> QED BY <1>2, <1>4, <1>6, <2>1
<1>8. SbTypeOK'
  BY <1>1, <1>2, <1>6 DEF SbTypeOK
<1>9. SbStreamOK'
  BY <1>1, <1>2, <1>4, <1>7 DEF SbStreamOK
<1>10. SbDgramOK'
  BY <1>2 DEF SbDgramOK
<1>11. SbMarkOnlyOK'
  BY <1>1, <1>2 DEF SbMarkOnlyOK, MarkKept
<1> QED
  BY <1>8, <1>9, <1>10, <1>11 DEF SbInv

\* sorflush empties the buffer.
LEMMA SbFlushStep ==
    ASSUME SbInv, sorflush
    PROVE  SbInv'
<1> DEFINE b == sbflush(sb)
<1>1. SbTypeOK /\ SbStreamOK /\ SbDgramOK
  BY DEF SbInv
<1>2. /\ cantrcvmore' = TRUE /\ sb' = b /\ put' = <<>> /\ taken' = <<>> /\ oobmark' = 0 /\ markAt' = -1
      /\ UNCHANGED <<kind, reader>>
  BY Zenon DEF sorflush
<1>3. SbExact(b) /\ b.recs = <<>>
  BY <1>1, SbFlushOK, Zenon DEF SbTypeOK
<1> HIDE DEF b
<1>4. SbFull(b.recs) /\ SbAll(b) = <<>>
  BY <1>3, SbMbufsOne, SbBytesOne DEF SbFull, SbAll
<1>5. SbTypeOK'
  BY <1>1, <1>2, <1>3, <1>4 DEF SbTypeOK
<1>6. SbStreamOK'
  BY <1>1, <1>2, <1>4 DEF SbStreamOK
<1>7. SbDgramOK'
  BY <1>1, <1>2, <1>3 DEF SbDgramOK, SbGot, SbQueued
<1>8. SbMarkOnlyOK'
  BY <1>2 DEF SbMarkOnlyOK, MarkKept
<1> QED
  BY <1>5, <1>6, <1>7, <1>8 DEF SbInv

\* Every step of the system.
LEMMA SbInvStep == SbInv /\ [SbNext]_sbVars => SbInv'
<1> SUFFICES ASSUME SbInv, [SbNext]_sbVars PROVE SbInv'
  OBVIOUS
<1>0. SbTypeOK /\ SbStreamOK /\ SbDgramOK /\ SbMarkOnlyOK
  BY DEF SbInv
<1>1. CASE \E shape \in Chains, eor \in BOOLEAN : AppendStream(shape, eor)
  BY <1>1, SbAppendStreamStep
<1>2. CASE \E shape \in Chains : AppendDgram(shape)
  BY <1>2, SbAppendDgramStep
<1>3. CASE \E q \in Requests : soreceive(q)
  BY <1>3, SbReceiveStep
<1>4. CASE \E n \in 1 .. sb_hiwat : Acked(n)
  BY <1>4, SbAckedStep
<1>5. CASE Resume
  BY <1>5, SbResumeStep
<1>6. CASE Urgent
  <2>1. /\ kind = "stream" /\ sb.cc > 0 /\ oobmark' = sb.cc /\ markAt' = Len(taken) + sb.cc
        /\ UNCHANGED <<kind, sb, cantrcvmore, reader, put, taken>>
    BY <1>6 DEF Urgent
  <2>2. SbExact(sb) /\ sb.cc \in Nat
    BY <1>0, SbAllIn DEF SbTypeOK
  <2>3. SbTypeOK'
    BY <1>0, <2>1, <2>2 DEF SbTypeOK
  <2>4. SbStreamOK'
    BY <1>0, <2>1 DEF SbStreamOK
  <2>5. SbDgramOK'
    BY <2>1 DEF SbDgramOK
  <2>6. SbMarkOnlyOK'
    BY <2>1 DEF SbMarkOnlyOK, MarkKept
  <2> QED BY <2>3, <2>4, <2>5, <2>6 DEF SbInv
<1>7. CASE EndOfInput
  <2>1. cantrcvmore' = TRUE /\ UNCHANGED <<kind, sb, oobmark, reader, put, taken, markAt>>
    BY <1>7 DEF EndOfInput
  <2> QED BY <1>0, <2>1 DEF SbInv, SbTypeOK, SbStreamOK, SbDgramOK, SbMarkOnlyOK, MarkKept
<1>8. CASE sorflush
  BY <1>8, SbFlushStep
<1>9. CASE UNCHANGED sbVars
  BY <1>0, <1>9 DEF sbVars, SbInv, SbTypeOK, SbStreamOK, SbDgramOK, SbMarkOnlyOK, MarkKept
<1> QED
  BY <1>1, <1>2, <1>3, <1>4, <1>5, <1>6, <1>7, <1>8, <1>9 DEF SbNext

\* A socket buffer gives what was put in: a stream its bytes, each once and in
\* order, across sbcompress, sbdrop and soreceive; a datagram its own address
\* and the beginning of its own data; sb_cc and sb_mbcnt are exact, and the
\* urgent mark stays at its byte (uipc_sock.c, uipc_sock2.c).
THEOREM StreamAlwaysIntact == SbSpec => []StreamIntact
<1>1. SbInv /\ [SbNext]_sbVars => SbInv'
  BY SbInvStep
<1> QED
  BY <1>1, SbInvInit, SbInvIntact, PTL DEF SbSpec
=============================================================================
