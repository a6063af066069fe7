----------------------------- MODULE SeqLemmas -----------------------------
(***************************************************************************)
(* Facts about the folds that the models are written with, for every       *)
(* operator Op and predicate Holds.  A proof takes them with               *)
(*     F == INSTANCE SeqLemmas WITH Op <- ..., Holds <- ...                *)
(* since the provers do not instantiate an operator by themselves.         *)
(***************************************************************************)
EXTENDS ListLemmas

CONSTANTS Op(_, _), Holds(_)

Fold(base, s) == FoldLeft(Op, base, s)

-----------------------------------------------------------------------------
(***************************************************************************)
(* FoldLeft goes over the subsets of the domain and takes the greatest     *)
(* index off each; IsFold says that f is such a function for the first n   *)
(* elements of s.                                                          *)
(***************************************************************************)
IsFold(f, base, s, n) ==
    f = [S \in SUBSET (1 .. n) |->
            IF S = {} THEN base ELSE Op(f[S \ {Max(S)}], s[Max(S)])]

Agree(s, t, n) == \A i \in 1 .. n : s[i] = t[i]
Same(f, g, n)  == \A S \in SUBSET (1 .. n) : f[S] = g[S]

\* The greatest element of a set of indices up to n that has n.
LEMMA MaxOfUpto ==
    ASSUME NEW n \in Nat, NEW S \in SUBSET (1 .. n), n \in S
    PROVE  Max(S) = n
<1>1. \A y \in S : y \in Int /\ n >= y
  OBVIOUS
<1>2. \A x \in S : (\A y \in S : x >= y) => x = n
  BY <1>1
<1>3. n \in S /\ \A y \in S : n >= y
  BY <1>1
<1> QED
  BY <1>2, <1>3 DEF Max

\* Each prefix has such a function.
LEMMA FoldExists ==
    ASSUME NEW base, NEW s, NEW b \in Nat
    PROVE  \E f : IsFold(f, base, s, b)
<1> DEFINE Bad == {n \in 0 .. b : ~ \E f : IsFold(f, base, s, n)}
<1> SUFFICES ASSUME Bad # {} PROVE FALSE
  OBVIOUS
<1>1. Bad \in SUBSET Nat
  OBVIOUS
<1>2. PICK n \in Bad : \A k \in Bad : n <= k
  <2> HIDE DEF Bad
  <2> QED BY <1>1, NatMin
<1>3. n # 0
  <2>1. IsFold([S \in SUBSET (1 .. 0) |-> base], base, s, 0)
    <3>1. \A S \in SUBSET (1 .. 0) : S = {}
      OBVIOUS
    <3> QED BY <3>1 DEF IsFold
  <2> QED BY <2>1, <1>2
<1>4. PICK f : IsFold(f, base, s, n - 1)
  BY <1>2, <1>3
<1> DEFINE g == [S \in SUBSET (1 .. n) |-> IF n \in S THEN Op(f[S \ {n}], s[n]) ELSE f[S]]
<1>5. IsFold(g, base, s, n)
  <2>1. ASSUME NEW S \in SUBSET (1 .. n)
        PROVE  g[S] = IF S = {} THEN base ELSE Op(g[S \ {Max(S)}], s[Max(S)])
    <3>1. CASE n \in S
      <4>1. Max(S) = n
        BY <3>1, <1>2, MaxOfUpto
      <4>2. g[S \ {n}] = f[S \ {n}]
        OBVIOUS
      <4> QED BY <3>1, <4>1, <4>2
    <3>2. CASE n \notin S
      <4>1. S \in SUBSET (1 .. n - 1)
        BY <3>2, <1>2
      <4>2. f[S] = IF S = {} THEN base ELSE Op(f[S \ {Max(S)}], s[Max(S)])
        BY <4>1, <1>4 DEF IsFold
      <4>3. g[S] = f[S] /\ g[S \ {Max(S)}] = f[S \ {Max(S)}]
        BY <3>2
      <4> QED BY <4>2, <4>3
    <3> QED BY <3>1, <3>2
  <2> HIDE DEF g
  <2>2. g = [S \in SUBSET (1 .. n) |-> g[S]]
    BY DEF g
  <2> QED BY <2>1, <2>2 DEF IsFold
<1> QED
  BY <1>2, <1>5

\* Two such functions for sequences that agree up to b agree there.
LEMMA FoldUnique ==
    ASSUME NEW base, NEW s, NEW t, NEW b \in Nat, NEW k \in Nat,
           b <= k, Agree(s, t, b),
           NEW f, IsFold(f, base, s, b), NEW g, IsFold(g, base, t, k)
    PROVE  Same(f, g, b)
<1> DEFINE Bad == {n \in 0 .. b : ~ Same(f, g, n)}
<1>0. b \in 0 .. b
  OBVIOUS
<1> SUFFICES ASSUME Bad # {} PROVE FALSE
  <2>1. ASSUME Bad = {} PROVE Same(f, g, b)
    <3>1. b \notin Bad
      BY <2>1
    <3> QED BY <3>1, <1>0
  <2> QED BY <2>1
<1>1. Bad \in SUBSET Nat
  OBVIOUS
<1>2. PICK n \in Bad : \A j \in Bad : n <= j
  <2> HIDE DEF Bad
  <2> QED BY <1>1, NatMin
<1>3. n \in 0 .. b
  BY <1>2
<1>4. ASSUME NEW S \in SUBSET (1 .. n)
      PROVE  f[S] = g[S]
  <2>1. S \in SUBSET (1 .. b) /\ S \in SUBSET (1 .. k)
    BY <1>3
  <2>2. f[S] = IF S = {} THEN base ELSE Op(f[S \ {Max(S)}], s[Max(S)])
    BY <2>1 DEF IsFold
  <2>3. g[S] = IF S = {} THEN base ELSE Op(g[S \ {Max(S)}], t[Max(S)])
    BY <2>1 DEF IsFold
  <2>4. CASE S = {}
    BY <2>2, <2>3, <2>4
  <2>5. CASE n \in S
    <3>1. Max(S) = n /\ n # 0
      BY <2>5, <1>3, MaxOfUpto
    <3>2. n - 1 \in 0 .. b /\ n - 1 \notin Bad
      <4> HIDE DEF Bad
      <4> QED BY <1>2, <1>3, <3>1
    <3>3. S \ {n} \in SUBSET (1 .. n - 1)
      BY <1>3, <3>1
    <3>4. f[S \ {n}] = g[S \ {n}]
      BY <3>2, <3>3 DEF Same
    <3> QED BY <2>2, <2>3, <2>5, <3>1, <3>4, <1>3 DEF Agree
  <2>6. CASE n \notin S /\ S # {}
    <3>1. n # 0
      <4>1. 1 .. 0 = {}
        OBVIOUS
      <4> QED BY <2>6, <4>1
    <3>2. n - 1 \in 0 .. b /\ n - 1 \notin Bad
      <4> HIDE DEF Bad
      <4> QED BY <1>2, <1>3, <3>1
    <3>3. S \in SUBSET (1 .. n - 1)
      BY <1>3, <2>6
    <3> QED BY <3>2, <3>3 DEF Same
  <2> QED BY <2>4, <2>5, <2>6
<1> QED
  BY <1>2, <1>4 DEF Same

\* What FoldLeft is.
LEMMA FoldIs ==
    ASSUME NEW base, NEW s, NEW n \in Nat, DOMAIN s = 1 .. n,
           NEW f, IsFold(f, base, s, n)
    PROVE  Fold(base, s) = f[1 .. n]
<1> DEFINE c == CHOOSE g : IsFold(g, base, s, n)
<1>1. Fold(base, s) = c[1 .. n]
  BY Zenon DEF Fold, FoldLeft, MapThenFoldSet, IsFold
<1>2. IsFold(c, base, s, n)
  BY Zenon
<1> HIDE DEF c
<1>3. Same(c, f, n)
  <2>1. n <= n /\ Agree(s, s, n)
    BY DEF Agree
  <2> QED BY <1>2, <2>1, FoldUnique
<1> QED
  BY <1>1, <1>3 DEF Same

-----------------------------------------------------------------------------
\* The fold of nothing is its base.
THEOREM FoldEmpty == \A base : Fold(base, <<>>) = base
<1> TAKE base
<1>1. PICK f : IsFold(f, base, <<>>, 0)
  BY FoldExists, Zenon
<1>2. DOMAIN <<>> = 1 .. 0 /\ 1 .. 0 = {} /\ 0 \in Nat
  OBVIOUS
<1>3. Fold(base, <<>>) = f[1 .. 0]
  BY <1>1, <1>2, FoldIs
<1> QED
  BY <1>1, <1>2, <1>3 DEF IsFold

\* A fold takes the last element last.
THEOREM FoldAppend ==
    ASSUME NEW E, NEW s \in Seq(E), NEW x \in E, NEW base
    PROVE  Fold(base, Append(s, x)) = Op(Fold(base, s), x)
<1> DEFINE n == Len(s)
           t == Append(s, x)
<1>1. n \in Nat /\ DOMAIN s = 1 .. n /\ DOMAIN t = 1 .. n + 1 /\ t[n + 1] = x
      /\ \A i \in 1 .. n : s[i] = t[i]
  OBVIOUS
<1> HIDE DEF n, t
<1>2. PICK f : IsFold(f, base, s, n)
  BY <1>1, FoldExists
<1>3. n + 1 \in Nat
  BY <1>1
<1>4. PICK g : IsFold(g, base, t, n + 1)
  BY <1>3, FoldExists
<1>5. f[1 .. n] = g[1 .. n]
  <2>1. Same(f, g, n)
    <3>1. n \in Nat /\ n + 1 \in Nat /\ n <= n + 1
      BY <1>1
    <3>2. Agree(s, t, n)
      BY <1>1 DEF Agree
    <3> QED BY <1>2, <1>4, <3>1, <3>2, FoldUnique
  <2> QED BY <2>1 DEF Same
<1>6. g[1 .. n + 1] = Op(g[1 .. n], x)
  <2> DEFINE S == 1 .. n + 1
  <2>1. n + 1 \in S /\ S # {} /\ S \in SUBSET (1 .. n + 1) /\ S \ {n + 1} = 1 .. n
    <3>1. n \in Nat
      BY <1>1
    <3> QED BY <3>1
  <2> HIDE DEF S
  <2>2. Max(S) = n + 1
    BY <1>3, <2>1, MaxOfUpto
  <2>3. g[S] = Op(g[S \ {Max(S)}], t[Max(S)])
    BY <1>4, <2>1 DEF IsFold
  <2> QED BY <2>1, <2>2, <2>3, <1>1 DEF S
<1>7. Fold(base, s) = f[1 .. n]
  BY <1>1, <1>2, FoldIs
<1>8. Fold(base, t) = g[1 .. n + 1]
  BY <1>1, <1>3, <1>4, FoldIs
<1> QED
  BY <1>5, <1>6, <1>7, <1>8 DEF t

\* The fold of a prefix, from that of the prefix before it.
THEOREM FoldPrefix ==
    ASSUME NEW E, NEW s \in Seq(E), NEW base, NEW i \in 0 .. Len(s) - 1
    PROVE  Fold(base, SubSeq(s, 1, i + 1)) = Op(Fold(base, SubSeq(s, 1, i)), s[i + 1])
<1>1. SubSeq(s, 1, i) \in Seq(E) /\ s[i + 1] \in E
  OBVIOUS
<1>2. SubSeq(s, 1, i + 1) = Append(SubSeq(s, 1, i), s[i + 1])
  OBVIOUS
<1> QED
  BY <1>1, <1>2, FoldAppend

\* A fold may take the first element first.
THEOREM FoldHead ==
    ASSUME NEW E, NEW s \in Seq(E), s # <<>>, NEW base
    PROVE  Fold(base, s) = Fold(Op(base, s[1]), Tail(s))
<1> DEFINE t == Tail(s)
           b == Op(base, s[1])
           Bad == {n \in 0 .. Len(t) : Fold(base, SubSeq(s, 1, n + 1)) # Fold(b, SubSeq(t, 1, n))}
<1>1. /\ t \in Seq(E) /\ Len(t) + 1 = Len(s) /\ Len(t) \in Nat
      /\ \A i \in 1 .. Len(t) : t[i] = s[i + 1]
  OBVIOUS
<1> HIDE DEF t
<1>2. /\ SubSeq(s, 1, Len(s)) = s /\ SubSeq(t, 1, Len(t)) = t
      /\ SubSeq(s, 1, 0) = <<>> /\ SubSeq(t, 1, 0) = <<>>
  BY <1>1
<1>3. Len(t) \in 0 .. Len(t)
  BY <1>1
<1> SUFFICES ASSUME Bad # {} PROVE FALSE
  <2>1. ASSUME Bad = {} PROVE Fold(base, s) = Fold(b, t)
    <3>1. Len(t) \notin Bad
      BY <2>1
    <3>2. Fold(base, SubSeq(s, 1, Len(t) + 1)) = Fold(b, SubSeq(t, 1, Len(t)))
      BY <3>1, <1>3
    <3> QED BY <3>2, <1>1, <1>2
  <2> QED BY <2>1 DEF t
<1>4. Bad \in SUBSET Nat
  OBVIOUS
<1>5. PICK n \in Bad : \A j \in Bad : n <= j
  <2> HIDE DEF Bad
  <2> QED BY <1>4, NatMin
<1>6. n \in 0 .. Len(t) /\ Fold(base, SubSeq(s, 1, n + 1)) # Fold(b, SubSeq(t, 1, n))
  BY <1>5
<1>7. Fold(base, SubSeq(s, 1, n + 1)) = Op(Fold(base, SubSeq(s, 1, n)), s[n + 1])
  <2>1. n \in 0 .. Len(s) - 1
    BY <1>1, <1>6
  <2> QED BY <2>1, FoldPrefix
<1>8. CASE n = 0
  <2>1. Fold(base, SubSeq(s, 1, n)) = base /\ Fold(b, SubSeq(t, 1, n)) = b
    BY <1>2, <1>8, FoldEmpty
  <2> QED BY <2>1, <1>6, <1>7, <1>8
<1>9. CASE n # 0
  <2>1. n - 1 \in 0 .. Len(t) /\ n - 1 \notin Bad /\ (n - 1) + 1 = n /\ n \in 1 .. Len(t)
        /\ n - 1 \in 0 .. Len(t) - 1
    <3> HIDE DEF Bad
    <3> QED BY <1>5, <1>6, <1>9
  <2>2. Fold(base, SubSeq(s, 1, n)) = Fold(b, SubSeq(t, 1, n - 1))
    BY <2>1
  <2>3. Fold(b, SubSeq(t, 1, (n - 1) + 1)) = Op(Fold(b, SubSeq(t, 1, n - 1)), t[(n - 1) + 1])
    BY <1>1, <2>1, FoldPrefix
  <2> QED BY <1>1, <1>6, <1>7, <2>1, <2>2, <2>3
<1> QED
  BY <1>8, <1>9

\* What holds of the base and is kept by every element holds of the fold.
THEOREM FoldHolds ==
    ASSUME NEW E, NEW s \in Seq(E), NEW base, Holds(base),
           \A i \in 1 .. Len(s) : \A a : Holds(a) => Holds(Op(a, s[i]))
    PROVE  Holds(Fold(base, s))
<1> DEFINE Bad == {n \in 0 .. Len(s) : ~ Holds(Fold(base, SubSeq(s, 1, n)))}
<1>1. SubSeq(s, 1, Len(s)) = s /\ SubSeq(s, 1, 0) = <<>> /\ Len(s) \in 0 .. Len(s)
  OBVIOUS
<1> SUFFICES ASSUME Bad # {} PROVE FALSE
  <2>1. ASSUME Bad = {} PROVE Holds(Fold(base, s))
    <3>1. Len(s) \notin Bad
      BY <2>1
    <3> QED BY <3>1, <1>1
  <2> QED BY <2>1
<1>2. Bad \in SUBSET Nat
  OBVIOUS
<1>3. PICK n \in Bad : \A j \in Bad : n <= j
  <2> HIDE DEF Bad
  <2> QED BY <1>2, NatMin
<1>4. n \in 0 .. Len(s) /\ ~ Holds(Fold(base, SubSeq(s, 1, n)))
  BY <1>3
<1>5. n # 0
  BY <1>1, <1>4, FoldEmpty
<1>6. n - 1 \in 0 .. Len(s) - 1 /\ n - 1 \in 0 .. Len(s) /\ n - 1 \notin Bad
  <2> HIDE DEF Bad
  <2> QED BY <1>3, <1>4, <1>5
<1>7. Holds(Fold(base, SubSeq(s, 1, n - 1)))
  BY <1>6
<1>8. Fold(base, SubSeq(s, 1, (n - 1) + 1)) = Op(Fold(base, SubSeq(s, 1, n - 1)), s[(n - 1) + 1])
  BY <1>6, FoldPrefix
<1>9. (n - 1) + 1 = n /\ n \in 1 .. Len(s)
  BY <1>4, <1>5
<1> QED
  BY <1>4, <1>7, <1>8, <1>9

\* The same for a set of results.
THEOREM FoldIn ==
    ASSUME NEW E, NEW s \in Seq(E), NEW H, NEW base \in H,
           \A i \in 1 .. Len(s) : \A a \in H : Op(a, s[i]) \in H
    PROVE  Fold(base, s) \in H
<1> DEFINE Bad == {n \in 0 .. Len(s) : Fold(base, SubSeq(s, 1, n)) \notin H}
<1>1. SubSeq(s, 1, Len(s)) = s /\ SubSeq(s, 1, 0) = <<>> /\ Len(s) \in 0 .. Len(s)
  OBVIOUS
<1> SUFFICES ASSUME Bad # {} PROVE FALSE
  <2>1. ASSUME Bad = {} PROVE Fold(base, s) \in H
    <3>1. Len(s) \notin Bad
      BY <2>1
    <3> QED BY <3>1, <1>1
  <2> QED BY <2>1
<1>2. Bad \in SUBSET Nat
  OBVIOUS
<1>3. PICK n \in Bad : \A j \in Bad : n <= j
  <2> HIDE DEF Bad
  <2> QED BY <1>2, NatMin
<1>4. n \in 0 .. Len(s) /\ Fold(base, SubSeq(s, 1, n)) \notin H
  BY <1>3
<1>5. n # 0
  BY <1>1, <1>4, FoldEmpty
<1>6. n - 1 \in 0 .. Len(s) - 1 /\ n - 1 \in 0 .. Len(s) /\ n - 1 \notin Bad
  <2> HIDE DEF Bad
  <2> QED BY <1>3, <1>4, <1>5
<1>7. Fold(base, SubSeq(s, 1, n - 1)) \in H
  BY <1>6
<1>8. Fold(base, SubSeq(s, 1, (n - 1) + 1)) = Op(Fold(base, SubSeq(s, 1, n - 1)), s[(n - 1) + 1])
  BY <1>6, FoldPrefix
<1>9. (n - 1) + 1 = n /\ n \in 1 .. Len(s)
  BY <1>4, <1>5
<1> QED
  BY <1>4, <1>7, <1>8, <1>9

\* The same for a set of results after each number of elements.
THEOREM FoldThrough ==
    ASSUME NEW E, NEW s \in Seq(E), NEW H, NEW base, base \in H[0],
           \A i \in 1 .. Len(s) : \A a \in H[i - 1] : Op(a, s[i]) \in H[i]
    PROVE  Fold(base, s) \in H[Len(s)]
<1> DEFINE Bad == {n \in 0 .. Len(s) : Fold(base, SubSeq(s, 1, n)) \notin H[n]}
<1>1. SubSeq(s, 1, Len(s)) = s /\ SubSeq(s, 1, 0) = <<>> /\ Len(s) \in 0 .. Len(s)
  OBVIOUS
<1> SUFFICES ASSUME Bad # {} PROVE FALSE
  <2>1. ASSUME Bad = {} PROVE Fold(base, s) \in H[Len(s)]
    <3>1. Len(s) \notin Bad
      BY <2>1
    <3> QED BY <3>1, <1>1
  <2> QED BY <2>1
<1>2. Bad \in SUBSET Nat
  OBVIOUS
<1>3. PICK n \in Bad : \A j \in Bad : n <= j
  <2> HIDE DEF Bad
  <2> QED BY <1>2, NatMin
<1>4. n \in 0 .. Len(s) /\ Fold(base, SubSeq(s, 1, n)) \notin H[n]
  BY <1>3
<1>5. n # 0
  BY <1>1, <1>4, FoldEmpty
<1>6. n - 1 \in 0 .. Len(s) - 1 /\ n - 1 \in 0 .. Len(s) /\ n - 1 \notin Bad
  <2> HIDE DEF Bad
  <2> QED BY <1>3, <1>4, <1>5
<1>7. Fold(base, SubSeq(s, 1, n - 1)) \in H[n - 1]
  BY <1>6
<1>8. Fold(base, SubSeq(s, 1, (n - 1) + 1)) = Op(Fold(base, SubSeq(s, 1, n - 1)), s[(n - 1) + 1])
  BY <1>6, FoldPrefix
<1>9. (n - 1) + 1 = n /\ n \in 1 .. Len(s)
  BY <1>4, <1>5
<1> QED
  BY <1>4, <1>7, <1>8, <1>9

\* A fold over two lists, one after the other.
THEOREM FoldConcat ==
    ASSUME NEW E, NEW s \in Seq(E), NEW t \in Seq(E), NEW base
    PROVE  Fold(base, s \o t) = Fold(Fold(base, s), t)
<1> DEFINE H == [i \in 0 .. Len(t) |-> {Fold(base, s \o SubSeq(t, 1, i))}]
           c == Fold(base, s)
<1>1. SubSeq(t, 1, Len(t)) = t /\ s \o SubSeq(t, 1, 0) = s /\ Len(t) \in 0 .. Len(t) /\ 0 \in 0 .. Len(t)
  OBVIOUS
<1>2. c \in H[0]
  BY <1>1
<1>3. ASSUME NEW i \in 1 .. Len(t), NEW a \in H[i - 1]
      PROVE  Op(a, t[i]) \in H[i]
  <2>1. i - 1 \in 0 .. Len(t) /\ i \in 0 .. Len(t) /\ s \o SubSeq(t, 1, i - 1) \in Seq(E) /\ t[i] \in E
    OBVIOUS
  <2>2. s \o SubSeq(t, 1, i) = Append(s \o SubSeq(t, 1, i - 1), t[i])
    OBVIOUS
  <2>3. a = Fold(base, s \o SubSeq(t, 1, i - 1))
    BY <1>3, <2>1
  <2>4. Fold(base, s \o SubSeq(t, 1, i)) = Op(a, t[i])
    BY <2>1, <2>2, <2>3, FoldAppend
  <2> QED BY <2>1, <2>4
<1>4. Fold(c, t) \in H[Len(t)]
  <2> HIDE DEF H, c
  <2> QED BY <1>2, <1>3, FoldThrough
<1> QED
  BY <1>1, <1>4
=============================================================================
