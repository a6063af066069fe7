----------------------------- MODULE LcpProofs -----------------------------
(***************************************************************************)
(* Proofs about the options of LCP (LcpOptions, LcpNegotiation), for every *)
(* pair of configurations, all values of the options and every limit of    *)
(* the counters.                                                           *)
(***************************************************************************)
EXTENDS LcpNegotiation, ListLemmas, TLAPS

AnyAnswer(x) == TRUE

\* The request and the answer, as they are put together.
Adding  == INSTANCE SeqLemmas WITH Op <- AddOption, Holds <- AnyAnswer
Judging == INSTANCE SeqLemmas WITH Op <- JudgeNext, Holds <- AnyAnswer

-----------------------------------------------------------------------------
(***************************************************************************)
(* Option structures and requests.                                         *)
(***************************************************************************)
Digests == {"md5", "other"}

LcpOpt ==
    [neg : SUBSET Negotiable, mru : Nat, asyncmap : SUBSET Chars, mdtype : Digests, magic : Magic]

LEMMA OrderIs ==
    /\ Order \in Seq(Negotiable) /\ Len(Order) = 8
    /\ \A i \in 1 .. 8 : Order[i] \in Negotiable
    /\ \A i, j \in 1 .. 8 : Order[i] = Order[j] => i = j
    /\ \A opt \in Negotiable : \E i \in 1 .. 8 : Order[i] = opt
<1>1. Order \in Seq(Negotiable) /\ Len(Order) = 8
  BY DEF Order, Negotiable
<1>2. /\ Order[1] = "mru" /\ Order[2] = "asyncmap" /\ Order[3] = "chap" /\ Order[4] = "upap"
      /\ Order[5] = "lqr" /\ Order[6] = "magic" /\ Order[7] = "pcomp" /\ Order[8] = "accomp"
  BY DEF Order
<1>3. \A i \in 1 .. 8 : i = 1 \/ i = 2 \/ i = 3 \/ i = 4 \/ i = 5 \/ i = 6 \/ i = 7 \/ i = 8
  OBVIOUS
<1>4. \A i \in 1 .. 8 : Order[i] \in Negotiable
  BY <1>2, <1>3 DEF Negotiable
<1>5. \A i, j \in 1 .. 8 : Order[i] = Order[j] => i = j
  BY <1>2, <1>3
<1>6. \A opt \in Negotiable : \E i \in 1 .. 8 : Order[i] = opt
  BY <1>2 DEF Negotiable
<1> QED
  BY <1>1, <1>4, <1>5, <1>6

\* What o may ask for.
Req(o) == {Asking(o, opt) : opt \in Negotiable}

Rising(p) == \A i, j \in 1 .. Len(p) : i < j => p[i] < p[j]

\* s asks for options that o asks for, in the order of their places p, none
\* behind the n-th.
Lists(o, s, p, n) ==
    /\ p \in Seq(1 .. n) /\ Rising(p) /\ s \in Seq(Req(o)) /\ Len(s) = Len(p)
    /\ \A i \in 1 .. Len(p) : Asked(o, Order[p[i]]) /\ s[i] = Asking(o, Order[p[i]])

\* It has all of the first n.
Full(o, p, n) == \A k \in 1 .. n : Asked(o, Order[k]) => \E i \in 1 .. Len(p) : p[i] = k

LEMMA ListsNone == \A o : Lists(o, <<>>, <<>>, 0)
  BY DEF Lists, Rising

LEMMA ListsLater ==
    ASSUME NEW o, NEW s, NEW p, NEW m \in Nat, Lists(o, s, p, m), NEW n \in Nat, m <= n
    PROVE  Lists(o, s, p, n)
<1>1. 1 .. m \subseteq 1 .. n
  OBVIOUS
<1>2. p \in Seq(1 .. m)
  BY DEF Lists
<1>3. p \in Seq(1 .. n)
  <2> DEFINE A == 1 .. m
             B == 1 .. n
  <2>1. A \subseteq B /\ p \in Seq(A)
    BY <1>1, <1>2
  <2> HIDE DEF A, B
  <2>2. p \in Seq(B)
    BY <2>1
  <2> QED BY <2>2 DEF B
<1> QED
  BY <1>3 DEF Lists

LEMMA ListsAppend ==
    ASSUME NEW o, NEW s, NEW p, NEW m \in 0 .. 8, Lists(o, s, p, m), NEW k \in 1 .. 8, m < k, Asked(o, Order[k])
    PROVE  Lists(o, Append(s, Asking(o, Order[k])), Append(p, k), k)
<1> DEFINE x == Asking(o, Order[k])
           t == Append(s, x)
           q == Append(p, k)
           S == Req(o)
           n == Len(p)
<1>1. Lists(o, s, p, k)
  BY ListsLater
<1>2. p \in Seq(1 .. k) /\ s \in Seq(S) /\ n \in Nat /\ Len(s) = n
  BY <1>1 DEF Lists
<1>3. x \in S
  BY OrderIs DEF Req
<1> HIDE DEF x, S
<1>4. q \in Seq(1 .. k) /\ Len(q) = n + 1 /\ q[n + 1] = k /\ \A i \in 1 .. n : q[i] = p[i]
  BY <1>2
<1>5. t \in Seq(S) /\ Len(t) = n + 1 /\ t[n + 1] = x /\ \A i \in 1 .. n : t[i] = s[i]
  BY <1>2, <1>3
<1>6. \A i \in 1 .. n : p[i] \in 1 .. m
  BY DEF Lists
<1>7. \A i \in 1 .. n : Asked(o, Order[p[i]]) /\ s[i] = Asking(o, Order[p[i]])
  BY DEF Lists
<1>8. Rising(p)
  BY DEF Lists
<1> HIDE DEF t, q, n
<1>9. Rising(q)
  <2> SUFFICES ASSUME NEW i \in 1 .. n + 1, NEW j \in 1 .. n + 1, i < j PROVE q[i] < q[j]
    BY <1>4 DEF Rising
  <2>1. i \in 1 .. n
    BY <1>2
  <2>2. CASE j = n + 1
    BY <1>4, <1>6, <2>1, <2>2
  <2>3. CASE j # n + 1
    <3>1. j \in 1 .. n
      BY <1>2, <2>3
    <3> QED BY <1>4, <1>8, <2>1, <3>1 DEF Rising, n
  <2> QED BY <2>2, <2>3
<1>10. \A i \in 1 .. n + 1 : Asked(o, Order[q[i]]) /\ t[i] = Asking(o, Order[q[i]])
  <2> TAKE i \in 1 .. n + 1
  <2>1. CASE i = n + 1
    BY <1>4, <1>5, <2>1 DEF x
  <2>2. CASE i # n + 1
    <3>1. i \in 1 .. n
      BY <1>2, <2>2
    <3> QED BY <1>4, <1>5, <1>7, <3>1
  <2> QED BY <2>1, <2>2
<1> QED
  BY <1>4, <1>5, <1>9, <1>10 DEF Lists, q, t, x, S

\* What AddOption puts together.
Building(o) == [o : {o}, s : Seq(Req(o))]

LEMMA AddOptionIs ==
    ASSUME NEW o, NEW z \in Building(o), NEW opt \in Negotiable
    PROVE  /\ AddOption(z, opt) \in Building(o)
           /\ AddOption(z, opt).s = IF Asked(o, opt) THEN Append(z.s, Asking(o, opt)) ELSE z.s
<1> DEFINE S == Req(o)
           x == Asking(o, opt)
           t == Append(z.s, x)
<1>1. z.o = o /\ z.s \in Seq(S) /\ x \in S /\ z \in [o : {o}, s : Seq(S)]
  BY DEF Building, Req
<1>2. AddOption(z, opt) = IF Asked(o, opt) THEN [z EXCEPT !.s = t] ELSE z
  BY <1>1 DEF AddOption
<1> HIDE DEF S, x
<1>3. t \in Seq(S)
  BY <1>1
<1> HIDE DEF t
<1>4. [z EXCEPT !.s = t] \in [o : {o}, s : Seq(S)] /\ [z EXCEPT !.s = t].s = t
  BY <1>1, <1>3
<1> QED
  BY <1>1, <1>2, <1>4 DEF Building, S, t, x

LEMMA AddingIs ==
    ASSUME NEW o
    PROVE  /\ [o |-> o, s |-> <<>>] \in Building(o)
           /\ lcp_addci(o) = Adding!Fold([o |-> o, s |-> <<>>], Order).s
<1>1. [o |-> o, s |-> <<>>] \in Building(o)
  <2> DEFINE S == Req(o)
  <2>1. <<>> \in Seq(S)
    OBVIOUS
  <2> QED BY <2>1 DEF Building
<1> DEFINE base == [o |-> o, s |-> <<>>]
<1>2. lcp_addci(o) = FoldLeft(AddOption, base, Order).s
  BY DEF lcp_addci
<1> HIDE DEF base
<1>3. Adding!Fold(base, Order) = FoldLeft(AddOption, base, Order)
  BY Zenon DEF Adding!Fold, FoldLeft, Adding!FoldLeft, MapThenFoldSet,
               Adding!MapThenFoldSet, Max, Adding!Max
<1> QED
  BY <1>1, <1>2, <1>3 DEF base

\* The request of o: the options that it asks for, all of them, in their order.
LEMMA RequestLists ==
    ASSUME NEW o
    PROVE  \E p : Lists(o, lcp_addci(o), p, 8) /\ Full(o, p, 8)
<1> DEFINE Good(s, n) == \E p : Lists(o, s, p, n) /\ Full(o, p, n)
           H == [n \in 0 .. 8 |-> {z \in Building(o) : Good(z.s, n)}]
           base == [o |-> o, s |-> <<>>]
<1>1. base \in H[0]
  <2>1. Good(<<>>, 0)
    BY ListsNone DEF Full
  <2>2. base \in Building(o) /\ base.s = <<>>
    BY AddingIs
  <2> HIDE DEF Good, base
  <2> QED BY <2>1, <2>2
<1>2. ASSUME NEW i \in 1 .. 8, NEW z \in H[i - 1] PROVE AddOption(z, Order[i]) \in H[i]
  <2> DEFINE opt == Order[i]
             y == AddOption(z, opt)
  <2>1. z \in Building(o) /\ Good(z.s, i - 1)
    <3> HIDE DEF Good
    <3> QED OBVIOUS
  <2>2. PICK p : Lists(o, z.s, p, i - 1) /\ Full(o, p, i - 1)
    BY <2>1
  <2>3. opt \in Negotiable /\ i - 1 \in 0 .. 8 /\ i - 1 < i
    BY OrderIs
  <2>4. y \in Building(o) /\ y.s = IF Asked(o, opt) THEN Append(z.s, Asking(o, opt)) ELSE z.s
    <3> HIDE DEF opt
    <3> QED BY <2>1, <2>3, AddOptionIs
  <2>5. CASE Asked(o, opt)
    <3> DEFINE q == Append(p, i)
    <3>1. Lists(o, y.s, q, i)
      BY <2>2, <2>3, <2>4, <2>5, ListsAppend
    <3>2. p \in Seq(1 .. i - 1)
      BY <2>2 DEF Lists
    <3>3. Len(q) = Len(p) + 1 /\ q[Len(p) + 1] = i /\ (\A k \in 1 .. Len(p) : q[k] = p[k]) /\ Len(p) \in Nat
      BY <3>2
    <3> HIDE DEF q
    <3>4. Full(o, q, i)
      <4> SUFFICES ASSUME NEW k \in 1 .. i, Asked(o, Order[k]) PROVE \E j \in 1 .. Len(q) : q[j] = k
        BY DEF Full
      <4>1. CASE k = i
        BY <3>3, <4>1
      <4>2. CASE k # i
        <5>1. k \in 1 .. i - 1
          BY <4>2
        <5>2. PICK j \in 1 .. Len(p) : p[j] = k
          BY <2>2, <5>1 DEF Full
        <5> QED BY <3>3, <5>2
      <4> QED BY <4>1, <4>2
    <3>5. Good(y.s, i)
      BY <3>1, <3>4
    <3> HIDE DEF Good, y
    <3> QED BY <2>4, <3>5 DEF y
  <2>6. CASE ~Asked(o, opt)
    <3>1. Lists(o, y.s, p, i)
      BY <2>2, <2>3, <2>4, <2>6, ListsLater
    <3>2. Full(o, p, i)
      BY <2>2, <2>6 DEF Full
    <3>3. Good(y.s, i)
      BY <3>1, <3>2
    <3> HIDE DEF Good, y
    <3> QED BY <2>4, <3>3 DEF y
  <2> QED BY <2>5, <2>6
<1>3. H[8] = {z \in Building(o) : Good(z.s, 8)}
  OBVIOUS
<1> HIDE DEF H, base
<1>4. Adding!Fold(base, Order) \in H[8]
  <2>1. Order \in Seq(Negotiable) /\ Len(Order) = 8
    BY OrderIs
  <2> QED BY <1>1, <1>2, <2>1, Adding!FoldThrough
<1>5. Good(lcp_addci(o), 8)
  <2> HIDE DEF Good
  <2> QED BY <1>3, <1>4, AddingIs DEF base
<1> QED
  BY <1>5

\* Structures that ask for the same options in the same way make the same
\* request.
LEMMA SameRequest ==
    ASSUME NEW o1, NEW o2, \A opt \in Negotiable : Asked(o1, opt) <=> Asked(o2, opt),
           \A opt \in Negotiable : Asked(o1, opt) => Asking(o1, opt) = Asking(o2, opt)
    PROVE  lcp_addci(o1) = lcp_addci(o2)
<1> DEFINE b1 == [o |-> o1, s |-> <<>>]
           b2 == [o |-> o2, s |-> <<>>]
           F(n) == Adding!Fold(b1, SubSeq(Order, 1, n))
           H == [n \in 0 .. 8 |-> {z \in Building(o2) : z.s = F(n).s /\ F(n) \in Building(o1)}]
<1>1. Order \in Seq(Negotiable) /\ Len(Order) = 8 /\ SubSeq(Order, 1, 0) = <<>> /\ SubSeq(Order, 1, 8) = Order
  BY OrderIs
<1>2. b1 \in Building(o1) /\ b2 \in Building(o2) /\ b1.s = <<>> /\ b2.s = <<>>
  BY AddingIs
<1> HIDE DEF b1, b2
<1>3. b2 \in H[0]
  <2>1. F(0) = b1
    BY <1>1, Adding!FoldEmpty
  <2> HIDE DEF F
  <2> QED BY <1>2, <2>1
<1>4. ASSUME NEW i \in 1 .. 8, NEW z \in H[i - 1] PROVE AddOption(z, Order[i]) \in H[i]
  <2> DEFINE opt == Order[i]
             y == AddOption(z, opt)
  <2>1. i - 1 \in 0 .. 8 /\ i - 1 \in 0 .. Len(Order) - 1 /\ (i - 1) + 1 = i
    BY <1>1
  <2>2. F(i) = AddOption(F(i - 1), opt)
    BY <1>1, <2>1, Adding!FoldPrefix
  <2>3. opt \in Negotiable
    BY OrderIs
  <2> HIDE DEF F
  <2>4. z \in Building(o2) /\ z.s = F(i - 1).s /\ F(i - 1) \in Building(o1)
    BY <2>1
  <2> HIDE DEF opt
  <2>5. y \in Building(o2) /\ y.s = IF Asked(o2, opt) THEN Append(z.s, Asking(o2, opt)) ELSE z.s
    BY <2>3, <2>4, AddOptionIs
  <2>6. F(i) \in Building(o1) /\ F(i).s = IF Asked(o1, opt) THEN Append(F(i - 1).s, Asking(o1, opt)) ELSE F(i - 1).s
    BY <2>2, <2>3, <2>4, AddOptionIs
  <2>7. y.s = F(i).s
    BY <2>3, <2>4, <2>5, <2>6
  <2> HIDE DEF y
  <2> QED BY <2>5, <2>6, <2>7 DEF y, opt
<1>5. H[8] = {z \in Building(o2) : z.s = F(8).s /\ F(8) \in Building(o1)}
  <2> HIDE DEF F
  <2> QED OBVIOUS
<1> HIDE DEF H
<1>6. Adding!Fold(b2, Order) \in H[8]
  BY <1>1, <1>3, <1>4, Adding!FoldThrough
<1>7. F(8) = Adding!Fold(b1, Order)
  BY <1>1
<1> HIDE DEF F
<1> QED
  BY <1>5, <1>6, <1>7, AddingIs DEF b1, b2

-----------------------------------------------------------------------------
(***************************************************************************)
(* The verdict on one option.                                              *)
(***************************************************************************)
LcpVerdicts == {"CONFACK", "CONFNAK", "CONFREJ"}

\* What a Nak may propose.
Hints ==
    {CI("AUTHTYPE", CHAP("md5")), CI("AUTHTYPE", CHAP("other")), CI("AUTHTYPE", UPAP), CI("QUALITY", <<"LQR">>)}
        \cup {CI("MAGICNUMBER", g) : g \in Magic}

\* The verdict j on the option opt of go, with the options ho known so far.
VerdictOK(go0, ho0, opt, j) ==
    /\ j.orc \in LcpVerdicts /\ j.ho \in LcpOpt /\ j.hint \in Seq(Hints)
    /\ j.orc = "CONFACK" =>
         /\ j.ho.neg = ho0.neg \cup ({opt} \ {"lqr"})
         /\ opt # "lqr" => Asking(j.ho, opt) = Asking(go0, opt)
         /\ \A x \in Negotiable \ {opt} : Asking(j.ho, x) = Asking(ho0, x)
         /\ j.hint = <<>>

LEMMA HintsIn ==
    /\ \A m \in Digests : CI("AUTHTYPE", CHAP(m)) \in Hints
    /\ CI("AUTHTYPE", UPAP) \in Hints /\ CI("QUALITY", <<"LQR">>) \in Hints
    /\ \A g \in Magic : CI("MAGICNUMBER", g) \in Hints
    /\ \A c \in Hints : c.type \in {"AUTHTYPE", "QUALITY", "MAGICNUMBER"}
<1> DEFINE C(m) == CI("AUTHTYPE", CHAP(m))
           u == CI("AUTHTYPE", UPAP)
           l == CI("QUALITY", <<"LQR">>)
           M(g) == CI("MAGICNUMBER", g)
<1>1. Hints = {C("md5"), C("other"), u, l} \cup {M(g) : g \in Magic}
  BY DEF Hints
<1>2. (\A m : C(m).type = "AUTHTYPE") /\ u.type = "AUTHTYPE" /\ l.type = "QUALITY"
      /\ \A g : M(g).type = "MAGICNUMBER"
  BY DEF CI
<1> HIDE DEF C, u, l, M
<1>3. /\ \A m \in Digests : C(m) \in Hints
      /\ u \in Hints /\ l \in Hints /\ \A g \in Magic : M(g) \in Hints
  BY <1>1 DEF Digests
<1>4. \A c \in Hints : c.type \in {"AUTHTYPE", "QUALITY", "MAGICNUMBER"}
  BY <1>1, <1>2
<1> QED
  BY <1>3, <1>4 DEF C, u, l, M

LEMMA RefuseOK ==
    ASSUME NEW o, NEW h \in LcpOpt, NEW opt
    PROVE  VerdictOK(o, h, opt, Refuse(h))
<1> DEFINE S == Hints
<1>1. <<>> \in Seq(S)
  OBVIOUS
<1> QED
  BY <1>1 DEF VerdictOK, Refuse, LcpVerdicts

LEMMA ProposeOK ==
    ASSUME NEW o, NEW h \in LcpOpt, NEW opt, NEW q, q = <<>> \/ \E c \in Hints : q = <<c>>
    PROVE  VerdictOK(o, h, opt, Propose(h, q))
<1> DEFINE S == Hints
<1>1. q \in Seq(S)
  <2> HIDE DEF S
  <2>1. q = <<>> \/ \E c \in S : q = <<c>>
    BY DEF S
  <2>2. <<>> \in Seq(S)
    OBVIOUS
  <2>3. ASSUME NEW c \in S PROVE <<c>> \in Seq(S)
    OBVIOUS
  <2> QED BY <2>1, <2>2, <2>3
<1> QED
  BY <1>1 DEF VerdictOK, Propose, LcpVerdicts

LEMMA AcceptOK ==
    ASSUME NEW o, NEW h \in LcpOpt, NEW opt, NEW k \in LcpOpt,
           k.neg = h.neg \cup ({opt} \ {"lqr"}),
           opt # "lqr" => Asking(k, opt) = Asking(o, opt),
           \A x \in Negotiable \ {opt} : Asking(k, x) = Asking(h, x)
    PROVE  VerdictOK(o, h, opt, Accept(k))
<1> DEFINE S == Hints
<1>1. <<>> \in Seq(S)
  OBVIOUS
<1> QED
  BY <1>1 DEF VerdictOK, Accept, LcpVerdicts

\* What the structures have that are made of ho.
LEMMA LcpFields ==
    ASSUME NEW h \in LcpOpt, NEW n \in SUBSET Negotiable, NEW m \in Nat, NEW a \in SUBSET Chars,
           NEW d \in Digests, NEW g \in Magic
    PROVE  /\ [h EXCEPT !.neg = n] \in LcpOpt /\ [h EXCEPT !.neg = n].neg = n
           /\ [h EXCEPT !.neg = n, !.mru = m] \in LcpOpt
           /\ [h EXCEPT !.neg = n, !.asyncmap = a] \in LcpOpt
           /\ [h EXCEPT !.neg = n, !.mdtype = d] \in LcpOpt
           /\ [h EXCEPT !.neg = n, !.magic = g] \in LcpOpt
  BY DEF LcpOpt

\* The fields of an option structure but neg.
SameValues(h, k) == k.mru = h.mru /\ k.asyncmap = h.asyncmap /\ k.mdtype = h.mdtype /\ k.magic = h.magic

LEMMA AskingSame ==
    ASSUME NEW h, NEW k, SameValues(h, k), NEW opt
    PROVE  Asking(k, opt) = Asking(h, opt)
  BY DEF Asking, SameValues

\* One case for each option.
LEMMA JudgeMru ==
    ASSUME NEW a \in LcpOpt, NEW e \in LcpOpt, NEW h \in LcpOpt, NEW o \in LcpOpt, NEW fresh \in Magic
    PROVE  VerdictOK(o, h, "mru", Judge(a, e, h, Asking(o, "mru"), fresh))
<1> DEFINE opt == "mru"
           c == Asking(o, opt)
           n == h.neg \cup {"mru"}
           k == [h EXCEPT !.neg = n, !.mru = c.val]
           j == Judge(a, e, h, c, fresh)
<1>1. c.type = "MRU" /\ c.val = o.mru /\ o.mru \in Nat
  BY DEF Asking, CI, TypeOf, LcpOpt
<1>2. j = Refuse(h) \/ j = Propose(h, <<>>) \/ j = Accept(k)
  BY <1>1 DEF Judge
<1>3. n \in SUBSET Negotiable
  BY DEF LcpOpt, Negotiable
<1> HIDE DEF c, n, j
<1>4. /\ k \in LcpOpt /\ k.neg = n /\ k.mru = o.mru
      /\ k.asyncmap = h.asyncmap /\ k.mdtype = h.mdtype /\ k.magic = h.magic
  BY <1>1, <1>3 DEF LcpOpt
<1> HIDE DEF k
<1>5. Asking(k, opt) = Asking(o, opt)
  BY <1>4 DEF Asking
<1>6. \A x \in Negotiable \ {opt} : Asking(k, x) = Asking(h, x)
  BY <1>4 DEF Asking, Negotiable
<1>7. VerdictOK(o, h, opt, Accept(k))
  BY <1>4, <1>5, <1>6, AcceptOK DEF n
<1> QED
  BY <1>2, <1>7, RefuseOK, ProposeOK DEF j, c

LEMMA JudgeAsyncmap ==
    ASSUME NEW a \in LcpOpt, NEW e \in LcpOpt, NEW h \in LcpOpt, NEW o \in LcpOpt, NEW fresh \in Magic
    PROVE  VerdictOK(o, h, "asyncmap", Judge(a, e, h, Asking(o, "asyncmap"), fresh))
<1> DEFINE opt == "asyncmap"
           c == Asking(o, opt)
           n == h.neg \cup {"asyncmap"}
           k == [h EXCEPT !.neg = n, !.asyncmap = c.val]
           j == Judge(a, e, h, c, fresh)
<1>1. c.type = "ASYNCMAP" /\ c.val = o.asyncmap /\ o.asyncmap \in SUBSET Chars
  BY DEF Asking, CI, TypeOf, LcpOpt
<1>2. j = Refuse(h) \/ j = Propose(h, <<>>) \/ j = Accept(k)
  BY <1>1 DEF Judge
<1>3. n \in SUBSET Negotiable
  BY DEF LcpOpt, Negotiable
<1> HIDE DEF c, n, j
<1>4. /\ k \in LcpOpt /\ k.neg = n /\ k.asyncmap = o.asyncmap
      /\ k.mru = h.mru /\ k.mdtype = h.mdtype /\ k.magic = h.magic
  BY <1>1, <1>3 DEF LcpOpt
<1> HIDE DEF k
<1>5. Asking(k, opt) = Asking(o, opt)
  BY <1>4 DEF Asking
<1>6. \A x \in Negotiable \ {opt} : Asking(k, x) = Asking(h, x)
  BY <1>4 DEF Asking, Negotiable
<1>7. VerdictOK(o, h, opt, Accept(k))
  BY <1>4, <1>5, <1>6, AcceptOK DEF n
<1> QED
  BY <1>2, <1>7, RefuseOK, ProposeOK DEF j, c

LEMMA JudgeMagic ==
    ASSUME NEW a \in LcpOpt, NEW e \in LcpOpt, NEW h \in LcpOpt, NEW o \in LcpOpt, NEW fresh \in Magic
    PROVE  VerdictOK(o, h, "magic", Judge(a, e, h, Asking(o, "magic"), fresh))
<1> DEFINE opt == "magic"
           c == Asking(o, opt)
           n == h.neg \cup {"magic"}
           k == [h EXCEPT !.neg = n, !.magic = c.val]
           j == Judge(a, e, h, c, fresh)
           q == CI("MAGICNUMBER", fresh)
<1>1. c.type = "MAGICNUMBER" /\ c.val = o.magic /\ o.magic \in Magic
  BY DEF Asking, CI, TypeOf, LcpOpt
<1>2. j = Refuse(h) \/ j = Propose(h, <<q>>) \/ j = Accept(k)
  BY <1>1 DEF Judge
<1>3. n \in SUBSET Negotiable /\ q \in Hints
  BY HintsIn DEF LcpOpt, Negotiable
<1> HIDE DEF c, n, j, q
<1>4. /\ k \in LcpOpt /\ k.neg = n /\ k.magic = o.magic
      /\ k.mru = h.mru /\ k.mdtype = h.mdtype /\ k.asyncmap = h.asyncmap
  BY <1>1, <1>3 DEF LcpOpt
<1> HIDE DEF k
<1>5. Asking(k, opt) = Asking(o, opt)
  BY <1>4 DEF Asking
<1>6. \A x \in Negotiable \ {opt} : Asking(k, x) = Asking(h, x)
  BY <1>4 DEF Asking, Negotiable
<1>7. VerdictOK(o, h, opt, Accept(k))
  BY <1>4, <1>5, <1>6, AcceptOK DEF n
<1>8. VerdictOK(o, h, opt, Propose(h, <<q>>))
  BY <1>3, ProposeOK
<1> QED
  BY <1>2, <1>7, <1>8, RefuseOK DEF j, c

\* A magic number is only Nakked if it is the one of the end that answers.
LEMMA JudgeMagicNak ==
    ASSUME NEW a, NEW e, NEW h, NEW o, NEW fresh,
           Judge(a, e, h, Asking(o, "magic"), fresh).orc = "CONFNAK"
    PROVE  /\ o.magic = e.magic
           /\ Judge(a, e, h, Asking(o, "magic"), fresh).hint = <<CI("MAGICNUMBER", fresh)>>
<1> DEFINE c == Asking(o, "magic")
           k == [h EXCEPT !.neg = @ \cup {"magic"}, !.magic = c.val]
           q == <<CI("MAGICNUMBER", fresh)>>
           j == Judge(a, e, h, c, fresh)
<1>1. c.type = "MAGICNUMBER" /\ c.val = o.magic
  BY DEF Asking, CI, TypeOf
<1>2. j = Refuse(h) \/ (j = Propose(h, q) /\ c.val = e.magic) \/ j = Accept(k)
  BY <1>1 DEF Judge
<1> HIDE DEF c, k, q
<1>3. Refuse(h).orc # "CONFNAK" /\ Accept(k).orc # "CONFNAK" /\ Propose(h, q).hint = q
  BY DEF Refuse, Accept, Propose
<1>4. j.orc = "CONFNAK"
  BY DEF j, c
<1> HIDE DEF j
<1>5. j = Propose(h, q) /\ c.val = e.magic
  BY <1>2, <1>3, <1>4
<1> QED
  BY <1>1, <1>3, <1>5 DEF j, c, q

LEMMA JudgeVoid ==
    ASSUME NEW a \in LcpOpt, NEW e \in LcpOpt, NEW h \in LcpOpt, NEW o \in LcpOpt, NEW fresh \in Magic,
           NEW opt \in {"pcomp", "accomp"}
    PROVE  VerdictOK(o, h, opt, Judge(a, e, h, Asking(o, opt), fresh))
<1> DEFINE c == Asking(o, opt)
           n == h.neg \cup {opt}
           k == [h EXCEPT !.neg = n]
           j == Judge(a, e, h, c, fresh)
<1>1. c.type = (IF opt = "pcomp" THEN "PCOMPRESSION" ELSE "ACCOMPRESSION") /\ c.val = "void"
  BY DEF Asking, CI, TypeOf
<1>2. j = Refuse(h) \/ j = Accept(k)
  BY <1>1 DEF Judge
<1>3. n \in SUBSET Negotiable
  BY DEF LcpOpt, Negotiable
<1> HIDE DEF c, n, j
<1>4. /\ k \in LcpOpt /\ k.neg = n /\ SameValues(h, k)
  BY <1>3 DEF LcpOpt, SameValues
<1> HIDE DEF k
<1>5. Asking(k, opt) = Asking(o, opt)
  BY DEF Asking
<1>6. \A x \in Negotiable \ {opt} : Asking(k, x) = Asking(h, x)
  BY <1>4, AskingSame
<1>7. VerdictOK(o, h, opt, Accept(k))
  BY <1>4, <1>5, <1>6, AcceptOK DEF n
<1> QED
  BY <1>2, <1>7, RefuseOK DEF j, c

LEMMA JudgeLqr ==
    ASSUME NEW a \in LcpOpt, NEW e \in LcpOpt, NEW h \in LcpOpt, NEW o \in LcpOpt, NEW fresh \in Magic
    PROVE  VerdictOK(o, h, "lqr", Judge(a, e, h, Asking(o, "lqr"), fresh))
<1> DEFINE c == Asking(o, "lqr")
           j == Judge(a, e, h, c, fresh)
<1>1. c.type = "QUALITY" /\ c.val = <<"LQR">>
  BY DEF Asking, CI, TypeOf
<1>2. j = Refuse(h) \/ j = Accept(h)
  BY <1>1 DEF Judge
<1>3. VerdictOK(o, h, "lqr", Accept(h))
  BY AcceptOK
<1> QED
  BY <1>2, <1>3, RefuseOK

LEMMA JudgeAuthOK ==
    ASSUME NEW a \in LcpOpt, NEW e \in LcpOpt, NEW h \in LcpOpt, NEW o \in LcpOpt, NEW fresh \in Magic,
           NEW opt \in {"chap", "upap"}
    PROVE  VerdictOK(o, h, opt, Judge(a, e, h, Asking(o, opt), fresh))
<1> DEFINE c == Asking(o, opt)
           v == c.val
           n == h.neg \cup {opt}
           d == a.mdtype
           k == [h EXCEPT !.neg = n]
           l == [h EXCEPT !.neg = n, !.mdtype = d]
           j == Judge(a, e, h, c, fresh)
           x == CI("AUTHTYPE", CHAP(d))
           y == CI("AUTHTYPE", UPAP)
<1>1. c.type = "AUTHTYPE" /\ v = (IF opt = "chap" THEN CHAP(o.mdtype) ELSE UPAP)
  BY DEF Asking, CI, TypeOf
<1>2. j = JudgeAuth(a, h, v)
  BY <1>1 DEF Judge
<1>3. d \in Digests /\ n \in SUBSET Negotiable
  BY DEF LcpOpt, Negotiable
<1>4. x \in Hints /\ y \in Hints
  BY <1>3, HintsIn
<1>5. CHAP(o.mdtype) # UPAP /\ CHAP(o.mdtype)[1] = "CHAP" /\ UPAP[1] # "CHAP"
  BY DEF CHAP, UPAP
<1>6. CASE opt = "upap"
  <2>1. v = UPAP /\ v[1] # "CHAP"
    BY <1>1, <1>5, <1>6
  <2> HIDE DEF v
  <2>2. j = Refuse(h) \/ j = Propose(h, <<x>>) \/ j = Accept(k)
    BY <1>2, <1>6, <2>1 DEF JudgeAuth
  <2> HIDE DEF n, j, x, c
  <2>3. k \in LcpOpt /\ k.neg = n /\ SameValues(h, k)
    BY <1>3 DEF LcpOpt, SameValues
  <2> HIDE DEF k
  <2>4. Asking(k, opt) = Asking(o, opt)
    BY <1>6 DEF Asking
  <2>5. \A z \in Negotiable \ {opt} : Asking(k, z) = Asking(h, z)
    BY <2>3, AskingSame
  <2>6. VerdictOK(o, h, opt, Accept(k))
    BY <1>6, <2>3, <2>4, <2>5, AcceptOK DEF n
  <2>7. VerdictOK(o, h, opt, Propose(h, <<x>>))
    BY <1>4, ProposeOK
  <2> QED BY <2>2, <2>6, <2>7, RefuseOK DEF j, c
<1>7. CASE opt = "chap"
  <2>1. v = CHAP(o.mdtype) /\ v[1] = "CHAP" /\ v # UPAP
    BY <1>1, <1>5, <1>7
  <2> HIDE DEF v
  <2>2. j = Refuse(h) \/ j = Propose(h, <<x>>) \/ j = Propose(h, <<y>>) \/ (j = Accept(l) /\ v = CHAP(d))
    BY <1>2, <1>7, <2>1 DEF JudgeAuth
  <2> HIDE DEF n, j, x, y, c, d
  <2>3. /\ l \in LcpOpt /\ l.neg = n /\ l.mdtype = d /\ l.mru = h.mru /\ l.asyncmap = h.asyncmap
        /\ l.magic = h.magic
    BY <1>3 DEF LcpOpt
  <2> HIDE DEF l
  <2>4. v = CHAP(d) => d = o.mdtype
    BY <2>1 DEF CHAP
  <2>5. v = CHAP(d) => Asking(l, opt) = Asking(o, opt)
    BY <1>7, <2>3, <2>4 DEF Asking
  <2>6. \A z \in Negotiable \ {opt} : Asking(l, z) = Asking(h, z)
    BY <1>7, <2>3 DEF Asking, Negotiable
  <2>7. v = CHAP(d) => VerdictOK(o, h, opt, Accept(l))
    BY <1>7, <2>3, <2>5, <2>6, AcceptOK DEF n
  <2>8. VerdictOK(o, h, opt, Propose(h, <<x>>)) /\ VerdictOK(o, h, opt, Propose(h, <<y>>))
    BY <1>4, ProposeOK
  <2> QED BY <2>2, <2>7, <2>8, RefuseOK DEF j, c
<1> QED
  BY <1>6, <1>7

LEMMA JudgeIs ==
    ASSUME NEW a \in LcpOpt, NEW e \in LcpOpt, NEW h \in LcpOpt, NEW o \in LcpOpt, NEW fresh \in Magic,
           NEW opt \in Negotiable
    PROVE  VerdictOK(o, h, opt, Judge(a, e, h, Asking(o, opt), fresh))
<1>1. opt \in {"mru", "asyncmap", "lqr", "magic"} \/ opt \in {"chap", "upap"} \/ opt \in {"pcomp", "accomp"}
  BY DEF Negotiable
<1>2. CASE opt = "mru"
  BY <1>2, JudgeMru
<1>3. CASE opt = "asyncmap"
  BY <1>3, JudgeAsyncmap
<1>4. CASE opt = "lqr"
  BY <1>4, JudgeLqr
<1>5. CASE opt = "magic"
  BY <1>5, JudgeMagic
<1>6. CASE opt \in {"chap", "upap"}
  BY <1>6, JudgeAuthOK
<1>7. CASE opt \in {"pcomp", "accomp"}
  BY <1>7, JudgeVoid
<1> QED
  BY <1>1, <1>2, <1>3, <1>4, <1>5, <1>6, <1>7

-----------------------------------------------------------------------------
(***************************************************************************)
(* The answer to the request s of o, which lists the options at the places *)
(* p, from an end that allows a and has e itself.                          *)
(***************************************************************************)
LcpAnswer(o, a, e, t) ==
    [ao : {a}, go : {e}, tough : {t}, fresh : Magic, rc : LcpVerdicts,
     rej : Seq(Req(o)), nak : Seq(Hints), ho : LcpOpt]

\* What was acknowledged of the first n options.
AckedUpTo(o, h, p, n) ==
    /\ \A opt \in Negotiable : opt \in h.neg <=> opt # "lqr" /\ \E k \in 1 .. n : Order[p[k]] = opt
    /\ \A opt \in h.neg : Asking(h, opt) = Asking(o, opt)

\* A Nak that only proposes another magic number, since both ends have one.
NakOfMagic(o, e, nak) ==
    Asked(o, "magic") /\ o.magic = e.magic /\ \E x \in Magic : nak = <<CI("MAGICNUMBER", x)>>

\* An end that has lost its patience Naks nothing else.
Patient(o, e, p, n, z) ==
    /\ z.rc = "CONFACK" => z.nak = <<>>
    /\ z.rc = "CONFNAK" => NakOfMagic(o, e, z.nak) /\ \E k \in 1 .. n : Order[p[k]] = "magic"

\* What was rejected of the first m options of LCP.
Rejected(o, rej, m) == \E r : Lists(o, rej, r, m)

AnswerUpTo(o, a, e, t, p, n, z) ==
    /\ z \in LcpAnswer(o, a, e, t)
    /\ z.rc = "CONFACK" => AckedUpTo(o, z.ho, p, n)
    /\ z.rc = "CONFREJ" => z.rej # <<>>
    /\ Rejected(o, z.rej, IF n = 0 THEN 0 ELSE p[n])
    /\ t => Patient(o, e, p, n, z)

\* y is z with the verdict j on the option c.
Combined(o, a, e, t, z, c, j, y) ==
    /\ y \in LcpAnswer(o, a, e, t) /\ y.ho = j.ho
    /\ \/ y.rc = "CONFREJ" /\ y.rej = Append(z.rej, c)
       \/ y.rej = z.rej /\ y.rc = z.rc /\ (y.rc = "CONFACK" => j.orc = "CONFACK")
       \/ y.rej = z.rej /\ y.rc = "CONFNAK"
    /\ t => \/ y.rc = "CONFREJ"
            \/ y.rc = z.rc /\ j.orc = "CONFACK" /\ y.nak = z.nak \o j.hint
            \/ /\ y.rc = "CONFNAK" /\ z.rc # "CONFREJ" /\ y.nak = z.nak \o j.hint
               /\ j.orc = "CONFNAK" /\ c.type = "MAGICNUMBER"

LEMMA CombineIs ==
    ASSUME NEW o, NEW a, NEW e, NEW t \in BOOLEAN, NEW z \in LcpAnswer(o, a, e, t), NEW c \in Req(o), NEW j,
           j.orc \in LcpVerdicts, j.ho \in LcpOpt, j.hint \in Seq(Hints),
           NEW x, x = Combine([z EXCEPT !.ho = j.ho, !.nak = @ \o j.hint], c, j, z.tough)
    PROVE  Combined(o, a, e, t, z, c, j, x)
<1> DEFINE S == Req(o)
           U == Hints
           V == LcpVerdicts
           R == [ao : {a}, go : {e}, tough : {t}, fresh : Magic, rc : V, rej : Seq(S), nak : Seq(U), ho : LcpOpt]
           h == j.ho
           q == z.nak \o j.hint
           w == [z EXCEPT !.ho = h, !.nak = q]
           rj == Append(z.rej, c)
           RJ == "CONFREJ"
           NK == "CONFNAK"
           y1 == [w EXCEPT !.rc = RJ, !.rej = rj]
           y2 == [w EXCEPT !.rc = NK]
           y == Combine(w, c, j, z.tough)
<1>1. z \in R /\ c \in S /\ j.orc \in V /\ h \in LcpOpt
  BY DEF LcpAnswer
<1>2. q \in Seq(U) /\ rj \in Seq(S)
  <2>1. z.nak \in Seq(U) /\ z.rej \in Seq(S) /\ j.hint \in Seq(U)
    BY <1>1
  <2> HIDE DEF S, U
  <2> QED BY <1>1, <2>1
<1>3. RJ \in V /\ NK \in V /\ \A v \in V : v = "CONFACK" \/ v = RJ \/ v = NK
  BY DEF LcpVerdicts
<1>4. [z EXCEPT !.ho = j.ho, !.nak = @ \o j.hint] = w
  OBVIOUS
<1> HIDE DEF S, U, V, h, q, rj
<1>5. w \in R /\ w.ho = h /\ w.rc = z.rc /\ w.rej = z.rej /\ z.tough = t /\ w.nak = q
  BY <1>1, <1>2
<1>6. y = y1 \/ (y = w /\ (w.rc = "CONFACK" => j.orc = "CONFACK")) \/ y = y2
  <2>1. w.rej = z.rej
    BY <1>5
  <2>2. y1 = [w EXCEPT !.rc = "CONFREJ", !.rej = Append(@, c)]
    BY <2>1 DEF rj
  <2>3. w.rc \in V /\ j.orc \in V
    BY <1>1, <1>5
  <2> HIDE DEF w, y1
  <2> QED BY <1>3, <2>2, <2>3 DEF Combine
<1>9. t => y = y1 \/ (y = w /\ (w.rc = RJ \/ j.orc = "CONFACK"))
                  \/ (y = y2 /\ w.rc # RJ /\ j.orc = NK /\ c.type = "MAGICNUMBER")
  <2>1. y1 = [w EXCEPT !.rc = "CONFREJ", !.rej = Append(@, c)]
    BY <1>5 DEF rj
  <2>2. w.rc \in V /\ j.orc \in V /\ z.tough = t
    BY <1>1, <1>5
  <2> HIDE DEF w, y1
  <2> QED BY <1>3, <2>1, <2>2 DEF Combine
<1> HIDE DEF w
<1>7. y1 \in R /\ y1.ho = h /\ y1.rc = RJ /\ y1.rej = rj
  BY <1>2, <1>3, <1>5
<1>8. y2 \in R /\ y2.ho = h /\ y2.rc = NK /\ y2.rej = z.rej /\ y2.nak = q
  BY <1>3, <1>5
<1> HIDE DEF y1, y2
<1>10. x = y
  BY <1>4 DEF y
<1> HIDE DEF y
<1>11. t => \/ y.rc = RJ
            \/ y.rc = z.rc /\ j.orc = "CONFACK" /\ y.nak = q
            \/ y.rc = NK /\ z.rc # RJ /\ y.nak = q /\ j.orc = NK /\ c.type = "MAGICNUMBER"
  BY <1>5, <1>7, <1>8, <1>9
<1>12. /\ y \in R /\ y.ho = h
       /\ \/ y.rc = RJ /\ y.rej = rj
          \/ y.rej = z.rej /\ y.rc = z.rc /\ (y.rc = "CONFACK" => j.orc = "CONFACK")
          \/ y.rej = z.rej /\ y.rc = NK
  BY <1>5, <1>6, <1>7, <1>8
<1> QED
  BY <1>10, <1>11, <1>12 DEF LcpAnswer, Combined, S, U, V, h, q, rj

LEMMA AnswerStep ==
    ASSUME NEW o \in LcpOpt, NEW a \in LcpOpt, NEW e \in LcpOpt, NEW t \in BOOLEAN, NEW s, NEW p, Lists(o, s, p, 8),
           NEW i \in 1 .. Len(s), NEW z, AnswerUpTo(o, a, e, t, p, i - 1, z)
    PROVE  AnswerUpTo(o, a, e, t, p, i, JudgeNext(z, s[i]))
<1> DEFINE opt == Order[p[i]]
           c == s[i]
           j == Judge(a, e, z.ho, c, z.fresh)
           y == JudgeNext(z, c)
           m == IF i - 1 = 0 THEN 0 ELSE p[i - 1]
           k == p[i]
<1>1. /\ k \in 1 .. 8 /\ c = Asking(o, opt) /\ Asked(o, opt) /\ i \in 1 .. Len(p) /\ i \in Nat /\ i # 0
      /\ m \in 0 .. 8 /\ m < k /\ c \in Req(o) /\ (i - 1 # 0 => i - 1 \in 1 .. Len(p)) /\ i - 1 \in Nat
  <2>1. p \in Seq(1 .. 8) /\ Len(s) = Len(p) /\ s \in Seq(Req(o)) /\ Rising(p)
        /\ \A x \in 1 .. Len(p) : Asked(o, Order[p[x]]) /\ s[x] = Asking(o, Order[p[x]])
    BY DEF Lists
  <2>2. i \in 1 .. Len(p) /\ i \in Nat /\ i # 0 /\ k \in 1 .. 8 /\ i - 1 \in Nat /\ (i - 1 # 0 => i - 1 \in 1 .. Len(p))
    BY <2>1
  <2>3. c \in Req(o)
    <3> DEFINE S == Req(o)
    <3>1. s \in Seq(S)
      BY <2>1
    <3> HIDE DEF S
    <3>2. c \in S
      BY <3>1
    <3> QED BY <3>2 DEF S
  <2>4. m \in 0 .. 8 /\ m < k
    <3>1. CASE i - 1 = 0
      BY <2>2, <3>1
    <3>2. CASE i - 1 # 0
      <4>1. i - 1 \in 1 .. Len(p) /\ i - 1 < i
        BY <2>2, <3>2
      <4>2. p[i - 1] \in 1 .. 8 /\ p[i - 1] < p[i]
        BY <2>1, <2>2, <4>1 DEF Rising
      <4> QED BY <3>2, <4>2
    <3> QED BY <3>1, <3>2
  <2> QED BY <2>1, <2>2, <2>3, <2>4
<1>2. /\ z \in LcpAnswer(o, a, e, t) /\ (z.rc = "CONFACK" => AckedUpTo(o, z.ho, p, i - 1))
      /\ (z.rc = "CONFREJ" => z.rej # <<>>) /\ Rejected(o, z.rej, m) /\ (t => Patient(o, e, p, i - 1, z))
  BY DEF AnswerUpTo
<1>3. z.ao = a /\ z.go = e /\ z.ho \in LcpOpt /\ z.fresh \in Magic /\ z.rej \in Seq(Req(o)) /\ z.rc \in LcpVerdicts
  BY <1>2 DEF LcpAnswer
<1>4. y = Combine([z EXCEPT !.ho = j.ho, !.nak = @ \o j.hint], c, j, z.tough)
  BY <1>3 DEF JudgeNext
<1>5. opt \in Negotiable
  BY <1>1, OrderIs
<1>12. (c.type = "MAGICNUMBER") => opt = "magic"
  BY <1>1, <1>5 DEF Asking, CI, TypeOf, Negotiable
<1>13. ASSUME opt = "magic", j.orc = "CONFNAK"
       PROVE  o.magic = e.magic /\ j.hint = <<CI("MAGICNUMBER", z.fresh)>>
  BY <1>1, <1>3, <1>13, JudgeMagicNak
<1>14. ASSUME opt = "magic", NEW q \in 1 .. i - 1 PROVE Order[p[q]] # "magic"
  <2>1. q \in 1 .. Len(p) /\ q < i
    BY <1>1
  <2>2. p[q] \in 1 .. 8 /\ p[q] < p[i]
    BY <1>1, <2>1 DEF Lists, Rising
  <2>3. p[i] \in 1 .. 8 /\ p[q] # p[i]
    BY <1>1, <2>2
  <2>4. Order[p[q]] # Order[p[i]]
    BY <2>2, <2>3, OrderIs
  <2> QED BY <1>14, <2>4
<1> HIDE DEF opt
<1>6. VerdictOK(o, z.ho, opt, j)
  BY <1>1, <1>3, <1>5, JudgeIs
<1> HIDE DEF c, j, y, k, m
<1>7. j.orc \in LcpVerdicts /\ j.ho \in LcpOpt /\ j.hint \in Seq(Hints)
  BY <1>6 DEF VerdictOK
<1>8. /\ y \in LcpAnswer(o, a, e, t) /\ y.ho = j.ho
      /\ \/ y.rc = "CONFREJ" /\ y.rej = Append(z.rej, c)
         \/ y.rej = z.rej /\ y.rc = z.rc /\ (y.rc = "CONFACK" => j.orc = "CONFACK")
         \/ y.rej = z.rej /\ y.rc = "CONFNAK"
      /\ t => \/ y.rc = "CONFREJ"
              \/ y.rc = z.rc /\ j.orc = "CONFACK" /\ y.nak = z.nak \o j.hint
              \/ /\ y.rc = "CONFNAK" /\ z.rc # "CONFREJ" /\ y.nak = z.nak \o j.hint
                 /\ j.orc = "CONFNAK" /\ c.type = "MAGICNUMBER"
  <2>1. Combined(o, a, e, t, z, c, j, y)
    BY <1>1, <1>2, <1>4, <1>7, CombineIs
  <2> QED BY <2>1 DEF Combined
<1>9. Rejected(o, y.rej, k)
  <2>1. PICK r : Lists(o, z.rej, r, m)
    BY <1>2 DEF Rejected
  <2>2. Lists(o, z.rej, r, k)
    BY <1>1, <2>1, ListsLater
  <2>3. Asked(o, Order[k]) /\ c = Asking(o, Order[k])
    BY <1>1 DEF opt, k
  <2>4. Lists(o, Append(z.rej, c), Append(r, k), k)
    BY <1>1, <2>1, <2>3, ListsAppend
  <2> QED BY <1>8, <2>2, <2>4 DEF Rejected
<1>10. y.rc = "CONFREJ" => y.rej # <<>>
  <2>1. Append(z.rej, c) # <<>>
    <3> DEFINE S == Req(o)
    <3>1. z.rej \in Seq(S) /\ c \in S
      BY <1>1, <1>3
    <3> HIDE DEF S
    <3> DEFINE q == Append(z.rej, c)
    <3>2. q \in Seq(S) /\ Len(q) = Len(z.rej) + 1 /\ Len(z.rej) \in Nat
      BY <3>1
    <3> HIDE DEF q
    <3>3. q # <<>>
      BY <3>2
    <3> QED BY <3>3 DEF q
  <2> QED BY <1>2, <1>8, <2>1
<1>11. ASSUME y.rc = "CONFACK" PROVE AckedUpTo(o, y.ho, p, i)
  <2>1. z.rc = "CONFACK" /\ j.orc = "CONFACK"
    BY <1>8, <1>11
  <2>2. AckedUpTo(o, z.ho, p, i - 1)
    BY <1>2, <2>1
  <2>3. /\ y.ho.neg = z.ho.neg \cup ({opt} \ {"lqr"})
        /\ opt # "lqr" => Asking(y.ho, opt) = Asking(o, opt)
        /\ \A x \in Negotiable \ {opt} : Asking(y.ho, x) = Asking(z.ho, x)
    BY <1>6, <1>8, <2>1 DEF VerdictOK
  <2>4. \A x \in Negotiable : (\E q \in 1 .. i : Order[p[q]] = x) <=> x = opt \/ \E q \in 1 .. i - 1 : Order[p[q]] = x
    <3>1. \A q \in 1 .. i : q \in 1 .. i - 1 \/ q = i
      BY <1>1
    <3>2. i \in 1 .. i /\ \A q \in 1 .. i - 1 : q \in 1 .. i
      BY <1>1
    <3>3. opt = Order[p[i]]
      BY DEF opt
    <3> QED BY <3>1, <3>2, <3>3
  <2>5. \A x \in Negotiable : x \in y.ho.neg <=> x # "lqr" /\ \E q \in 1 .. i : Order[p[q]] = x
    BY <1>5, <2>2, <2>3, <2>4 DEF AckedUpTo
  <2>6. z.ho.neg \subseteq Negotiable /\ "lqr" \in Negotiable
    BY <1>3 DEF LcpOpt, Negotiable
  <2>7. \A x \in z.ho.neg : x # "lqr" /\ Asking(z.ho, x) = Asking(o, x)
    BY <2>2, <2>6 DEF AckedUpTo
  <2>8. \A x \in y.ho.neg : Asking(y.ho, x) = Asking(o, x)
    BY <1>5, <2>3, <2>6, <2>7
  <2> QED BY <2>5, <2>8 DEF AckedUpTo
<1>15. ASSUME t PROVE Patient(o, e, p, i, y)
  <2>1. Patient(o, e, p, i - 1, z)
    BY <1>2, <1>15
  <2>2. \A q \in 1 .. i - 1 : q \in 1 .. i
    BY <1>1
  <2>3. z.nak \in Seq(Hints) /\ \A q \in Seq(Hints) : q \o <<>> = q /\ <<>> \o q = q
    <3> DEFINE S == Hints
    <3>1. z.nak \in Seq(S)
      BY <1>2 DEF LcpAnswer
    <3> HIDE DEF S
    <3>2. \A q \in Seq(S) : q \o <<>> = q /\ <<>> \o q = q
      OBVIOUS
    <3> QED BY <3>1, <3>2 DEF S
  <2>4. CASE y.rc = "CONFREJ"
    BY <2>4 DEF Patient
  <2>5. CASE y.rc = z.rc /\ j.orc = "CONFACK" /\ y.nak = z.nak \o j.hint
    <3>1. y.nak = z.nak
      BY <1>6, <2>3, <2>5 DEF VerdictOK
    <3> QED BY <2>1, <2>2, <2>5, <3>1 DEF Patient
  <2>6. CASE /\ y.rc = "CONFNAK" /\ z.rc # "CONFREJ" /\ y.nak = z.nak \o j.hint
             /\ j.orc = "CONFNAK" /\ c.type = "MAGICNUMBER"
    <3>1. opt = "magic" /\ o.magic = e.magic /\ j.hint = <<CI("MAGICNUMBER", z.fresh)>>
      BY <1>12, <1>13, <2>6
    <3>2. z.rc = "CONFACK"
      BY <1>3, <1>14, <2>1, <2>6, <3>1 DEF Patient, LcpVerdicts
    <3>3. y.nak = j.hint
      BY <1>7, <2>1, <2>3, <2>6, <3>2 DEF Patient
    <3>4. Asked(o, "magic") /\ i \in 1 .. i /\ Order[p[i]] = "magic"
      BY <1>1, <3>1 DEF opt
    <3> QED BY <1>3, <2>6, <3>1, <3>3, <3>4 DEF Patient, NakOfMagic
  <2> QED BY <1>8, <1>15, <2>4, <2>5, <2>6
<1> QED
  BY <1>1, <1>8, <1>9, <1>10, <1>11, <1>15 DEF AnswerUpTo, y, c, k

\* The answer r to the request of o.
AnswerIs(o, e, t, r) ==
    /\ r.rc \in LcpVerdicts /\ r.ho \in LcpOpt
    /\ r.rc = "CONFACK" =>
         /\ \A opt \in Negotiable : opt \in r.ho.neg <=> opt # "lqr" /\ Asked(o, opt)
         /\ \A opt \in r.ho.neg : Asking(r.ho, opt) = Asking(o, opt)
    /\ r.rc = "CONFNAK" => r.ci \in Seq(Hints)
    /\ r.rc = "CONFREJ" => r.ci # <<>> /\ Rejected(o, r.ci, 8)
    /\ t /\ r.rc = "CONFNAK" => NakOfMagic(o, e, r.ci)

LEMMA ReqciIs ==
    ASSUME NEW o \in LcpOpt, NEW a \in LcpOpt, NEW e \in LcpOpt, NEW t \in BOOLEAN, NEW fresh \in Magic
    PROVE  AnswerIs(o, e, t, lcp_reqci(a, e, lcp_addci(o), t, fresh))
<1> DEFINE s == lcp_addci(o)
           n == Len(s)
           h0 == NoOptions(a)
           K == "CONFACK"
           base == [ao |-> a, go |-> e, tough |-> t, fresh |-> fresh, rc |-> K, rej |-> <<>>,
                    nak |-> <<>>, ho |-> h0]
           r == lcp_reqci(a, e, s, t, fresh)
<1>1. PICK p : Lists(o, s, p, 8) /\ Full(o, p, 8)
  BY RequestLists
<1> DEFINE H == [i \in 0 .. n |-> {z \in LcpAnswer(o, a, e, t) : AnswerUpTo(o, a, e, t, p, i, z)}]
<1> HIDE DEF s
<1>2. s \in Seq(Req(o)) /\ n \in Nat /\ n = Len(p) /\ p \in Seq(1 .. 8)
  BY <1>1 DEF Lists
<1>3. h0 \in LcpOpt /\ h0.neg = {}
  BY DEF NoOptions, LcpOpt
<1> HIDE DEF h0
<1>4. base \in H[0]
  <2> DEFINE S == Req(o)
             U == Hints
  <2>1. K \in LcpVerdicts /\ <<>> \in Seq(S) /\ <<>> \in Seq(U) /\ 0 \in 0 .. n
    BY <1>2 DEF LcpVerdicts
  <2> DEFINE N == <<>>
  <2> HIDE DEF S, U, N
  <2>2. N \in Seq(S) /\ N \in Seq(U)
    BY <2>1 DEF N
  <2> HIDE DEF K
  <2>3. [ao |-> a, go |-> e, tough |-> t, fresh |-> fresh, rc |-> K, rej |-> N, nak |-> N, ho |-> h0]
           \in [ao : {a}, go : {e}, tough : {t}, fresh : Magic, rc : LcpVerdicts,
                rej : Seq(S), nak : Seq(U), ho : LcpOpt]
    BY <1>3, <2>1, <2>2
  <2>4. base \in LcpAnswer(o, a, e, t)
    BY <2>3 DEF LcpAnswer, S, U, N
  <2>5. base.ho = h0 /\ base.rej = <<>> /\ base.rc = "CONFACK" /\ base.nak = <<>>
    BY DEF K
  <2> HIDE DEF base
  <2>6. Rejected(o, <<>>, 0)
    BY ListsNone DEF Rejected
  <2>7. AckedUpTo(o, h0, p, 0)
    BY <1>3 DEF AckedUpTo
  <2>8. AnswerUpTo(o, a, e, t, p, 0, base)
    BY <2>4, <2>5, <2>6, <2>7 DEF AnswerUpTo, Patient
  <2> HIDE DEF AnswerUpTo
  <2> QED BY <2>1, <2>4, <2>8
<1>5. ASSUME NEW i \in 1 .. n, NEW z \in H[i - 1] PROVE JudgeNext(z, s[i]) \in H[i]
  <2>1. i - 1 \in 0 .. n /\ i \in 0 .. n
    BY <1>2
  <2>2. AnswerUpTo(o, a, e, t, p, i - 1, z)
    BY <2>1
  <2>3. AnswerUpTo(o, a, e, t, p, i, JudgeNext(z, s[i]))
    <3> HIDE DEF H
    <3> QED BY <1>1, <2>2, AnswerStep
  <2>4. JudgeNext(z, s[i]) \in LcpAnswer(o, a, e, t)
    BY <2>3 DEF AnswerUpTo
  <2> QED BY <2>1, <2>3, <2>4
<1> DEFINE z == FoldLeft(JudgeNext, base, s)
<1>6. H[n] = {y \in LcpAnswer(o, a, e, t) : AnswerUpTo(o, a, e, t, p, n, y)}
  BY <1>2
<1> HIDE DEF H, base
<1>7. Judging!Fold(base, s) \in H[n]
  <2> DEFINE S == Req(o)
  <2>1. s \in Seq(S)
    BY <1>2
  <2> HIDE DEF S
  <2> QED BY <1>4, <1>5, <2>1, Judging!FoldThrough
<1>8. Judging!Fold(base, s) = z
  BY Zenon DEF Judging!Fold, FoldLeft, Judging!FoldLeft, MapThenFoldSet,
               Judging!MapThenFoldSet, Max, Judging!Max
<1>9. AnswerUpTo(o, a, e, t, p, n, z)
  BY <1>6, <1>7, <1>8
<1>10. /\ r.rc = z.rc /\ r.ho = z.ho
       /\ z.rc = "CONFNAK" => r.ci = z.nak
       /\ z.rc = "CONFREJ" => r.ci = z.rej
  BY DEF lcp_reqci, base, h0, K
<1> HIDE DEF z, r
<1>11. z \in LcpAnswer(o, a, e, t)
  BY <1>9 DEF AnswerUpTo
<1>12. z.rc \in LcpVerdicts /\ z.ho \in LcpOpt /\ z.nak \in Seq(Hints)
  BY <1>11 DEF LcpAnswer
<1>13. ASSUME z.rc = "CONFACK"
       PROVE  /\ \A opt \in Negotiable : opt \in z.ho.neg <=> opt # "lqr" /\ Asked(o, opt)
              /\ \A opt \in z.ho.neg : Asking(z.ho, opt) = Asking(o, opt)
  <2>1. AckedUpTo(o, z.ho, p, n)
    BY <1>9, <1>13 DEF AnswerUpTo
  <2>2. \A opt \in Negotiable : Asked(o, opt) <=> \E k \in 1 .. n : Order[p[k]] = opt
    <3> TAKE opt \in Negotiable
    <3>1. ASSUME NEW k \in 1 .. n, Order[p[k]] = opt PROVE Asked(o, opt)
      BY <1>1, <1>2, <3>1 DEF Lists
    <3>2. ASSUME Asked(o, opt) PROVE \E k \in 1 .. n : Order[p[k]] = opt
      <4>1. PICK x \in 1 .. 8 : Order[x] = opt
        BY OrderIs
      <4>2. PICK k \in 1 .. Len(p) : p[k] = x
        BY <1>1, <3>2, <4>1 DEF Full
      <4> QED BY <1>2, <4>1, <4>2
    <3> QED BY <3>1, <3>2
  <2> QED BY <2>1, <2>2 DEF AckedUpTo
<1>14. ASSUME z.rc = "CONFREJ" PROVE z.rej # <<>> /\ Rejected(o, z.rej, 8)
  <2> DEFINE m == IF n = 0 THEN 0 ELSE p[n]
  <2>1. z.rej # <<>> /\ Rejected(o, z.rej, m)
    BY <1>9, <1>14 DEF AnswerUpTo
  <2>2. m \in Nat /\ m <= 8
    <3>1. CASE n = 0
      BY <3>1
    <3>2. CASE n # 0
      <4>1. n \in 1 .. Len(p)
        BY <1>2, <3>2
      <4>2. p[n] \in 1 .. 8
        BY <1>2, <4>1
      <4> QED BY <3>2, <4>2
    <3> QED BY <3>1, <3>2
  <2> HIDE DEF m
  <2>3. PICK q : Lists(o, z.rej, q, m)
    BY <2>1 DEF Rejected
  <2>4. Lists(o, z.rej, q, 8)
    BY <2>2, <2>3, ListsLater
  <2> QED BY <2>1, <2>4 DEF Rejected
<1>15. t /\ z.rc = "CONFNAK" => NakOfMagic(o, e, z.nak)
  BY <1>9 DEF AnswerUpTo, Patient
<1> QED
  BY <1>10, <1>12, <1>13, <1>14, <1>15 DEF AnswerIs, r, s

-----------------------------------------------------------------------------
(***************************************************************************)
(* The answer is read.                                                     *)
(***************************************************************************)
LEMMA SubjectIs ==
    ASSUME NEW o \in LcpOpt, NEW opt \in Negotiable, Asked(o, opt)
    PROVE  Subject(o, Asking(o, opt)) = {opt}
<1> DEFINE c == Asking(o, opt)
<1>1. c.type = TypeOf(opt) /\ c.val = CASE opt = "mru" -> o.mru [] opt = "asyncmap" -> o.asyncmap
         [] opt = "chap" -> CHAP(o.mdtype) [] opt = "upap" -> UPAP
         [] opt = "lqr" -> <<"LQR">> [] opt = "magic" -> o.magic
         [] OTHER -> "void"
  BY DEF Asking, CI
<1>2. opt \in {"chap", "upap"} => (c.val[1] = "CHAP") = (opt = "chap")
  <2>1. CHAP(o.mdtype)[1] = "CHAP" /\ UPAP[1] # "CHAP"
    BY DEF CHAP, UPAP
  <2>2. opt = "chap" => c.val = CHAP(o.mdtype)
    BY <1>1
  <2>3. opt = "upap" => c.val = UPAP
    BY <1>1
  <2> HIDE DEF c
  <2> QED BY <2>1, <2>2, <2>3
<1>3. o.neg \subseteq Negotiable /\ opt \in o.neg
  BY DEF LcpOpt, Asked
<1> HIDE DEF c
<1>4. (c.type = "AUTHTYPE") = (opt \in {"chap", "upap"})
  BY <1>1 DEF TypeOf, Negotiable
<1>5. opt \in Subject(o, c)
  BY <1>1, <1>2, <1>3, <1>4 DEF Subject
<1>6. ASSUME NEW x \in Subject(o, c) PROVE x = opt
  <2>1. x \in Negotiable /\ TypeOf(x) = TypeOf(opt) /\ (c.type = "AUTHTYPE" => (c.val[1] = "CHAP") = (x = "chap"))
    BY <1>1, <1>3, <1>6 DEF Subject
  <2>2. x = opt \/ (x \in {"chap", "upap"} /\ opt \in {"chap", "upap"})
    BY <2>1 DEF TypeOf, Negotiable
  <2>3. ASSUME x \in {"chap", "upap"}, opt \in {"chap", "upap"} PROVE x = opt
    <3>1. (x = "chap") <=> (opt = "chap")
      BY <1>2, <1>4, <2>1, <2>3
    <3> QED BY <2>3, <3>1
  <2> QED BY <2>2, <2>3
<1> QED
  BY <1>5, <1>6 DEF c

LEMMA RankIs == \A k \in 1 .. 8 : Rank({Order[k]}) = k
<1> TAKE k \in 1 .. 8
<1>1. DOMAIN Order = 1 .. 8
  BY OrderIs
<1>2. \A i \in DOMAIN Order : Order[i] \in {Order[k]} => i = k
  BY <1>1, OrderIs
<1>3. k \in DOMAIN Order /\ Order[k] \in {Order[k]}
  BY <1>1
<1> QED
  BY <1>2, <1>3 DEF Rank

\* The greatest of some numbers up to n.
LEMMA MaxUpto ==
    ASSUME NEW n \in Nat, NEW I \in SUBSET (0 .. n), I # {}
    PROVE  Max(I) \in I /\ (n \in I => Max(I) = n)
<1> DEFINE J == {n - k : k \in I}
<1>1. J \in SUBSET Nat /\ J # {}
  <2>1. \A k \in I : n - k \in Nat
    OBVIOUS
  <2> QED BY <2>1
<1>2. PICK j \in J : \A k \in J : j <= k
  <2> HIDE DEF J
  <2> QED BY <1>1, NatMin
<1>3. PICK m \in I : j = n - m
  BY <1>2
<1>4. ASSUME NEW k \in I PROVE m >= k
  <2>1. n - m <= n - k
    BY <1>2, <1>3
  <2> QED BY <2>1
<1>5. Max(I) \in I /\ \A k \in I : Max(I) >= k
  <2>1. \E x \in I : \A y \in I : x >= y
    BY <1>4
  <2> QED BY <2>1 DEF Max
<1> DEFINE top == Max(I)
<1>6. top \in I /\ top \in 0 .. n /\ (n \in I => top >= n)
  BY <1>5
<1> HIDE DEF top
<1>7. n \in I => top = n
  BY <1>6
<1> QED
  BY <1>6, <1>7 DEF top

\* A Reject that repeats a part of the request is taken.
LEMMA RejTaken ==
    ASSUME NEW o \in LcpOpt, NEW s, Rejected(o, s, 8)
    PROVE  lcp_rejci(o, s)[1]
<1>1. PICK r : Lists(o, s, r, 8)
  BY DEF Rejected
<1> DEFINE n == Len(s)
<1>2. /\ n \in Nat /\ n = Len(r) /\ DOMAIN s = 1 .. n /\ Rising(r)
      /\ \A i \in 1 .. n : r[i] \in 1 .. 8 /\ Asked(o, Order[r[i]]) /\ s[i] = Asking(o, Order[r[i]])
  <2> DEFINE S == Req(o)
  <2>1. r \in Seq(1 .. 8) /\ s \in Seq(S) /\ Len(s) = Len(r) /\ Rising(r)
        /\ \A i \in 1 .. Len(r) : Asked(o, Order[r[i]]) /\ s[i] = Asking(o, Order[r[i]])
    BY <1>1 DEF Lists
  <2> HIDE DEF S
  <2> QED BY <2>1
<1>3. \A i \in 1 .. n : Subject(o, s[i]) = {Order[r[i]]} /\ Rank(Subject(o, s[i])) = r[i]
  <2> TAKE i \in 1 .. n
  <2> DEFINE opt == Order[r[i]]
  <2>1. opt \in Negotiable /\ Asked(o, opt) /\ s[i] = Asking(o, opt) /\ r[i] \in 1 .. 8
    BY <1>2, OrderIs
  <2>2. Subject(o, s[i]) = {opt}
    <3> HIDE DEF opt
    <3> QED BY <2>1, SubjectIs
  <2> QED BY <2>1, <2>2, RankIs
<1> DEFINE I == {k \in 0 .. n : \A i \in 1..k : /\ Subject(o, s[i]) # {}
                                                /\ i > 1 => Rank(Subject(o, s[i - 1])) < Rank(Subject(o, s[i]))}
<1>13. Walked(o, s) = Max(I)
  BY DEF Walked
<1> HIDE DEF n
<1>4. n \in I
  <2>1. ASSUME NEW i \in 1 .. n, i > 1 PROVE Rank(Subject(o, s[i - 1])) < Rank(Subject(o, s[i]))
    <3>1. i - 1 \in 1 .. n /\ i - 1 < i
      BY <1>2, <2>1
    <3>2. r[i - 1] < r[i]
      BY <1>2, <3>1 DEF Rising
    <3> QED BY <1>3, <3>1, <3>2
  <2>2. n \in 0 .. n
    BY <1>2
  <2>3. \A i \in 1 .. n : Subject(o, s[i]) # {}
    BY <1>3
  <2> QED BY <2>1, <2>2, <2>3
<1>5. Walked(o, s) = n
  <2>1. I \in SUBSET (0 .. n) /\ I # {}
    BY <1>4
  <2> HIDE DEF I
  <2> QED BY <1>2, <1>4, <1>13, <2>1, MaxUpto
<1>6. \A i \in DOMAIN s : \A opt \in Subject(o, s[i]) : s[i] = Asking(o, opt)
  BY <1>2, <1>3
<1> QED
  BY <1>5, <1>6 DEF lcp_rejci, n

\* It costs at least one option.
LEMMA RejShrinks ==
    ASSUME NEW o \in LcpOpt, NEW s, Rejected(o, s, 8), s # <<>>
    PROVE  lcp_rejci(o, s)[2].neg \subseteq o.neg /\ lcp_rejci(o, s)[2].neg # o.neg
<1> DEFINE opts == UNION {Subject(o, s[i]) : i \in DOMAIN s}
           n == o.neg \ opts
           k == [o EXCEPT !.neg = n]
<1>1. lcp_rejci(o, s)[1]
  BY RejTaken
<1>2. lcp_rejci(o, s)[2] = k
  BY <1>1 DEF lcp_rejci
<1>3. PICK r : Lists(o, s, r, 8)
  BY DEF Rejected
<1>4. /\ r \in Seq(1 .. 8) /\ Len(s) = Len(r) /\ DOMAIN s = 1 .. Len(s) /\ Len(s) \in Nat /\ Len(s) # 0
      /\ \A i \in 1 .. Len(r) : Asked(o, Order[r[i]]) /\ s[i] = Asking(o, Order[r[i]])
  <2> DEFINE S == Req(o)
  <2>1. /\ s \in Seq(S) /\ r \in Seq(1 .. 8) /\ Len(s) = Len(r)
        /\ \A i \in 1 .. Len(r) : Asked(o, Order[r[i]]) /\ s[i] = Asking(o, Order[r[i]])
    BY <1>3 DEF Lists
  <2> HIDE DEF S
  <2>2. DOMAIN s = 1 .. Len(s) /\ Len(s) \in Nat /\ Len(s) # 0
    BY <2>1
  <2> QED BY <2>1, <2>2
<1>5. 1 \in DOMAIN s /\ 1 \in 1 .. Len(r)
  BY <1>4
<1> DEFINE opt == Order[r[1]]
<1>6. opt \in Negotiable /\ Asked(o, opt) /\ s[1] = Asking(o, opt)
  <2>1. r[1] \in 1 .. 8
    BY <1>4, <1>5
  <2> QED BY <1>4, <1>5, <2>1, OrderIs
<1> HIDE DEF opt
<1>7. opt \in Subject(o, s[1])
  BY <1>6, SubjectIs
<1>8. opt \in opts /\ opt \in o.neg
  BY <1>5, <1>6, <1>7 DEF Asked
<1> HIDE DEF opts
<1>9. n \subseteq o.neg /\ n # o.neg
  BY <1>8
<1> HIDE DEF n
<1>10. k.neg = n
  BY DEF LcpOpt
<1> QED
  BY <1>2, <1>9, <1>10

\* A Nak of the magic number is taken.
LEMMA NakTaken ==
    ASSUME NEW o \in LcpOpt, NEW e, NEW w, NEW s, NakOfMagic(o, e, s), NEW fresh
    PROVE  lcp_nakci(o, w, s, fresh)[1]
<1>1. PICK x \in Magic : s = <<CI("MAGICNUMBER", x)>>
  BY DEF NakOfMagic
<1> DEFINE c == CI("MAGICNUMBER", x)
           k == Walked(o, s)
           I == {m \in 0 .. Len(s) : \A i \in 1..m : /\ Subject(o, s[i]) # {}
                                                     /\ i > 1 => Rank(Subject(o, s[i - 1])) < Rank(Subject(o, s[i]))}
<1>2. k = Max(I)
  BY DEF Walked
<1>3. c.type = "MAGICNUMBER"
  BY DEF CI
<1> HIDE DEF c
<1>4. Len(s) = 1 /\ s[1] = c
  BY <1>1 DEF c
<1>5. "magic" \in Subject(o, s[1])
  <2>1. Asked(o, "magic") /\ TypeOf("magic") = "MAGICNUMBER"
    BY DEF NakOfMagic, TypeOf
  <2> QED BY <1>3, <1>4, <2>1 DEF Subject, Asked
<1>6. 1 \in I
  <2>1. \A i \in 1 .. 1 : i = 1 /\ ~(i > 1)
    OBVIOUS
  <2> QED BY <1>4, <1>5, <2>1
<1>7. I \in SUBSET (0 .. 1)
  BY <1>4
<1> HIDE DEF I
<1>8. k = 1
  BY <1>2, <1>6, <1>7, MaxUpto
<1> HIDE DEF k
<1>9. SubSeq(s, k + 1, Len(s)) = <<>>
  <2>1. s \in Seq({c})
    BY <1>1 DEF c
  <2> QED BY <1>4, <1>8, <2>1
<1>10. Surplus(o, <<>>)
  BY DEF Surplus
<1> QED
  BY <1>9, <1>10 DEF lcp_nakci, k

LEMMA RejOpt ==
    ASSUME NEW o \in LcpOpt, NEW s
    PROVE  lcp_rejci(o, s)[2] \in LcpOpt
<1> DEFINE n == o.neg \ UNION {Subject(o, s[i]) : i \in DOMAIN s}
           k == [o EXCEPT !.neg = n]
<1>1. lcp_rejci(o, s)[2] = k \/ lcp_rejci(o, s)[2] = o
  BY DEF lcp_rejci
<1>2. n \in SUBSET Negotiable
  BY DEF LcpOpt
<1> HIDE DEF n
<1>3. k \in LcpOpt
  BY <1>2 DEF LcpOpt
<1> QED
  BY <1>1, <1>3

LEMMA NakOpt ==
    ASSUME NEW o \in LcpOpt, NEW w, NEW s \in Seq(Hints), NEW fresh \in Magic
    PROVE  lcp_nakci(o, w, s, fresh)[2] \in LcpOpt
<1> DEFINE n == Len(s)
           I == {k \in 0 .. n : \A i \in 1..k : /\ Subject(o, s[i]) # {}
                                                /\ i > 1 => Rank(Subject(o, s[i - 1])) < Rank(Subject(o, s[i]))}
           k == Walked(o, s)
           opts == UNION {Subject(o, s[i]) : i \in 1..k}
           val == [opt \in opts |-> s[CHOOSE i \in 1..k : opt \in Subject(o, s[i])].val]
           y == Nakked(o, w, opts, val, fresh)
<1>1. k \in 0 .. n
  <2>1. k = Max(I)
    BY DEF Walked
  <2>2. I \in SUBSET (0 .. n) /\ n \in Nat
    OBVIOUS
  <2>3. 0 \in I
    <3>1. 0 \in 0 .. n /\ 1 .. 0 = {}
      BY <2>2
    <3> QED BY <3>1
  <2> HIDE DEF I
  <2> QED BY <2>1, <2>2, <2>3, MaxUpto
<1>2. \A i \in 1 .. k : s[i].type \in {"AUTHTYPE", "QUALITY", "MAGICNUMBER"}
  <2> DEFINE S == Hints
  <2>1. s \in Seq(S)
    OBVIOUS
  <2> HIDE DEF S, k
  <2>2. \A i \in 1 .. k : s[i] \in S
    BY <1>1, <2>1
  <2> QED BY <2>2, HintsIn DEF S
<1> HIDE DEF k, n
<1>3. \A x \in opts : x \in o.neg /\ TypeOf(x) \in {"AUTHTYPE", "QUALITY", "MAGICNUMBER"}
  BY <1>2 DEF Subject
<1>4. "mru" \notin opts /\ "asyncmap" \notin opts
  BY <1>3 DEF TypeOf
<1>5. lcp_nakci(o, w, s, fresh)[2] = y \/ lcp_nakci(o, w, s, fresh)[2] = o
  BY DEF lcp_nakci, k
<1> HIDE DEF opts, val
<1> DEFINE m == o.neg \ ((opts \ {"mru", "asyncmap", "magic"}) \ {opt \in opts \cap {"lqr"} : val[opt] = <<"LQR">>})
           g == IF "magic" \in opts THEN fresh ELSE o.magic
<1>6. y = [o EXCEPT !.neg = m, !.mru = o.mru, !.asyncmap = o.asyncmap, !.magic = g]
  BY <1>4 DEF Nakked
<1>7. m \in SUBSET Negotiable /\ g \in Magic
  BY DEF LcpOpt
<1> HIDE DEF m, g, y
<1>8. y \in LcpOpt
  BY <1>6, <1>7 DEF LcpOpt
<1> QED
  BY <1>5, <1>8

-----------------------------------------------------------------------------
(***************************************************************************)
(* The negotiation.                                                        *)
(***************************************************************************)
LcpInv ==
    /\ wo \in LcpOpt /\ go \in LcpOpt /\ ao \in LcpOpt /\ peer \in LcpOpt /\ ho \in LcpOpt
    /\ nakloops \in Nat /\ SameOptions

LEMMA LcpInitInv == Init => LcpInv
<1> SUFFICES ASSUME Init PROVE LcpInv
  OBVIOUS
<1>1. PICK neg \in SUBSET Asks, mru \in Mrus, map \in SUBSET Chars, g \in Magic :
        wo = [neg |-> neg, mru |-> mru, asyncmap |-> map, mdtype |-> "md5", magic |-> g]
  BY DEF Init
<1>2. wo \in LcpOpt
  BY <1>1, NegotiationAssumption DEF LcpOpt, Digests
<1>3. PICK may \in SUBSET Allows, chars \in SUBSET Chars, md \in Digests, h \in Magic, useMagic \in BOOLEAN :
        /\ ao = [neg |-> may, mru |-> DEFMRU, asyncmap |-> chars, mdtype |-> md, magic |-> h]
        /\ peer = [ao EXCEPT !.neg = IF useMagic THEN {"magic"} ELSE {}]
  BY DEF Init, Digests
<1>4. ao \in LcpOpt
  BY <1>3, NegotiationAssumption, OptionsAssumption DEF LcpOpt
<1>5. peer \in LcpOpt
  <2> DEFINE n == IF useMagic THEN {"magic"} ELSE {}
  <2>1. n \in SUBSET Negotiable /\ peer = [ao EXCEPT !.neg = n]
    BY <1>3 DEF Negotiable
  <2> HIDE DEF n
  <2> QED BY <1>4, <2>1 DEF LcpOpt
<1>6. go = wo /\ ho = [ao EXCEPT !.neg = {}] /\ nakloops = 0 /\ outcome = "open"
  BY DEF Init, NoOptions
<1>7. ho \in LcpOpt
  BY <1>4, <1>6 DEF LcpOpt
<1>8. SameOptions
  BY <1>6 DEF SameOptions
<1> QED
  BY <1>2, <1>4, <1>5, <1>6, <1>7, <1>8 DEF LcpInv

\* What an Ack leaves both ends with.
LEMMA AckedSame ==
    ASSUME NEW o \in LcpOpt, NEW e, NEW t, NEW r, AnswerIs(o, e, t, r), r.rc = "CONFACK"
    PROVE  lcp_addci([r.ho EXCEPT !.neg = @ \cup (o.neg \cap {"lqr"})]) = lcp_addci(o)
<1> DEFINE h == r.ho
           n == h.neg \cup (o.neg \cap {"lqr"})
           k == [h EXCEPT !.neg = n]
<1>1. h \in LcpOpt /\ h.neg \subseteq Negotiable /\ o.neg \subseteq Negotiable
  BY DEF AnswerIs, LcpOpt
<1>2. /\ \A opt \in Negotiable : opt \in h.neg <=> opt # "lqr" /\ Asked(o, opt)
      /\ \A opt \in h.neg : Asking(h, opt) = Asking(o, opt)
  BY DEF AnswerIs
<1>3. [r.ho EXCEPT !.neg = @ \cup (o.neg \cap {"lqr"})] = k
  OBVIOUS
<1> HIDE DEF h
<1>4. k.neg = n /\ SameValues(h, k)
  BY <1>1 DEF LcpOpt, SameValues
<1> HIDE DEF k
<1>5. "chap" \in Negotiable /\ "upap" \in Negotiable /\ "lqr" \in Negotiable
  BY DEF Negotiable
<1>6. ASSUME NEW opt \in Negotiable PROVE Asked(k, opt) <=> Asked(o, opt)
  <2>1. CASE opt = "lqr"
    BY <1>2, <1>4, <1>5, <2>1 DEF Asked
  <2>2. CASE opt = "upap"
    <3>1. Asked(k, opt) <=> "upap" \in h.neg /\ "chap" \notin h.neg
      BY <1>4, <2>2 DEF Asked
    <3>2. "upap" \in h.neg <=> Asked(o, "upap")
      BY <1>2, <1>5
    <3>3. "chap" \in h.neg <=> "chap" \in o.neg
      BY <1>2, <1>5 DEF Asked
    <3> QED BY <2>2, <3>1, <3>2, <3>3 DEF Asked
  <2>3. CASE opt # "lqr" /\ opt # "upap"
    BY <1>2, <1>4, <2>3 DEF Asked
  <2> QED BY <2>1, <2>2, <2>3
<1>7. ASSUME NEW opt \in Negotiable, Asked(k, opt) PROVE Asking(k, opt) = Asking(o, opt)
  <2>1. Asked(o, opt) /\ Asking(k, opt) = Asking(h, opt)
    BY <1>4, <1>6, <1>7, AskingSame
  <2>2. CASE opt = "lqr"
    BY <2>2 DEF Asking
  <2>3. CASE opt # "lqr"
    BY <1>2, <2>1, <2>3
  <2> QED BY <2>2, <2>3
<1> QED
  BY <1>3, <1>6, <1>7, SameRequest

LEMMA RoundInv ==
    ASSUME LcpInv, Round
    PROVE  LcpInv'
<1> DEFINE s == lcp_addci(go)
           tough == nakloops >= MaxNakLoops
<1>1. PICK hint \in Magic :
        LET r == lcp_reqci(ao, peer, s, tough, hint)
            rej == lcp_rejci(go, r.ci)
        IN  /\ ho' = r.ho
            /\ nakloops' = CASE r.rc = "CONFACK" -> 0
                             [] r.rc = "CONFNAK" /\ nakloops < MaxNakLoops -> nakloops + 1
                             [] OTHER -> nakloops
            /\ CASE r.rc = "CONFNAK" -> \E fresh \in Magic :
                                           LET nak == lcp_nakci(go, wo, r.ci, fresh)
                                           IN  Again(nak[1], nak[2])
                 [] r.rc = "CONFREJ" -> Again(rej[1], rej[2])
                 [] OTHER -> IF lcp_ackci(go, r.ci)
                               THEN outcome' = "acked" /\ UNCHANGED <<go, tries>>
                               ELSE Again(FALSE, go)
  BY DEF Round
<1> DEFINE r == lcp_reqci(ao, peer, s, tough, hint)
<1>2. wo' = wo /\ ao' = ao /\ peer' = peer
  BY DEF Round
<1>3. /\ wo \in LcpOpt /\ go \in LcpOpt /\ ao \in LcpOpt /\ peer \in LcpOpt
      /\ nakloops \in Nat /\ MaxNakLoops \in Nat
  BY NegotiationAssumption DEF LcpInv
<1>4. AnswerIs(go, peer, tough, r)
  <2>1. tough \in BOOLEAN
    BY <1>3
  <2> QED BY <1>3, <2>1, ReqciIs
<1> HIDE DEF s, tough, r
<1>5. r.rc \in LcpVerdicts /\ ho' = r.ho /\ ho' \in LcpOpt
  BY <1>1, <1>4 DEF AnswerIs, r
<1>6. nakloops' \in Nat
  BY <1>1, <1>3 DEF r
<1>7. \A ok, o : Again(ok, o) => go' = o /\ outcome' # "acked"
  BY DEF Again
<1>8. CASE r.rc = "CONFNAK"
  <2>1. PICK fresh \in Magic : Again(lcp_nakci(go, wo, r.ci, fresh)[1], lcp_nakci(go, wo, r.ci, fresh)[2])
    BY <1>1, <1>8 DEF r
  <2>2. r.ci \in Seq(Hints)
    BY <1>4, <1>8 DEF AnswerIs
  <2>3. lcp_nakci(go, wo, r.ci, fresh)[2] \in LcpOpt
    BY <1>3, <2>2, NakOpt
  <2>4. go' \in LcpOpt /\ outcome' # "acked"
    BY <1>7, <2>1, <2>3
  <2> QED BY <1>2, <1>3, <1>5, <1>6, <2>4 DEF LcpInv, SameOptions
<1>9. CASE r.rc = "CONFREJ"
  <2>1. Again(lcp_rejci(go, r.ci)[1], lcp_rejci(go, r.ci)[2])
    BY <1>1, <1>9 DEF r
  <2>2. lcp_rejci(go, r.ci)[2] \in LcpOpt
    BY <1>3, RejOpt
  <2>3. go' \in LcpOpt /\ outcome' # "acked"
    BY <1>7, <2>1, <2>2
  <2> QED BY <1>2, <1>3, <1>5, <1>6, <2>3 DEF LcpInv, SameOptions
<1>10. CASE r.rc = "CONFACK"
  <2>1. (outcome' = "acked" /\ go' = go) \/ Again(FALSE, go)
    BY <1>1, <1>10 DEF r
  <2>2. go' = go
    BY <1>7, <2>1
  <2>3. lcp_addci([ho' EXCEPT !.neg = @ \cup (go'.neg \cap {"lqr"})]) = lcp_addci(go')
    BY <1>3, <1>4, <1>5, <1>10, <2>2, AckedSame
  <2> QED BY <1>2, <1>3, <1>5, <1>6, <2>2, <2>3 DEF LcpInv, SameOptions
<1> QED
  BY <1>5, <1>8, <1>9, <1>10 DEF LcpVerdicts

LEMMA LcpNextInv == LcpInv /\ [Next]_vars => LcpInv'
<1> SUFFICES ASSUME LcpInv, [Next]_vars PROVE LcpInv'
  OBVIOUS
<1>1. CASE UNCHANGED vars
  BY <1>1 DEF LcpInv, SameOptions, vars
<1>2. CASE Next
  BY <1>2, RoundInv DEF Next
<1> QED
  BY <1>1, <1>2

LEMMA LcpInvAgree == LcpInv => OptionsAgree
<1> SUFFICES ASSUME LcpInv PROVE RejectsUnderstood
  BY DEF OptionsAgree, LcpInv
<1> DEFINE s == lcp_addci(go)
           tough == nakloops >= MaxNakLoops
<1> SUFFICES ASSUME NEW hint \in Magic, lcp_reqci(ao, peer, s, tough, hint).rc = "CONFREJ"
             PROVE  /\ lcp_reqci(ao, peer, s, tough, hint).ci # <<>>
                    /\ lcp_rejci(go, lcp_reqci(ao, peer, s, tough, hint).ci)[1]
  BY DEF RejectsUnderstood
<1> DEFINE r == lcp_reqci(ao, peer, s, tough, hint)
<1>1. go \in LcpOpt /\ ao \in LcpOpt /\ peer \in LcpOpt /\ tough \in BOOLEAN
  BY NegotiationAssumption DEF LcpInv
<1> HIDE DEF tough
<1>2. AnswerIs(go, peer, tough, r)
  BY <1>1, ReqciIs
<1> HIDE DEF r
<1>3. r.ci # <<>> /\ Rejected(go, r.ci, 8)
  BY <1>2 DEF AnswerIs, r
<1>4. lcp_rejci(go, r.ci)[1]
  BY <1>1, <1>3, RejTaken
<1> QED
  BY <1>3, <1>4 DEF r

\* Whenever an LCP request has been acknowledged, both ends hold the same
\* options, and every Reject that lcp_reqci() builds is one that lcp_rejci()
\* takes: for any two configurations, any values of the options and any
\* limits of the counters (lcp_addci, lcp_ackci, lcp_nakci, lcp_rejci and
\* lcp_reqci of lcp.c).
THEOREM OptionsAlwaysAgree == Spec => []OptionsAgree
<1>1. Spec => []LcpInv
  BY LcpInitInv, LcpNextInv, PTL DEF Spec
<1> QED
  BY <1>1, LcpInvAgree, PTL

-----------------------------------------------------------------------------
(***************************************************************************)
(* The negotiation makes progress.  The requests that are left and the     *)
(* Naks that were counted are together more than the Naks that the other   *)
(* end is patient for: before the requests run out, it Rejects.            *)
(***************************************************************************)
ConvInv ==
    /\ LcpInv
    /\ outcome = "open" => tries \in Nat /\ nakloops <= MaxNakLoops /\ tries + nakloops > MaxNakLoops

Progress ==
    /\ outcome' # "stopped"
    /\ \/ outcome' = "acked"
       \/ go'.neg \subseteq go.neg /\ go'.neg # go.neg
       \/ nakloops' > nakloops
       \/ go.magic = peer.magic

LEMMA RoundProgress ==
    ASSUME MaxConfReqs > MaxNakLoops, ConvInv, Round
    PROVE  ConvInv' /\ Progress
<1> DEFINE s == lcp_addci(go)
           tough == nakloops >= MaxNakLoops
<1>1. PICK hint \in Magic :
        LET r == lcp_reqci(ao, peer, s, tough, hint)
            rej == lcp_rejci(go, r.ci)
        IN  /\ ho' = r.ho
            /\ nakloops' = CASE r.rc = "CONFACK" -> 0
                             [] r.rc = "CONFNAK" /\ nakloops < MaxNakLoops -> nakloops + 1
                             [] OTHER -> nakloops
            /\ CASE r.rc = "CONFNAK" -> \E fresh \in Magic :
                                           LET nak == lcp_nakci(go, wo, r.ci, fresh)
                                           IN  Again(nak[1], nak[2])
                 [] r.rc = "CONFREJ" -> Again(rej[1], rej[2])
                 [] OTHER -> IF lcp_ackci(go, r.ci)
                               THEN outcome' = "acked" /\ UNCHANGED <<go, tries>>
                               ELSE Again(FALSE, go)
  BY DEF Round
<1> DEFINE r == lcp_reqci(ao, peer, s, tough, hint)
<1>2. LcpInv'
  BY RoundInv DEF ConvInv
<1>3. /\ wo \in LcpOpt /\ go \in LcpOpt /\ ao \in LcpOpt /\ peer \in LcpOpt
      /\ nakloops \in Nat /\ MaxNakLoops \in Nat /\ MaxConfReqs \in Nat
  BY NegotiationAssumption DEF ConvInv, LcpInv
<1>4. tries \in Nat /\ nakloops <= MaxNakLoops /\ tries + nakloops > MaxNakLoops
  BY DEF ConvInv, Round
<1>5. AnswerIs(go, peer, tough, r)
  <2>1. tough \in BOOLEAN
    BY <1>3
  <2> QED BY <1>3, <2>1, ReqciIs
<1>6. r.rc = "CONFACK" => r.ci = s
  BY DEF lcp_reqci
<1> HIDE DEF s, tough, r
<1>7. r.rc \in LcpVerdicts
  BY <1>5 DEF AnswerIs
<1>8. \A ok, o : Again(ok, o) =>
        /\ go' = o /\ tries' = (IF ok THEN MaxConfReqs ELSE tries - 1)
        /\ outcome' = IF ~ok /\ tries = 1 THEN "stopped" ELSE "open"
  BY DEF Again
<1>9. CASE r.rc = "CONFACK"
  <2>1. lcp_ackci(go, r.ci)
    BY <1>6, <1>9 DEF lcp_ackci, s
  <2>2. outcome' = "acked"
    BY <1>1, <1>9, <2>1 DEF r
  <2> QED BY <1>2, <2>2 DEF ConvInv, Progress
<1>10. CASE r.rc = "CONFREJ"
  <2>1. Again(lcp_rejci(go, r.ci)[1], lcp_rejci(go, r.ci)[2]) /\ nakloops' = nakloops
    BY <1>1, <1>10 DEF r
  <2>2. r.ci # <<>> /\ Rejected(go, r.ci, 8)
    BY <1>5, <1>10 DEF AnswerIs
  <2>3. lcp_rejci(go, r.ci)[1]
    BY <1>3, <2>2, RejTaken
  <2>4. lcp_rejci(go, r.ci)[2].neg \subseteq go.neg /\ lcp_rejci(go, r.ci)[2].neg # go.neg
    BY <1>3, <2>2, RejShrinks
  <2>5. go' = lcp_rejci(go, r.ci)[2] /\ tries' = MaxConfReqs /\ outcome' = "open"
    BY <1>8, <2>1, <2>3
  <2>6. tries' \in Nat /\ nakloops' <= MaxNakLoops /\ tries' + nakloops' > MaxNakLoops
    BY <1>3, <1>4, <2>1, <2>5
  <2> QED BY <1>2, <2>4, <2>5, <2>6 DEF ConvInv, Progress
<1>11. CASE r.rc = "CONFNAK"
  <2>1. PICK fresh \in Magic : Again(lcp_nakci(go, wo, r.ci, fresh)[1], lcp_nakci(go, wo, r.ci, fresh)[2])
    BY <1>1, <1>11 DEF r
  <2> DEFINE ok == lcp_nakci(go, wo, r.ci, fresh)[1]
  <2>2. /\ tries' = (IF ok THEN MaxConfReqs ELSE tries - 1)
        /\ outcome' = IF ~ok /\ tries = 1 THEN "stopped" ELSE "open"
    BY <1>8, <2>1
  <2>3. nakloops' = IF nakloops < MaxNakLoops THEN nakloops + 1 ELSE nakloops
    BY <1>1, <1>11 DEF r
  <2>4. CASE nakloops < MaxNakLoops
    <3> HIDE DEF ok
    <3>1. nakloops' = nakloops + 1 /\ tries >= 2
      BY <1>3, <1>4, <2>3, <2>4
    <3>3. outcome' = "open" /\ tries' \in Nat /\ tries' + nakloops' > MaxNakLoops
      BY <1>3, <1>4, <2>2, <3>1
    <3>4. nakloops' <= MaxNakLoops /\ nakloops' > nakloops
      BY <1>3, <2>4, <3>1
    <3> QED BY <1>2, <3>3, <3>4 DEF ConvInv, Progress
  <2>5. CASE ~(nakloops < MaxNakLoops)
    <3>1. tough
      BY <1>3, <2>5 DEF tough
    <3>2. NakOfMagic(go, peer, r.ci)
      BY <1>5, <1>11, <3>1 DEF AnswerIs
    <3>3. ok
      BY <1>3, <3>2, NakTaken
    <3> HIDE DEF ok
    <3>4. tries' = MaxConfReqs /\ outcome' = "open" /\ nakloops' = nakloops
      BY <2>2, <2>3, <2>5, <3>3
    <3>5. tries' \in Nat /\ nakloops' <= MaxNakLoops /\ tries' + nakloops' > MaxNakLoops
      BY <1>3, <1>4, <3>4
    <3>6. go.magic = peer.magic
      BY <3>2 DEF NakOfMagic
    <3> QED BY <1>2, <3>4, <3>5, <3>6 DEF ConvInv, Progress
  <2> QED BY <2>4, <2>5
<1> QED
  BY <1>7, <1>9, <1>10, <1>11 DEF LcpVerdicts

\* Every round of LCP brings the end that asks nearer to an Ack, and it never
\* runs out of requests, if it has more of them than the other end has Nak
\* loops: for any two configurations (lcp_reqci with reject_if_disagree,
\* lcp_nakci, lcp_rejci, and the counters of fsm_rconfreq and fsm_rconfnakrej).
THEOREM AlwaysConverges ==
    ASSUME MaxConfReqs > MaxNakLoops PROVE Spec => Converges
<1>1. Init => ConvInv
  <2> SUFFICES ASSUME Init PROVE ConvInv
    OBVIOUS
  <2>1. tries = MaxConfReqs /\ nakloops = 0 /\ MaxConfReqs \in Nat /\ MaxNakLoops \in Nat
    BY NegotiationAssumption DEF Init
  <2> QED BY <2>1, LcpInitInv DEF ConvInv
<1>2. ConvInv /\ [Next]_vars => ConvInv'
  <2> SUFFICES ASSUME ConvInv, [Next]_vars PROVE ConvInv'
    OBVIOUS
  <2>1. CASE Next
    BY <2>1, RoundProgress DEF Next
  <2>2. CASE UNCHANGED vars
    BY <2>2 DEF ConvInv, LcpInv, SameOptions, vars
  <2> QED BY <2>1, <2>2
<1>3. ConvInv /\ [Next]_vars => [Progress]_vars
  BY RoundProgress DEF Next
<1>4. Spec => [][Progress]_vars
  BY <1>1, <1>2, <1>3, PTL DEF Spec
<1> QED
  BY <1>4 DEF Converges, Progress
=============================================================================
