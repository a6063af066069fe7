----------------------------- MODULE ListLemmas -----------------------------
(***************************************************************************)
(* Facts about least elements and about lists without duplicates, the      *)
(* linked lists of the code.                                               *)
(***************************************************************************)
EXTENDS Integers, Sequences, SequencesExt, WellFoundedInduction, TLAPS

Member(q, x) == \E i \in 1 .. Len(q) : q[i] = x
NoDup(q) == \A i, j \in 1 .. Len(q) : q[i] = q[j] => i = j

\* A set of natural numbers that is not empty has a least element.
LEMMA NatMin == \A T \in SUBSET Nat : T # {} => \E n \in T : \A k \in T : n <= k
<1> SUFFICES ASSUME NEW T \in SUBSET Nat, T # {}
             PROVE  \E n \in T : \A k \in T : n <= k
  OBVIOUS
<1> DEFINE R == OpToRel(<, Nat)
<1>1. \E x \in T : \A y \in T : ~ (<<y, x>> \in R)
  BY NatLessThanWellFounded, WFMin, Zenon
<1>2. \A x, y \in Nat : y < x => <<y, x>> \in R
  BY DEF OpToRel
<1> HIDE DEF R
<1>3. PICK x \in T : \A y \in T : ~ (<<y, x>> \in R)
  BY <1>1
<1>4. ASSUME NEW y \in T PROVE x <= y
  <2>1. x \in Nat /\ y \in Nat
    OBVIOUS
  <2>2. ~ (y < x)
    BY <2>1, <1>2, <1>3
  <2> QED BY <2>1, <2>2
<1> QED
  BY <1>4

\* The least and the greatest place in a list are places.
LEMMA MinMaxIn ==
    ASSUME NEW n \in Nat, NEW I \in SUBSET (1 .. n), I # {}
    PROVE  Min(I) \in I /\ Max(I) \in I
<1>1. I \in SUBSET Nat
  OBVIOUS
<1>2. \E m \in I : \A k \in I : m <= k
  BY <1>1, NatMin
<1>3. \E m \in I : \A k \in I : m >= k
  <2> DEFINE J == {n - k : k \in I}
  <2>1. J \in SUBSET Nat /\ J # {}
    <3>1. \A k \in I : n - k \in Nat
      OBVIOUS
    <3> QED BY <3>1
  <2>2. PICK j \in J : \A k \in J : j <= k
    <3> HIDE DEF J
    <3> QED BY <2>1, NatMin
  <2>3. PICK m \in I : j = n - m
    BY <2>2
  <2>4. ASSUME NEW k \in I PROVE m >= k
    <3>1. n - m <= n - k
      BY <2>2, <2>3
    <3> QED BY <3>1
  <2> QED BY <2>4
<1> QED
  BY <1>2, <1>3 DEF Min, Max

\* Taking an element out of a list without duplicates.
LEMMA RemoveOK ==
    ASSUME NEW S, NEW q \in Seq(S), NoDup(q), NEW e
    PROVE  /\ RemoveFirst(q, e) \in Seq(S) /\ NoDup(RemoveFirst(q, e))
           /\ \A x : Member(RemoveFirst(q, e), x) <=> Member(q, x) /\ x # e
           /\ Len(RemoveFirst(q, e)) = IF Member(q, e) THEN Len(q) - 1 ELSE Len(q)
<1> DEFINE r == RemoveFirst(q, e)
           n == Len(q)
<1>1. CASE ~Member(q, e)
  <2>1. r = q
    BY <1>1 DEF RemoveFirst, Member
  <2> QED BY <1>1, <2>1 DEF Member
<1>2. CASE Member(q, e)
  <2>1. PICK k \in 1 .. n : q[k] = e
    BY <1>2 DEF Member
  <2> DEFINE I == {i \in 1 .. n : q[i] = e}
  <2>2. I = {k}
    BY <2>1 DEF NoDup
  <2>3. Min(I) = k
    BY <2>2 DEF Min
  <2>4. SelectInSeq(q, LAMBDA v : v = e) = k
    BY <2>2, <2>3 DEF SelectInSeq
  <2>5. r = SubSeq(q, 1, k - 1) \o SubSeq(q, k + 1, n)
    BY <1>2, <2>4 DEF RemoveFirst, RemoveAt, Member
  <2>6. n \in Nat /\ k \in Nat
    OBVIOUS
  <2> DEFINE u == SubSeq(q, 1, k - 1)
             v == SubSeq(q, k + 1, n)
  <2>11. u \in Seq(S) /\ Len(u) = k - 1 /\ \A i \in 1 .. k - 1 : u[i] = q[i]
    BY <2>6
  <2>12. v \in Seq(S) /\ Len(v) = n - k /\ \A i \in 1 .. n - k : v[i] = q[i + k]
    BY <2>6
  <2> HIDE DEF u, v, r
  <2>13. r = u \o v
    BY <2>5 DEF u, v, n
  <2>14. r \in Seq(S) /\ Len(r) = n - 1
    BY <2>6, <2>11, <2>12, <2>13
  <2>15. \A i \in 1 .. n - 1 : r[i] = IF i < k THEN u[i] ELSE v[i - (k - 1)]
    BY <2>6, <2>11, <2>12, <2>13
  <2>16. ASSUME NEW i \in 1 .. n - 1 PROVE r[i] = IF i < k THEN q[i] ELSE q[i + 1]
    <3>1. CASE i < k
      BY <2>6, <2>11, <2>15, <3>1
    <3>2. CASE ~ (i < k)
      <4>1. i - (k - 1) \in 1 .. n - k /\ (i - (k - 1)) + k = i + 1
        BY <2>6, <3>2
      <4> QED BY <2>12, <2>15, <3>2, <4>1
    <3> QED BY <3>1, <3>2
  <2>7. /\ r \in Seq(S) /\ Len(r) = n - 1
        /\ \A i \in 1 .. n - 1 : r[i] = IF i < k THEN q[i] ELSE q[i + 1]
    BY <2>14, <2>16
  <2> HIDE DEF r, n
  <2>8. NoDup(r)
    <3> SUFFICES ASSUME NEW i \in 1 .. Len(r), NEW j \in 1 .. Len(r), r[i] = r[j] PROVE i = j
      BY DEF NoDup
    <3> DEFINE a == IF i < k THEN i ELSE i + 1
               b == IF j < k THEN j ELSE j + 1
    <3>1. a \in 1 .. n /\ b \in 1 .. n /\ r[i] = q[a] /\ r[j] = q[b] /\ (a = b => i = j)
      BY <2>6, <2>7
    <3> HIDE DEF a, b
    <3> QED BY <3>1 DEF NoDup, n
  <2>9. ASSUME NEW x, Member(r, x) PROVE Member(q, x) /\ x # e
    <3>1. PICK i \in 1 .. Len(r) : r[i] = x
      BY <2>9 DEF Member
    <3> DEFINE a == IF i < k THEN i ELSE i + 1
    <3>2. a \in 1 .. n /\ q[a] = x /\ a # k
      BY <2>6, <2>7, <3>1
    <3> HIDE DEF a
    <3> QED BY <2>1, <3>2 DEF Member, NoDup, n
  <2>10. ASSUME NEW x, Member(q, x), x # e PROVE Member(r, x)
    <3>1. PICK i \in 1 .. n : q[i] = x
      BY <2>10 DEF Member, n
    <3> DEFINE a == IF i < k THEN i ELSE i - 1
    <3>2. a \in 1 .. n - 1 /\ r[a] = x
      <4>1. i # k
        BY <2>1, <2>10, <3>1
      <4>2. a \in 1 .. n - 1 /\ (IF a < k THEN a ELSE a + 1) = i
        BY <2>6, <4>1
      <4>3. r[a] = q[IF a < k THEN a ELSE a + 1]
        BY <2>7, <4>2
      <4> QED BY <3>1, <4>2, <4>3
    <3> HIDE DEF a
    <3> QED BY <2>7, <3>2 DEF Member
  <2> QED BY <1>2, <2>7, <2>8, <2>9, <2>10 DEF r, n
<1> QED
  BY <1>1, <1>2

\* Putting one in front that is not there yet.
LEMMA PrependOK ==
    ASSUME NEW S, NEW q \in Seq(S), NoDup(q), NEW e \in S, ~Member(q, e)
    PROVE  /\ <<e>> \o q \in Seq(S) /\ NoDup(<<e>> \o q)
           /\ \A x : Member(<<e>> \o q, x) <=> Member(q, x) \/ x = e
<1> DEFINE n == Len(q)
           r == <<e>> \o q
<1>1. n \in Nat /\ r \in Seq(S) /\ Len(r) = n + 1
      /\ r[1] = e /\ \A i \in 1 .. n : r[i + 1] = q[i]
  OBVIOUS
<1>2. \A i \in 1 .. n + 1 : r[i] = IF i = 1 THEN e ELSE q[i - 1]
  OBVIOUS
<1> HIDE DEF r
<1>3. NoDup(r)
  <2> SUFFICES ASSUME NEW i \in 1 .. n + 1, NEW j \in 1 .. n + 1, r[i] = r[j] PROVE i = j
    BY <1>1 DEF NoDup
  <2>1. CASE i = 1 /\ j = 1
    BY <2>1
  <2>2. CASE i = 1 /\ j # 1
    <3>1. j - 1 \in 1 .. n /\ q[j - 1] = e
      BY <1>1, <1>2, <2>2
    <3> QED BY <3>1 DEF Member
  <2>3. CASE i # 1 /\ j = 1
    <3>1. i - 1 \in 1 .. n /\ q[i - 1] = e
      BY <1>1, <1>2, <2>3
    <3> QED BY <3>1 DEF Member
  <2>4. CASE i # 1 /\ j # 1
    <3>1. i - 1 \in 1 .. n /\ j - 1 \in 1 .. n /\ q[i - 1] = q[j - 1]
      BY <1>1, <1>2, <2>4
    <3> QED BY <3>1 DEF NoDup
  <2> QED BY <2>1, <2>2, <2>3, <2>4
<1>4. ASSUME NEW x, Member(r, x) PROVE Member(q, x) \/ x = e
  <2>1. PICK i \in 1 .. n + 1 : r[i] = x
    BY <1>1, <1>4 DEF Member
  <2>2. i # 1 => i - 1 \in 1 .. n /\ q[i - 1] = x
    BY <1>1, <1>2, <2>1
  <2> QED BY <1>2, <2>1, <2>2 DEF Member
<1>5. ASSUME NEW x, Member(q, x) \/ x = e PROVE Member(r, x)
  <2>1. CASE x = e
    BY <1>1, <2>1 DEF Member
  <2>2. CASE Member(q, x)
    <3>1. PICK i \in 1 .. n : q[i] = x
      BY <2>2 DEF Member
    <3>2. i + 1 \in 1 .. Len(r) /\ r[i + 1] = x
      BY <1>1, <3>1
    <3> QED BY <3>2 DEF Member
  <2> QED BY <1>5, <2>1, <2>2
<1> QED
  BY <1>1, <1>3, <1>4, <1>5 DEF r

\* Putting one at the end that is not there yet.
LEMMA AppendOK ==
    ASSUME NEW S, NEW q \in Seq(S), NoDup(q), NEW e \in S, ~Member(q, e)
    PROVE  /\ Append(q, e) \in Seq(S) /\ NoDup(Append(q, e)) /\ Len(Append(q, e)) = Len(q) + 1
           /\ \A x : Member(Append(q, e), x) <=> Member(q, x) \/ x = e
<1> DEFINE n == Len(q)
           r == Append(q, e)
<1>1. n \in Nat /\ r \in Seq(S) /\ Len(r) = n + 1 /\ r[n + 1] = e /\ \A i \in 1 .. n : r[i] = q[i]
  OBVIOUS
<1> HIDE DEF r
<1>2. NoDup(r)
  <2> SUFFICES ASSUME NEW i \in 1 .. n + 1, NEW j \in 1 .. n + 1, r[i] = r[j] PROVE i = j
    BY <1>1 DEF NoDup
  <2>1. i \in 1 .. n \/ i = n + 1
    BY <1>1
  <2>2. j \in 1 .. n \/ j = n + 1
    BY <1>1
  <2> QED BY <1>1, <2>1, <2>2 DEF NoDup, Member
<1>3. ASSUME NEW x PROVE Member(r, x) <=> Member(q, x) \/ x = e
  BY <1>1 DEF Member
<1> QED
  BY <1>1, <1>2, <1>3 DEF r
=============================================================================
