-------------------------- MODULE PppPathProofs ---------------------------
(***************************************************************************)
(* Proofs about what a packet meets on its way through a PPP unit: the     *)
(* transmit path (PppOutput), the timers (PppCallout) and the receive path *)
(* (PppInput), for queues, rings and lists of every size; then what the    *)
(* two ends of a link agree on: the compressed headers (VjCompress), for   *)
(* any number of slots, connections and values of the fields, and the      *)
(* secrets (PppSecrets).                                                   *)
(***************************************************************************)
EXTENDS PppInput, PppOutput, PppCallout, VjCompress, PppSecrets, ListLemmas, TLAPS

Add(a, n)       == a + n
AddTime(a, c)   == a + c.c_time
Always(x)       == TRUE

\* The sums that the two models are written with.
Tally == INSTANCE SeqLemmas WITH Op <- Add, Holds <- Always
Time  == INSTANCE SeqLemmas WITH Op <- AddTime, Holds <- Always

-----------------------------------------------------------------------------
(***************************************************************************)
(* The transmit path.                                                      *)
(***************************************************************************)
Packet == Nat \ {0}

OutputTypeOK ==
    /\ fastq \in Seq(Packet) /\ snd \in Seq(Packet)
    /\ sem \in BOOLEAN /\ outm \in Nat /\ sent \in Nat
    /\ pc \in [Writers -> {"semTake", "dequeue", "write", "delete", "none", "gone"}]

OutputInv == OutputTypeOK /\ NoLostWakeup

\* The invariant of the transmit path holds at the start.
LEMMA OutputInitInv == OutputInit => OutputInv
<1> SUFFICES ASSUME OutputInit PROVE OutputInv
  OBVIOUS
<1>1. OutputTypeOK
  <2>1. fastq \in Seq(Packet) /\ snd \in Seq(Packet) /\ outm \in Nat /\ sent \in Nat
    BY DEF OutputInit
  <2>2. sem \in BOOLEAN /\ pc \in [Writers -> {"semTake", "dequeue", "write", "delete", "none", "gone"}]
    BY DEF OutputInit, Writers
  <2> QED BY <2>1, <2>2 DEF OutputTypeOK
<1>2. NoLostWakeup
  BY DEF OutputInit, NoLostWakeup
<1> QED
  BY <1>1, <1>2 DEF OutputInv

\* A packet that is put on a queue fills the semaphore.
LEMMA pppoutputInv == OutputInv /\ pppoutput => OutputInv'
<1> SUFFICES ASSUME OutputInv, pppoutput PROVE OutputInv'
  OBVIOUS
<1>1. sent' \in Packet
  BY DEF OutputInv, OutputTypeOK, pppoutput, Packet
<1>2. PICK fast \in BOOLEAN :
        IF Len(IF fast THEN fastq ELSE snd) >= QueueMax
          THEN UNCHANGED <<fastq, snd, sem, queued>>
          ELSE Enqueue(sent', fast) /\ queued' = queued \cup {sent'}
  BY DEF pppoutput
<1>3. pc' = pc /\ outm' = outm
  BY DEF pppoutput
<1>4. CASE UNCHANGED <<fastq, snd, sem>>
  BY <1>1, <1>3, <1>4 DEF OutputInv, OutputTypeOK, NoLostWakeup, Open, Packet
<1>5. CASE Enqueue(sent', fast)
  <2>1. fastq' \in Seq(Packet) /\ snd' \in Seq(Packet)
    <3>1. CASE fast
      BY <3>1, <1>1, <1>5 DEF OutputInv, OutputTypeOK, Enqueue
    <3>2. CASE ~fast
      BY <3>2, <1>1, <1>5 DEF OutputInv, OutputTypeOK, Enqueue
    <3> QED BY <3>1, <3>2
  <2>2. sem'
    BY <1>5 DEF Enqueue
  <2> QED BY <2>1, <2>2, <1>1, <1>3 DEF OutputInv, OutputTypeOK, NoLostWakeup, Packet
<1> QED
  BY <1>2, <1>4, <1>5

\* The writing task goes to sleep only when it has found both queues empty.
LEMMA ppp_dequeueInv ==
    ASSUME NEW w \in Writers
    PROVE  OutputInv /\ ppp_dequeue(w) => OutputInv'
<1> SUFFICES ASSUME OutputInv, ppp_dequeue(w) PROVE OutputInv'
  OBVIOUS
<1> DEFINE p == IF outm # 0 THEN outm
                ELSE IF fastq # <<>> THEN Head(fastq)
                ELSE IF snd # <<>> THEN Head(snd) ELSE 0
<1>1. p = 0 => outm = 0 /\ fastq = <<>> /\ snd = <<>>
  <2>1. \A q \in Seq(Packet) : q # <<>> => Head(q) # 0
    BY DEF Packet
  <2> QED BY <2>1 DEF OutputInv, OutputTypeOK
<1>2. pc' = [pc EXCEPT ![w] = IF p # 0 THEN "write"
                              ELSE IF w = "task" THEN "semTake" ELSE "delete"]
  BY DEF ppp_dequeue
<1>3. outm' = outm /\ sem' = sem /\ sent' = sent
  BY DEF ppp_dequeue
<1>9. fastq' \in Seq(Packet) /\ snd' \in Seq(Packet)
  <2>1. fastq' \in {fastq, Tail(fastq)} /\ (fastq' = Tail(fastq) => fastq # <<>> \/ fastq' = fastq)
    BY DEF ppp_dequeue
  <2>2. snd' \in {snd, SubSeq(snd, 2, Len(snd))}
    BY DEF ppp_dequeue
  <2>3. \A q \in Seq(Packet) : SubSeq(q, 2, Len(q)) \in Seq(Packet) /\ (q # <<>> => Tail(q) \in Seq(Packet))
    OBVIOUS
  <2> QED BY <2>1, <2>2, <2>3 DEF OutputInv, OutputTypeOK
<1>4. p = 0 => fastq' = <<>> /\ snd' = <<>>
  BY <1>1 DEF ppp_dequeue
<1>5. fastq = <<>> /\ snd = <<>> => fastq' = <<>> /\ snd' = <<>>
  BY DEF ppp_dequeue
<1>6. pc[w] = "dequeue"
  BY DEF ppp_dequeue
<1> HIDE DEF p
<1>7. OutputTypeOK'
  BY <1>2, <1>3, <1>9 DEF OutputInv, OutputTypeOK, Writers
<1>8. NoLostWakeup'
  <2> SUFFICES ASSUME Open', pc'["task"] = "semTake", ~sem' PROVE fastq' = <<>> /\ snd' = <<>>
    BY DEF NoLostWakeup
  <2>1. CASE w = "task"
    BY <2>1, <1>2, <1>4 DEF OutputInv, OutputTypeOK, Writers
  <2>2. CASE w = "flush"
    BY <2>2, <1>2 DEF OutputInv, OutputTypeOK, Writers, Open
  <2> QED BY <2>1, <2>2 DEF Writers
<1> QED
  BY <1>7, <1>8 DEF OutputInv

\* Every step of the transmit path keeps it.
LEMMA OutputNextInv == OutputInv /\ [OutputNext]_outputVars => OutputInv'
<1> SUFFICES ASSUME OutputInv, [OutputNext]_outputVars PROVE OutputInv'
  OBVIOUS
<1> USE DEF OutputInv, OutputTypeOK, NoLostWakeup, Open, Writers
<1>1. CASE semTake
  BY <1>1 DEF semTake
<1>2. CASE pppclose
  BY <1>2 DEF pppclose
<1>3. CASE Delete
  BY <1>3 DEF Delete, Packet
<1>4. ASSUME NEW w \in Writers, Write(w) PROVE OutputInv'
  <2>1. pc' \in {pc, [pc EXCEPT ![w] = "dequeue"]} /\ outm' \in {outm, 0} /\ pc[w] = "write"
    BY <1>4 DEF Write
  <2>2. UNCHANGED <<fastq, snd, sem, sent>>
    BY <1>4 DEF Write
  <2> QED BY <2>1, <2>2
<1>5. ASSUME NEW w \in Writers, WriteShort(w) PROVE OutputInv'
  BY <1>5 DEF WriteShort
<1>6. CASE UNCHANGED outputVars
  BY <1>6 DEF outputVars
<1> QED
  BY <1>1, <1>2, <1>3, <1>4, <1>5, <1>6, pppoutputInv, ppp_dequeueInv DEF OutputNext

\* No wakeup of the writing task is lost, however long the queues and however
\* often the binary semaphore is given (pppoutput, ppp_wrt_task).
THEOREM NoWakeupLost == OutputSpec => []NoLostWakeup
<1>1. OutputInv => NoLostWakeup
  BY DEF OutputInv
<1> QED
  BY <1>1, OutputInitInv, OutputNextInv, PTL DEF OutputSpec

-----------------------------------------------------------------------------
(***************************************************************************)
(* The timers.  The list is kept in differences: the first entry counts    *)
(* from a time t, each of the others from its predecessor.                 *)
(***************************************************************************)
Entry == [func : Func, c_time : Nat, due : Nat]

Spaced(l) == \A i \in 2 .. Len(l) : l[i].c_time = l[i].due - l[i - 1].due

From(l, t) == l # <<>> => l[1].due = t + l[1].c_time /\ l[1].c_time > 0

\* The delay up to a callout is a fold, so the lemmas on folds apply.
LEMMA ElapsedIs == \A l, i : Elapsed(l, i) = Time!Fold(0, SubSeq(l, 1, i))
  BY Zenon DEF Elapsed, AddTime, Time!Fold, FoldLeft, Time!FoldLeft, MapThenFoldSet,
               Time!MapThenFoldSet, Max, Time!Max

\* One callout further the delay grows by its own.
LEMMA ElapsedStep ==
    ASSUME NEW l \in Seq(Entry)
    PROVE  /\ Elapsed(l, 0) = 0
           /\ \A i \in 0 .. Len(l) - 1 : Elapsed(l, i + 1) = Elapsed(l, i) + l[i + 1].c_time
<1>1. SubSeq(l, 1, 0) = <<>>
  OBVIOUS
<1>2. Elapsed(l, 0) = 0
  BY <1>1, ElapsedIs, Time!FoldEmpty
<1>3. \A i \in 0 .. Len(l) - 1 :
        Time!Fold(0, SubSeq(l, 1, i + 1)) = AddTime(Time!Fold(0, SubSeq(l, 1, i)), l[i + 1])
  BY Time!FoldPrefix
<1> QED
  BY <1>2, <1>3, ElapsedIs DEF AddTime

\* The differences add up to the time that is left.
LEMMA ElapsedIsDue ==
    ASSUME NEW l \in Seq(Entry), NEW t \in Nat, Spaced(l), From(l, t)
    PROVE  Elapsed(l, 0) = 0 /\ \A i \in 1 .. Len(l) : Elapsed(l, i) = l[i].due - t
<1> DEFINE Bad == {n \in 1 .. Len(l) : Elapsed(l, n) # l[n].due - t}
<1> SUFFICES ASSUME Bad # {} PROVE FALSE
  BY ElapsedStep
<1>1. Bad \in SUBSET Nat
  OBVIOUS
<1>2. PICK n \in Bad : \A j \in Bad : n <= j
  <2> HIDE DEF Bad
  <2> QED BY <1>1, NatMin
<1>3. n \in 1 .. Len(l) /\ Elapsed(l, n) # l[n].due - t
  BY <1>2
<1>4. l[n] \in Entry /\ n - 1 \in 0 .. Len(l) - 1 /\ (n - 1) + 1 = n
  BY <1>3
<1>5. Elapsed(l, n) = Elapsed(l, n - 1) + l[n].c_time
  BY <1>4, ElapsedStep
<1>6. CASE n = 1
  <2>1. Elapsed(l, n) = l[1].c_time
    <3>1. n - 1 = 0 /\ l[1].c_time \in Nat
      BY <1>4, <1>6 DEF Entry
    <3>2. Elapsed(l, n - 1) = 0
      BY <3>1, ElapsedStep
    <3> QED BY <1>5, <1>6, <3>1, <3>2
  <2>2. l[1].due = t + l[1].c_time
    BY <1>3, <1>6 DEF From
  <2> QED BY <1>3, <1>4, <1>6, <2>1, <2>2 DEF Entry
<1>7. CASE n # 1
  <2>1. n - 1 \in 1 .. Len(l) /\ n - 1 \notin Bad
    <3> HIDE DEF Bad
    <3> QED BY <1>2, <1>3, <1>7
  <2>2. Elapsed(l, n - 1) = l[n - 1].due - t /\ l[n - 1] \in Entry
    BY <2>1
  <2>3. l[n].c_time = l[n].due - l[n - 1].due
    BY <1>3, <1>7 DEF Spaced
  <2>4. l[n].due \in Nat /\ l[n - 1].due \in Nat
    BY <1>4, <2>2 DEF Entry
  <2> QED BY <1>3, <1>5, <2>2, <2>3, <2>4
<1> QED
  BY <1>6, <1>7

\* The place that LinkIn looks for: after the entries that are due no later.
LEMMA LinkPlace ==
    ASSUME NEW l \in Seq(Entry), NEW t \in Nat, NEW s \in Nat, Spaced(l), From(l, t)
    PROVE  \E i \in 0 .. Len(l) : /\ Elapsed(l, i) <= s
                                  /\ i < Len(l) => Elapsed(l, i + 1) > s
<1> DEFINE Stop == {i \in 0 .. Len(l) : i < Len(l) => Elapsed(l, i + 1) > s}
<1>1. Stop \in SUBSET Nat /\ Len(l) \in Stop
  OBVIOUS
<1>2. PICK n \in Stop : \A j \in Stop : n <= j
  <2> HIDE DEF Stop
  <2> QED BY <1>1, NatMin
<1>3. n \in 0 .. Len(l) /\ (n < Len(l) => Elapsed(l, n + 1) > s)
  BY <1>2
<1>4. Elapsed(l, n) <= s
  <2>1. CASE n = 0
    BY <2>1, ElapsedStep
  <2>2. CASE n # 0
    <3>1. n - 1 \in 0 .. Len(l) /\ n - 1 < Len(l) /\ (n - 1) + 1 = n /\ n - 1 \notin Stop
      <4> HIDE DEF Stop
      <4> QED BY <1>2, <1>3, <2>2
    <3>2. ~ (Elapsed(l, n) > s)
      BY <3>1
    <3>3. Elapsed(l, n) \in Int
      <4>1. n \in 1 .. Len(l) /\ l[n] \in Entry
        BY <1>3, <2>2
      <4>2. Elapsed(l, n) = l[n].due - t
        BY <4>1, ElapsedIsDue
      <4> QED BY <4>1, <4>2 DEF Entry
    <3> QED BY <3>2, <3>3
  <2> QED BY <2>1, <2>2
<1> QED
  BY <1>3, <1>4

\* The times on the list never go back.
LEMMA DuesGrow ==
    ASSUME NEW l \in Seq(Entry), Spaced(l)
    PROVE  \A i \in 1 .. Len(l) : l[i].due >= l[1].due
<1> DEFINE Bad == {n \in 1 .. Len(l) : ~ (l[n].due >= l[1].due)}
<1> SUFFICES ASSUME Bad # {} PROVE FALSE
  OBVIOUS
<1>1. Bad \in SUBSET Nat
  OBVIOUS
<1>2. PICK n \in Bad : \A j \in Bad : n <= j
  <2> HIDE DEF Bad
  <2> QED BY <1>1, NatMin
<1>3. n \in 1 .. Len(l) /\ ~ (l[n].due >= l[1].due)
  BY <1>2
<1>4. l[n] \in Entry /\ l[1] \in Entry
  BY <1>3
<1>5. n # 1
  BY <1>3, <1>4 DEF Entry
<1>6. n - 1 \in 1 .. Len(l) /\ n - 1 \notin Bad
  <2> HIDE DEF Bad
  <2> QED BY <1>2, <1>3, <1>5
<1>7. l[n - 1].due >= l[1].due /\ l[n - 1] \in Entry
  BY <1>6
<1>8. l[n].c_time = l[n].due - l[n - 1].due
  BY <1>3, <1>5 DEF Spaced
<1>9. l[n].c_time \in Nat /\ l[n].due \in Nat /\ l[n - 1].due \in Nat /\ l[1].due \in Nat
  BY <1>4, <1>7 DEF Entry
<1> QED
  BY <1>3, <1>7, <1>8, <1>9

\* A callout that is linked in leaves a list that counts in differences, and
\* its head is the new callout exactly when the timer is set for it.
LEMMA LinkInSound ==
    ASSUME NEW l \in Seq(Entry), now \in Nat, NEW fn \in Func, NEW s \in Nat \ {0},
           Spaced(l), From(l, now)
    PROVE  LET l2 == LinkIn(l, fn, s) IN
           /\ l2 \in Seq(Entry) /\ l2 # <<>> /\ Spaced(l2)
           /\ IF l = <<>> \/ Head(l).c_time > s
                THEN l2[1].due = now + s /\ l2[1].c_time = s
                ELSE l2[1] = l[1]
<1> DEFINE P(i) == Elapsed(l, i) <= s /\ (i < Len(l) => Elapsed(l, i + 1) > s)
           n == CHOOSE i \in 0 .. Len(l) : P(i)
           c == [func |-> fn, c_time |-> s - Elapsed(l, n), due |-> now + s]
           r == [i \in 1 .. Len(l) - n |->
                   IF i = 1 THEN [l[n + 1] EXCEPT !.c_time = @ - c.c_time] ELSE l[n + i]]
           l2 == SubSeq(l, 1, n) \o <<c>> \o r
<1>1. n \in 0 .. Len(l) /\ P(n)
  <2>1. \E i \in 0 .. Len(l) : P(i)
    BY LinkPlace
  <2> QED BY <2>1
<1>2. LinkIn(l, fn, s) = l2
  BY DEF LinkIn
<1> HIDE DEF n
<1>3. /\ Elapsed(l, 0) = 0
      /\ \A i \in 1 .. Len(l) : Elapsed(l, i) = l[i].due - now
  BY ElapsedIsDue
<1>4. \A i \in 1 .. Len(l) : l[i].func \in Func /\ l[i].c_time \in Nat /\ l[i].due \in Nat
  <2>1. \A i \in 1 .. Len(l) : l[i] \in Entry
    OBVIOUS
  <2> QED BY <2>1 DEF Entry
<1>5. c.c_time \in Nat /\ c.due = now + s /\ c \in Entry
  <2>1. Elapsed(l, n) \in Int
    BY <1>1, <1>3, <1>4
  <2> QED BY <1>1, <2>1 DEF Entry
<1>6. n > 0 => c.c_time = c.due - l[n].due
  BY <1>1, <1>3, <1>4
<1>7. n = 0 => c.c_time = s
  BY <1>3
<1>8. n < Len(l) => l[n + 1].c_time - c.c_time = l[n + 1].due - c.due /\ l[n + 1].due > c.due
  <2> SUFFICES ASSUME n < Len(l)
               PROVE  l[n + 1].c_time - c.c_time = l[n + 1].due - c.due /\ l[n + 1].due > c.due
    OBVIOUS
  <2>1. n + 1 \in 1 .. Len(l)
    BY <1>1
  <2>2. l[n + 1].due - now > s
    BY <1>1, <1>3, <2>1
  <2>3. CASE n = 0
    <3>1. l[1].due = now + l[1].c_time
      BY <2>1, <2>3 DEF From
    <3> QED BY <1>4, <1>5, <1>7, <2>1, <2>2, <2>3, <3>1
  <2>4. CASE n > 0
    <3>1. l[n + 1].c_time = l[n + 1].due - l[n].due
      <4>1. n + 1 \in 2 .. Len(l) /\ (n + 1) - 1 = n
        BY <1>1, <2>1, <2>4
      <4> QED BY <4>1 DEF Spaced
    <3>2. n \in 1 .. Len(l)
      BY <1>1, <2>4
    <3> QED BY <1>4, <1>5, <1>6, <2>1, <2>2, <2>4, <3>1, <3>2, SMTT(40)
  <2> QED BY <1>1, <2>3, <2>4
<1> DEFINE d == [l[n + 1] EXCEPT !.c_time = @ - c.c_time]
<1>9. n < Len(l) => d \in Entry /\ d.c_time = l[n + 1].due - c.due /\ d.due = l[n + 1].due
  <2> SUFFICES ASSUME n < Len(l)
               PROVE  d \in Entry /\ d.c_time = l[n + 1].due - c.due /\ d.due = l[n + 1].due
    OBVIOUS
  <2>1. n + 1 \in 1 .. Len(l) /\ l[n + 1] \in Entry
    BY <1>1
  <2>2. l[n + 1].c_time - c.c_time \in Nat /\ c.due \in Nat
    BY <1>4, <1>5, <1>8, <2>1
  <2> QED BY <1>8, <2>1, <2>2 DEF Entry
<1> HIDE DEF c
<1>10. r = [i \in 1 .. Len(l) - n |-> IF i = 1 THEN d ELSE l[n + i]]
  OBVIOUS
<1> HIDE DEF d
<1>11. r \in Seq(Entry) /\ Len(r) = Len(l) - n
  <2>1. Len(l) - n \in Nat
    BY <1>1
  <2>2. \A i \in 1 .. Len(l) - n : (IF i = 1 THEN d ELSE l[n + i]) \in Entry
    BY <1>1, <1>9
  <2> QED BY <1>10, <2>1, <2>2
<1>12. r # <<>> => r[1] = d
  BY <1>1, <1>10
<1>13. \A i \in 2 .. Len(l) - n : r[i] = l[n + i]
  BY <1>1, <1>10
<1> HIDE DEF r
<1>14. l2 \in Seq(Entry) /\ Len(l2) = Len(l) + 1
  BY <1>1, <1>5, <1>11
<1>15. \A i \in 1 .. n : l2[i] = l[i]
  BY <1>1, <1>5, <1>11
<1>16. l2[n + 1] = c
  BY <1>1, <1>5, <1>11
<1>17. \A i \in 1 .. Len(l) - n : l2[n + 1 + i] = r[i]
  BY <1>1, <1>5, <1>11
<1> HIDE DEF l2
<1>18. Spaced(l2)
  <2> SUFFICES ASSUME NEW i \in 2 .. Len(l) + 1
               PROVE  l2[i].c_time = l2[i].due - l2[i - 1].due
    BY <1>14 DEF Spaced
  <2>1. CASE i <= n
    <3>1. l2[i] = l[i] /\ l2[i - 1] = l[i - 1] /\ i \in 2 .. Len(l)
      BY <1>1, <1>15, <2>1
    <3> QED BY <3>1 DEF Spaced
  <2>2. CASE i = n + 1
    <3>1. l2[i] = c /\ l2[i - 1] = l[n] /\ n > 0
      BY <1>1, <1>15, <1>16, <2>2
    <3> QED BY <3>1, <1>6
  <2>3. CASE i = n + 2
    <3>1. n < Len(l) /\ Len(l) \in Nat /\ n \in Nat
      BY <2>3, <1>1
    <3>2. l2[n + 1 + 1] = r[1] /\ r # <<>>
      BY <3>1, <1>11, <1>17
    <3>3. l2[i] = d /\ l2[i - 1] = c
      BY <3>1, <3>2, <1>12, <1>16, <2>3
    <3> QED BY <3>1, <3>3, <1>9
  <2>4. CASE i > n + 2
    <3> DEFINE j == i - n - 1
    <3>1. j \in 2 .. Len(l) - n /\ n + 1 + j = i /\ n + 1 + (j - 1) = i - 1 /\ n + j = i - 1
          /\ j \in 1 .. Len(l) - n /\ j - 1 \in 1 .. Len(l) - n /\ i - 1 \in 2 .. Len(l)
          /\ n < Len(l)
      BY <1>1, <2>4
    <3> HIDE DEF j
    <3>2. l2[i] = l[i - 1]
      BY <3>1, <1>13, <1>17
    <3>3. l2[i - 1].due = l[i - 1 - 1].due
      <4>1. l2[i - 1] = r[j - 1]
        BY <3>1, <1>17
      <4>2. CASE j = 2
        <5>1. r # <<>> /\ j - 1 = 1
          BY <3>1, <1>11, <4>2
        <5>2. l2[i - 1] = d /\ n + 1 = i - 1 - 1
          BY <4>1, <5>1, <1>12, <3>1, <4>2, <1>1
        <5> QED BY <5>2, <1>9, <3>1
      <4>3. CASE j # 2
        <5>1. j - 1 \in 2 .. Len(l) - n /\ n + (j - 1) = i - 1 - 1
          BY <3>1, <4>3, <1>1
        <5> QED BY <5>1, <4>1, <1>13
      <4> QED BY <4>2, <4>3
    <3> QED BY <3>1, <3>2, <3>3 DEF Spaced
  <2> QED BY <1>1, <2>1, <2>2, <2>3, <2>4
<1>19. CASE l = <<>> \/ Head(l).c_time > s
  <2>1. n = 0
    <3> SUFFICES ASSUME n # 0 PROVE FALSE
      OBVIOUS
    <3>1. n \in 1 .. Len(l) /\ l # <<>> /\ Head(l) = l[1] /\ 1 \in 1 .. Len(l)
      BY <1>1
    <3>2. l[n].due >= l[1].due
      BY <3>1, DuesGrow
    <3>3. l[n].due - now <= s
      BY <3>1, <1>1, <1>3
    <3>4. l[1].due = now + l[1].c_time
      BY <3>1 DEF From
    <3> QED BY <1>19, <3>1, <3>2, <3>3, <3>4, <1>4
  <2>2. l2[1] = c
    BY <2>1, <1>16
  <2> QED BY <1>2, <1>5, <1>7, <1>14, <1>18, <1>19, <2>1, <2>2
<1>20. CASE ~(l = <<>> \/ Head(l).c_time > s)
  <2>1. l # <<>> /\ Head(l) = l[1] /\ 1 \in 1 .. Len(l)
    BY <1>20
  <2>2. n # 0
    <3> SUFFICES ASSUME n = 0 PROVE FALSE
      OBVIOUS
    <3>1. Elapsed(l, 1) > s /\ Elapsed(l, 1) = l[1].due - now
      BY <1>1, <1>3, <2>1
    <3>2. l[1].due = now + l[1].c_time
      BY <2>1 DEF From
    <3> QED BY <1>4, <1>20, <2>1, <3>1, <3>2
  <2>3. l2[1] = l[1]
    BY <1>1, <1>15, <2>2
  <2> QED BY <1>2, <1>14, <1>18, <1>20, <2>3
<1> QED
  BY <1>19, <1>20

\* The list without its i-th callout, whose time its successor gets.
Unlinked(l, i) ==
    [j \in 1 .. Len(l) - 1 |->
        IF j < i THEN l[j]
        ELSE IF j = i THEN [l[j + 1] EXCEPT !.c_time = @ + l[i].c_time]
        ELSE l[j + 1]]

\* Taking a callout off leaves the others at their times.
LEMMA UnlinkSound ==
    ASSUME NEW l \in Seq(Entry), NEW t \in Nat, NEW i \in DOMAIN l, Spaced(l), From(l, t),
           NEW l2, l2 = Unlinked(l, i)
    PROVE  /\ l2 \in Seq(Entry) /\ Spaced(l2) /\ From(l2, t)
           /\ i # 1 => l2 # <<>> /\ l2[1] = l[1]
<1>1. i \in 1 .. Len(l) /\ DOMAIN l = 1 .. Len(l) /\ Len(l) - 1 \in Nat
  OBVIOUS
<1>2. \A j \in 1 .. Len(l) : l[j].func \in Func /\ l[j].c_time \in Nat /\ l[j].due \in Nat
  <2>1. \A j \in 1 .. Len(l) : l[j] \in Entry
    OBVIOUS
  <2> QED BY <2>1 DEF Entry
<1> DEFINE d == [l[i + 1] EXCEPT !.c_time = @ + l[i].c_time]
<1>3. i < Len(l) => d \in Entry /\ d.due = l[i + 1].due /\ d.c_time = l[i + 1].c_time + l[i].c_time
  <2> SUFFICES ASSUME i < Len(l)
               PROVE  d \in Entry /\ d.due = l[i + 1].due /\ d.c_time = l[i + 1].c_time + l[i].c_time
    OBVIOUS
  <2>1. i + 1 \in 1 .. Len(l) /\ l[i + 1] \in Entry
    BY <1>1
  <2>2. l[i + 1].c_time + l[i].c_time \in Nat
    BY <1>1, <1>2, <2>1
  <2> QED BY <2>1, <2>2 DEF Entry
<1>4. l2 = [j \in 1 .. Len(l) - 1 |-> IF j < i THEN l[j] ELSE IF j = i THEN d ELSE l[j + 1]]
  BY DEF Unlinked
<1> HIDE DEF d
<1>5. l2 \in Seq(Entry) /\ Len(l2) = Len(l) - 1
  <2>1. \A j \in 1 .. Len(l) - 1 : (IF j < i THEN l[j] ELSE IF j = i THEN d ELSE l[j + 1]) \in Entry
    BY <1>1, <1>3
  <2> QED BY <1>1, <1>4, <2>1
<1>6. \A j \in 1 .. Len(l) - 1 : /\ j < i => l2[j] = l[j]
                                 /\ j = i => l2[j] = d
                                 /\ j > i => l2[j] = l[j + 1]
  BY <1>1, <1>4
<1>7. Spaced(l2)
  <2> SUFFICES ASSUME NEW j \in 2 .. Len(l) - 1
               PROVE  l2[j].c_time = l2[j].due - l2[j - 1].due
    BY <1>5 DEF Spaced
  <2>0. j \in 1 .. Len(l) - 1 /\ j - 1 \in 1 .. Len(l) - 1 /\ j + 1 \in 2 .. Len(l) /\ j \in 2 .. Len(l)
        /\ j + 1 - 1 = j /\ j - 1 + 1 = j
    BY <1>1
  <2>9. l[j].c_time = l[j].due - l[j - 1].due /\ l[j + 1].c_time = l[j + 1].due - l[j].due
    BY <2>0 DEF Spaced
  <2>1. CASE j < i
    <3>1. j - 1 < i
      BY <1>1, <2>0, <2>1
    <3>2. l2[j] = l[j] /\ l2[j - 1] = l[j - 1]
      BY <1>6, <2>0, <2>1, <3>1
    <3> QED BY <2>9, <3>2, Zenon
  <2>2. CASE j = i
    <3>1. l2[j] = d /\ l2[j - 1] = l[j - 1]
      BY <1>1, <1>6, <2>0, <2>2
    <3>2. i < Len(l) /\ j - 1 \in 1 .. Len(l) /\ j + 1 \in 1 .. Len(l)
      BY <2>0, <2>2, <1>1
    <3>3. d.due = l[j + 1].due /\ d.c_time = l[j + 1].c_time + l[j].c_time
      BY <1>3, <2>2, <3>2
    <3>4. l[j].due \in Nat /\ l[j - 1].due \in Nat /\ l[j + 1].due \in Nat
      BY <1>2, <3>2, <2>0
    <3>5. \A x, y, z \in Nat : (z - y) + (y - x) = z - x
      OBVIOUS
    <3>6. d.c_time = (l[j + 1].due - l[j].due) + (l[j].due - l[j - 1].due)
      BY <3>3, <2>9, Zenon
    <3>7. d.c_time = l[j + 1].due - l[j - 1].due
      BY <3>4, <3>5, <3>6, Zenon
    <3> QED BY <3>1, <3>3, <3>7
  <2>3. CASE j = i + 1
    <3>1. l2[j] = l[j + 1] /\ l2[j - 1] = d /\ i < Len(l)
      BY <1>1, <1>6, <2>0, <2>3, SMTT(40)
    <3>2. d.due = l[j].due
      BY <1>1, <1>3, <2>3, <3>1
    <3> QED BY <3>1, <3>2, <2>9
  <2>4. CASE j > i + 1
    <3>1. l2[j] = l[j + 1] /\ l2[j - 1] = l[j - 1 + 1]
      BY <1>1, <1>6, <2>0, <2>4
    <3> QED BY <3>1, <2>0, <2>9
  <2> QED BY <1>1, <2>1, <2>2, <2>3, <2>4
<1>8. i # 1 => l2 # <<>> /\ l2[1] = l[1]
  BY <1>1, <1>5, <1>6
<1>9. From(l2, t)
  <2>1. CASE i # 1
    <3>1. l # <<>> /\ l2[1] = l[1]
      BY <1>1, <1>8, <2>1
    <3> QED BY <3>1 DEF From
  <2>2. CASE i = 1
    <3> SUFFICES ASSUME l2 # <<>> PROVE l2[1].due = t + l2[1].c_time /\ l2[1].c_time > 0
      BY DEF From
    <3>1. 1 \in 1 .. Len(l) - 1 /\ i < Len(l) /\ 2 \in 1 .. Len(l) /\ 1 \in 1 .. Len(l) /\ l # <<>>
      BY <1>1, <1>5, <2>2
    <3>2. l2[1] = d /\ d.due = l[2].due /\ d.c_time = l[2].c_time + l[1].c_time
      <4>1. i + 1 = 2
        BY <2>2
      <4>2. l2[1] = d
        BY <3>1, <1>6, <2>2
      <4> QED BY <4>1, <4>2, <3>1, <1>3, <2>2
    <3>3. l[2].c_time = l[2].due - l[1].due
      <4>1. 2 \in 2 .. Len(l) /\ 2 - 1 = 1
        BY <3>1
      <4> QED BY <4>1 DEF Spaced
    <3>4. l[1].due = t + l[1].c_time /\ l[1].c_time > 0
      BY <3>1 DEF From
    <3>5. l[1].c_time \in Nat /\ l[2].c_time \in Nat /\ l[1].due \in Nat /\ l[2].due \in Nat
      BY <3>1, <1>2
    <3>6. l[2].due = t + (l[2].c_time + l[1].c_time) /\ l[2].c_time + l[1].c_time > 0
      <4>1. \A x, y, u, v \in Nat : u = v - x /\ x = t + y /\ y > 0
                                   => v = t + (u + y) /\ u + y > 0
        OBVIOUS
      <4> QED BY <3>3, <3>4, <3>5, <4>1, SMTT(40)
    <3> QED BY <3>2, <3>6
  <2> QED BY <2>1, <2>2
<1> QED
  BY <1>5, <1>7, <1>8, <1>9

\* How many callouts alrm() detaches: the head and those due with it.
Batch(l, n) ==
    /\ \A j \in 2 .. n : l[j].c_time = 0
    /\ n < Len(l) => l[n + 1].c_time # 0

\* The callouts that a signal serves are a prefix of the list.
LEMMA BatchExists ==
    ASSUME NEW l \in Seq(Entry), l # <<>>
    PROVE  \E n \in 1 .. Len(l) : Batch(l, n)
<1> DEFINE Stop == {i \in 1 .. Len(l) : i < Len(l) => l[i + 1].c_time # 0}
<1>1. Stop \in SUBSET Nat /\ Len(l) \in Stop
  OBVIOUS
<1>2. PICK i \in Stop : \A j \in Stop : i <= j
  <2> HIDE DEF Stop
  <2> QED BY <1>1, NatMin
<1>3. i \in 1 .. Len(l) /\ (i < Len(l) => l[i + 1].c_time # 0)
  BY <1>2
<1>4. ASSUME NEW j \in 2 .. i PROVE l[j].c_time = 0
  <2>1. j - 1 \in 1 .. Len(l) /\ j - 1 < Len(l) /\ (j - 1) + 1 = j /\ j - 1 \notin Stop
    <3> HIDE DEF Stop
    <3> QED BY <1>2, <1>3
  <2> QED BY <2>1
<1>5. Batch(l, i)
  BY <1>3, <1>4 DEF Batch
<1> QED
  BY <1>3, <1>5

\* What alrm() detaches is due with the head; what it leaves counts from there.
LEMMA DetachSound ==
    ASSUME NEW l \in Seq(Entry), l # <<>>, Spaced(l), NEW n \in 1 .. Len(l), Batch(l, n)
    PROVE  LET a == SubSeq(l, 1, n)
               l2 == SubSeq(l, n + 1, Len(l))
           IN  /\ a \in Seq(Entry) /\ a # <<>> /\ \A i \in DOMAIN a : a[i].due = l[1].due
               /\ l2 \in Seq(Entry) /\ Spaced(l2) /\ From(l2, l[1].due)
<1> DEFINE a == SubSeq(l, 1, n)
           l2 == SubSeq(l, n + 1, Len(l))
<1>1. n \in 1 .. Len(l) /\ Batch(l, n)
  OBVIOUS
<1>2. \A j \in 1 .. Len(l) : l[j].func \in Func /\ l[j].c_time \in Nat /\ l[j].due \in Nat
  <2>1. \A j \in 1 .. Len(l) : l[j] \in Entry
    OBVIOUS
  <2> QED BY <2>1 DEF Entry
<1>3. \A i \in 1 .. n : l[i].due = l[1].due
  <2> DEFINE Bad == {i \in 1 .. n : l[i].due # l[1].due}
  <2> SUFFICES ASSUME Bad # {} PROVE FALSE
    OBVIOUS
  <2>1. Bad \in SUBSET Nat
    OBVIOUS
  <2>2. PICK i \in Bad : \A j \in Bad : i <= j
    <3> HIDE DEF Bad
    <3> QED BY <2>1, NatMin
  <2>3. i \in 2 .. n /\ l[i].due # l[1].due
    BY <1>1, <2>2
  <2>4. i - 1 \in 1 .. n /\ i - 1 \notin Bad
    <3> HIDE DEF Bad
    <3> QED BY <1>1, <2>2, <2>3
  <2>5. l[i - 1].due = l[1].due
    BY <2>4
  <2>6. i \in 2 .. Len(l) /\ i \in 1 .. Len(l) /\ i - 1 \in 1 .. Len(l)
    BY <1>1, <2>3
  <2>7. l[i].c_time = 0 /\ l[i].c_time = l[i].due - l[i - 1].due
    BY <1>1, <2>3, <2>6 DEF Batch, Spaced
  <2> QED BY <1>2, <2>3, <2>5, <2>6, <2>7
<1>4. a \in Seq(Entry) /\ Len(a) = n /\ \A i \in 1 .. n : a[i] = l[i]
  OBVIOUS
<1>6. l2 \in Seq(Entry) /\ Len(l2) = Len(l) - n /\ \A i \in 1 .. Len(l) - n : l2[i] = l[n + i]
  OBVIOUS
<1> HIDE DEF a, l2
<1>5. a # <<>> /\ \A i \in DOMAIN a : a[i].due = l[1].due
  BY <1>1, <1>3, <1>4
<1>7. Spaced(l2)
  <2> SUFFICES ASSUME NEW i \in 2 .. Len(l) - n PROVE l2[i].c_time = l2[i].due - l2[i - 1].due
    BY <1>6 DEF Spaced
  <2>1. i \in 1 .. Len(l) - n /\ i - 1 \in 1 .. Len(l) - n /\ n + (i - 1) = (n + i) - 1
        /\ n + i \in 2 .. Len(l)
    OBVIOUS
  <2>2. l2[i] = l[n + i] /\ l2[i - 1] = l[(n + i) - 1]
    BY <1>6, <2>1
  <2> QED BY <2>1, <2>2 DEF Spaced
<1>8. From(l2, l[1].due)
  <2> SUFFICES ASSUME l2 # <<>> PROVE l2[1].due = l[1].due + l2[1].c_time /\ l2[1].c_time > 0
    BY DEF From
  <2>1. n < Len(l) /\ l2[1] = l[n + 1] /\ n + 1 \in 1 .. Len(l) /\ n + 1 \in 2 .. Len(l) /\ (n + 1) - 1 = n
        /\ n \in 1 .. n /\ n \in 1 .. Len(l)
    BY <1>1, <1>6
  <2>2. l[n + 1].c_time = l[n + 1].due - l[n].due
    BY <2>1 DEF Spaced
  <2>3. l[n].due = l[1].due /\ l[n + 1].c_time # 0
    BY <2>1, <1>1, <1>3 DEF Batch
  <2> QED BY <1>2, <2>1, <2>2, <2>3
<1> QED
  BY <1>4, <1>5, <1>6, <1>7, <1>8 DEF a, l2

-----------------------------------------------------------------------------
(***************************************************************************)
(* The inductive invariant of the timers when no two signals arrive in one *)
(* timer period: the head counts from schedtime until adjtimeout() has     *)
(* been called, and from now inside a handler; the timer runs for it.      *)
(***************************************************************************)
CalloutTypeOK ==
    /\ now \in Nat /\ schedtime \in Nat /\ itimer \in Nat
    /\ callout \in Seq(Entry) /\ list \in Seq(Entry)
    /\ alarm \in BOOLEAN /\ adjusted \in BOOLEAN
    /\ handler \in {"none", "alrm", "other"}

TimerSet ==
    IF callout = <<>> THEN itimer = 0 /\ ~alarm
    ELSE /\ callout[1].c_time > 0
         /\ IF alarm THEN itimer = 0 /\ callout[1].due = now /\ handler = "none"
            ELSE itimer = callout[1].due /\ itimer > now

HeadCounts ==
    /\ Spaced(callout)
    /\ handler # "none" => From(callout, now)
    /\ ~adjusted => From(callout, schedtime)
    /\ schedtime <= now

BatchDue ==
    /\ handler # "alrm" => list = <<>>
    /\ \A i \in DOMAIN list : list[i].due = now

CalloutInv == CalloutTypeOK /\ TimerSet /\ HeadCounts /\ BatchDue

\* The timer is set for the head of a list that counts from now.
LEMMA SetItimerSound ==
    ASSUME CalloutTypeOK, callout' \in Seq(Entry), Spaced(callout'), From(callout', now),
           SetItimer(callout'), UNCHANGED <<now, alarm>>, ~alarm
    PROVE  /\ TimerSet' /\ From(callout', schedtime') /\ schedtime' <= now'
           /\ itimer' \in Nat /\ schedtime' \in Nat /\ adjusted' \in BOOLEAN
<1>1. schedtime' = now /\ adjusted' = FALSE /\ now' = now /\ now \in Nat
  BY DEF SetItimer, CalloutTypeOK
<1>2. From(callout', schedtime') /\ schedtime' <= now' /\ schedtime' \in Nat /\ adjusted' \in BOOLEAN
  <2>1. From(callout', schedtime')
    BY <1>1, Zenon
  <2>2. adjusted' \in BOOLEAN
    BY <1>1, Zenon
  <2>3. schedtime' <= now' /\ schedtime' \in Nat
    BY <1>1
  <2> QED BY <2>1, <2>2, <2>3
<1>3. CASE callout' = <<>>
  BY <1>1, <1>2, <1>3 DEF SetItimer, TimerSet
<1>4. CASE callout' # <<>>
  <2>1. callout'[1] \in Entry /\ Head(callout') = callout'[1]
    BY <1>4
  <2>2. callout'[1].c_time \in Nat /\ callout'[1].due \in Nat
    BY <2>1 DEF Entry
  <2>3. callout'[1].due = now + callout'[1].c_time /\ callout'[1].c_time > 0
    BY <1>4 DEF From
  <2>4. itimer' = now + callout'[1].c_time
    BY <1>4, <2>1, <2>2, <2>3 DEF SetItimer
  <2>5. itimer' = callout'[1].due /\ itimer' > now /\ itimer' \in Nat
    BY <1>1, <2>2, <2>3, <2>4
  <2> QED BY <1>1, <1>2, <1>4, <2>3, <2>5 DEF TimerSet
<1> QED
  BY <1>3, <1>4

\* A list whose head stays needs no new timer.
LEMMA KeepItimerSound ==
    ASSUME CalloutInv, callout # <<>>, callout' # <<>>, callout'[1] = callout[1],
           KeepItimer, UNCHANGED <<now, alarm, handler>>
    PROVE  /\ TimerSet' /\ (handler' # "none" => From(callout', now'))
           /\ (~adjusted' => From(callout', schedtime')) /\ schedtime' <= now'
           /\ itimer' \in Nat /\ schedtime' \in Nat /\ adjusted' \in BOOLEAN
<1>1. UNCHANGED <<itimer, schedtime, adjusted, now, alarm, handler>>
  BY DEF KeepItimer
<1>2. TimerSet'
  BY <1>1 DEF CalloutInv, TimerSet
<1>3. /\ (handler' # "none" => From(callout', now'))
      /\ (~adjusted' => From(callout', schedtime'))
  BY <1>1 DEF CalloutInv, HeadCounts, From
<1> QED
  BY <1>1, <1>2, <1>3 DEF CalloutInv, CalloutTypeOK, HeadCounts

\* The invariant of the callout list holds at the start.
LEMMA CalloutInitInv == CalloutInit => CalloutInv
<1> SUFFICES ASSUME CalloutInit PROVE CalloutInv
  OBVIOUS
<1>1. CalloutTypeOK
  <2>1. callout \in Seq(Entry) /\ list \in Seq(Entry)
    BY DEF CalloutInit
  <2> QED BY <2>1 DEF CalloutTypeOK, CalloutInit
<1>2. TimerSet /\ HeadCounts /\ BatchDue
  BY DEF TimerSet, HeadCounts, BatchDue, CalloutInit, Spaced, From
<1> QED
  BY <1>1, <1>2 DEF CalloutInv

\* A callout is inserted (ppp_timeout).
LEMMA ppp_timeoutInv ==
    ASSUME CalloutInv, NEW fn \in Func, NEW s \in Seconds, ppp_timeout(fn, s)
    PROVE  CalloutInv'
<1>1. s \in Nat \ {0} /\ now \in Nat /\ callout \in Seq(Entry)
  BY CalloutAssumption DEF CalloutInv, CalloutTypeOK
<1>2. UNCHANGED <<now, alarm, list, handler>> /\ handler # "none" /\ callout' = LinkIn(callout, fn, s)
  BY DEF ppp_timeout
<1>3. Spaced(callout) /\ From(callout, now) /\ ~alarm
  BY <1>2 DEF CalloutInv, HeadCounts, TimerSet
<1>4. /\ callout' \in Seq(Entry) /\ callout' # <<>> /\ Spaced(callout')
      /\ IF callout = <<>> \/ Head(callout).c_time > s
           THEN callout'[1].due = now + s /\ callout'[1].c_time = s
           ELSE callout'[1] = callout[1]
  BY <1>1, <1>2, <1>3, LinkInSound
<1>5. CASE callout = <<>> \/ Head(callout).c_time > s
  <2>1. SetItimer(callout')
    BY <1>5 DEF ppp_timeout
  <2>2. From(callout', now)
    BY <1>1, <1>4, <1>5 DEF From
  <2>3. /\ TimerSet' /\ From(callout', schedtime') /\ schedtime' <= now'
        /\ itimer' \in Nat /\ schedtime' \in Nat /\ adjusted' \in BOOLEAN
    BY <1>2, <1>3, <1>4, <2>1, <2>2, SetItimerSound DEF CalloutInv
  <2>4. CalloutTypeOK'
    BY <1>2, <1>4, <2>3 DEF CalloutInv, CalloutTypeOK
  <2>5. HeadCounts' /\ BatchDue'
    BY <1>2, <1>4, <2>2, <2>3 DEF CalloutInv, HeadCounts, BatchDue
  <2> QED BY <2>3, <2>4, <2>5 DEF CalloutInv
<1>6. CASE ~ (callout = <<>> \/ Head(callout).c_time > s)
  <2>1. KeepItimer
    BY <1>6 DEF ppp_timeout
  <2>2. /\ TimerSet' /\ (handler' # "none" => From(callout', now'))
        /\ (~adjusted' => From(callout', schedtime')) /\ schedtime' <= now'
        /\ itimer' \in Nat /\ schedtime' \in Nat /\ adjusted' \in BOOLEAN
    BY <1>2, <1>4, <1>6, <2>1, KeepItimerSound
  <2>4. CalloutTypeOK'
    BY <1>2, <1>4, <2>2 DEF CalloutInv, CalloutTypeOK
  <2>5. HeadCounts' /\ BatchDue'
    BY <1>2, <1>4, <2>2 DEF CalloutInv, HeadCounts, BatchDue
  <2> QED BY <2>2, <2>4, <2>5 DEF CalloutInv
<1> QED
  BY <1>5, <1>6

\* A callout is cancelled (ppp_untimeout).
LEMMA ppp_untimeoutInv ==
    ASSUME CalloutInv, NEW fn \in Func, ppp_untimeout(fn)
    PROVE  CalloutInv'
<1>1. UNCHANGED <<now, alarm, list, handler>> /\ handler # "none"
  BY DEF ppp_untimeout
<1>2. now \in Nat /\ callout \in Seq(Entry) /\ Spaced(callout) /\ From(callout, now) /\ ~alarm
  BY <1>1 DEF CalloutInv, CalloutTypeOK, HeadCounts, TimerSet
<1>3. PICK i \in DOMAIN callout :
        callout' = Unlinked(callout, i) /\ Reschedule(callout', i)
  BY Zenon DEF ppp_untimeout, Unlinked
<1>4. /\ callout' \in Seq(Entry) /\ Spaced(callout') /\ From(callout', now)
      /\ i # 1 => callout' # <<>> /\ callout'[1] = callout[1]
  BY <1>2, <1>3, UnlinkSound
<1>5. CASE i = 1
  <2>1. SetItimer(callout')
    BY <1>3, <1>5 DEF Reschedule
  <2>3. /\ TimerSet' /\ From(callout', schedtime') /\ schedtime' <= now'
        /\ itimer' \in Nat /\ schedtime' \in Nat /\ adjusted' \in BOOLEAN
    BY <1>1, <1>2, <1>4, <2>1, SetItimerSound DEF CalloutInv
  <2>4. CalloutTypeOK'
    BY <1>1, <1>4, <2>3 DEF CalloutInv, CalloutTypeOK
  <2>5. HeadCounts' /\ BatchDue'
    BY <1>1, <1>4, <2>3 DEF CalloutInv, HeadCounts, BatchDue
  <2> QED BY <2>3, <2>4, <2>5 DEF CalloutInv
<1>6. CASE i # 1
  <2>1. KeepItimer /\ callout # <<>>
    BY <1>3, <1>6 DEF Reschedule
  <2>2. /\ TimerSet' /\ (handler' # "none" => From(callout', now'))
        /\ (~adjusted' => From(callout', schedtime')) /\ schedtime' <= now'
        /\ itimer' \in Nat /\ schedtime' \in Nat /\ adjusted' \in BOOLEAN
    BY <1>1, <1>4, <1>6, <2>1, KeepItimerSound
  <2>4. CalloutTypeOK'
    BY <1>1, <1>4, <2>2 DEF CalloutInv, CalloutTypeOK
  <2>5. HeadCounts' /\ BatchDue'
    BY <1>1, <1>4, <2>2 DEF CalloutInv, HeadCounts, BatchDue
  <2> QED BY <2>2, <2>4, <2>5 DEF CalloutInv
<1> QED
  BY <1>5, <1>6

\* SIGIO, SIGHUP, SIGTERM or SIGINT is delivered (Signal).
LEMMA SignalInv ==
    ASSUME ~Bursts, CalloutInv, Signal
    PROVE  CalloutInv'
<1>1. /\ handler = "none" /\ handler' = "other" /\ ~adjusted /\ ~alarm
      /\ UNCHANGED <<now, alarm, list>> /\ adjtimeout
  BY DEF Signal
<1>2. /\ now \in Nat /\ schedtime \in Nat /\ schedtime <= now /\ itimer \in Nat
      /\ callout \in Seq(Entry) /\ list \in Seq(Entry) /\ Spaced(callout) /\ From(callout, schedtime)
  BY <1>1 DEF CalloutInv, CalloutTypeOK, HeadCounts
<1>3. CASE callout = <<>>
  <2>1. UNCHANGED <<callout, itimer, schedtime, adjusted>>
    BY <1>1, <1>3 DEF adjtimeout, KeepItimer
  <2>2. CalloutTypeOK'
    BY <1>1, <2>1 DEF CalloutInv, CalloutTypeOK
  <2>3. TimerSet' /\ HeadCounts'
    BY <1>1, <1>3, <2>1 DEF CalloutInv, TimerSet, HeadCounts, From
  <2>4. BatchDue'
    BY <1>1 DEF CalloutInv, BatchDue
  <2> QED BY <2>2, <2>3, <2>4 DEF CalloutInv
<1>4. CASE callout # <<>>
  <2> DEFINE h == callout[1]
             d == now - schedtime
  <2>1. /\ h \in Entry /\ Head(callout) = h /\ h.c_time \in Nat /\ h.due \in Nat
        /\ 1 \in 1 .. Len(callout)
    <3>1. h \in Entry /\ Head(callout) = h /\ 1 \in 1 .. Len(callout)
      BY <1>2, <1>4
    <3> QED BY <3>1 DEF Entry
  <2>2. h.due = schedtime + h.c_time /\ itimer = h.due /\ itimer > now
    BY <1>1, <1>2, <1>4 DEF CalloutInv, TimerSet, From
  <2> HIDE DEF h
  <2>3. d < h.c_time /\ d \in Nat
    BY <1>2, <2>1, <2>2
  <2>4. /\ callout' = [callout EXCEPT ![1].c_time = @ - d]
        /\ adjusted' = (adjusted \/ d > 0) /\ UNCHANGED <<itimer, schedtime>>
    BY <1>1, <1>2, <1>4, <2>1, <2>3 DEF adjtimeout
  <2> HIDE DEF d
  <2> DEFINE g == [h EXCEPT !.c_time = @ - d]
  <2>5. callout' = [callout EXCEPT ![1] = g]
    BY <2>4 DEF h
  <2>6. g \in Entry /\ g.due = h.due /\ g.c_time = h.c_time - d
    <3>1. h.c_time - d \in Nat
      BY <2>1, <2>3
    <3> QED BY <2>1, <3>1 DEF Entry
  <2>7. h.due = now + (h.c_time - d) /\ h.c_time - d > 0
    BY <1>2, <2>1, <2>2, <2>3 DEF d
  <2> HIDE DEF g
  <2>8. /\ callout' \in Seq(Entry) /\ Len(callout') = Len(callout) /\ callout'[1] = g
        /\ \A i \in 2 .. Len(callout) : callout'[i] = callout[i]
    BY <1>2, <2>1, <2>5, <2>6
  <2>9. Spaced(callout')
    <3> SUFFICES ASSUME NEW i \in 2 .. Len(callout)
                 PROVE  callout'[i].c_time = callout'[i].due - callout'[i - 1].due
      BY <2>8 DEF Spaced
    <3>1. callout[i].c_time = callout[i].due - callout[i - 1].due
      BY <1>2 DEF Spaced
    <3>2. callout'[i] = callout[i]
      BY <2>8
    <3>3. callout'[i - 1].due = callout[i - 1].due
      <4>1. CASE i = 2
        BY <4>1, <2>8, <2>6 DEF h
      <4>2. CASE i # 2
        <5>1. i - 1 \in 2 .. Len(callout)
          BY <4>2
        <5> QED BY <5>1, <2>8
      <4> QED BY <4>1, <4>2
    <3> QED BY <3>1, <3>2, <3>3
  <2>10. callout' # <<>>
    BY <2>1, <2>8
  <2>11. From(callout', now)
    BY <2>6, <2>7, <2>8 DEF From
  <2>12. ~adjusted' => schedtime = now
    <3>1. ~adjusted' => ~(d > 0)
      BY <2>4, Zenon
    <3>2. ~(d > 0) => schedtime = now
      BY <1>2, <2>3 DEF d
    <3> QED BY <3>1, <3>2
  <2>13. CalloutTypeOK'
    <3>1. adjusted' \in BOOLEAN
      BY <2>4
    <3> QED BY <1>1, <1>2, <2>4, <2>8, <3>1 DEF CalloutTypeOK, CalloutInv
  <2>14. TimerSet'
    BY <1>1, <2>2, <2>4, <2>6, <2>7, <2>8, <2>10 DEF TimerSet
  <2>15. HeadCounts'
    BY <1>1, <1>2, <2>4, <2>9, <2>11, <2>12 DEF HeadCounts
  <2>16. BatchDue'
    BY <1>1 DEF CalloutInv, BatchDue
  <2> QED BY <2>13, <2>14, <2>15, <2>16 DEF CalloutInv
<1> QED
  BY <1>3, <1>4

\* The callouts that are due are called (alrm).
LEMMA alrmInv ==
    ASSUME CalloutInv, alrm
    PROVE  CalloutInv'
<1>1. handler = "none" /\ alarm /\ alarm' = FALSE /\ now' = now
  BY DEF alrm
<1>2. callout # <<>> /\ itimer = 0 /\ callout[1].due = now
  BY <1>1 DEF CalloutInv, TimerSet
<1>3. /\ now \in Nat /\ schedtime \in Nat /\ schedtime <= now
      /\ callout \in Seq(Entry) /\ Spaced(callout)
  BY DEF CalloutInv, CalloutTypeOK, HeadCounts
<1> DEFINE n == CHOOSE i \in 1 .. Len(callout) : Batch(callout, i)
<1>4. /\ list' = SubSeq(callout, 1, n)
      /\ callout' = SubSeq(callout, n + 1, Len(callout))
      /\ handler' = "alrm"
      /\ IF callout' # <<>> THEN SetItimer(callout') ELSE KeepItimer
  BY <1>2, Zenon DEF alrm, Batch
<1>5. n \in 1 .. Len(callout) /\ Batch(callout, n)
  <2>1. \E i \in 1 .. Len(callout) : Batch(callout, i)
    BY <1>2, <1>3, BatchExists
  <2> QED BY <2>1
<1> HIDE DEF n
<1>6. /\ list' \in Seq(Entry) /\ \A i \in DOMAIN list' : list'[i].due = now
      /\ callout' \in Seq(Entry) /\ Spaced(callout') /\ From(callout', now)
  BY <1>2, <1>3, <1>4, <1>5, DetachSound
<1>7. /\ TimerSet' /\ From(callout', schedtime') /\ schedtime' <= now'
      /\ itimer' \in Nat /\ schedtime' \in Nat /\ adjusted' \in BOOLEAN
  <2>1. CASE callout' = <<>>
    <3>1. UNCHANGED <<itimer, schedtime, adjusted>>
      BY <1>4, <2>1 DEF KeepItimer
    <3>2. adjusted \in BOOLEAN
      BY DEF CalloutInv, CalloutTypeOK
    <3> QED BY <1>1, <1>2, <1>3, <2>1, <3>1, <3>2 DEF TimerSet, From
  <2>2. CASE callout' # <<>>
    <3>1. SetItimer(callout')
      BY <1>4, <2>2
    <3>2. callout'[1] \in Entry /\ Head(callout') = callout'[1] /\ callout'[1].c_time \in Nat
      <4>1. callout'[1] \in Entry /\ Head(callout') = callout'[1]
        BY <1>6, <2>2
      <4> QED BY <4>1 DEF Entry
    <3>3. callout'[1].due = now + callout'[1].c_time /\ callout'[1].c_time > 0
      BY <1>6, <2>2 DEF From
    <3>4. itimer' = now + callout'[1].c_time /\ schedtime' = now /\ adjusted' = FALSE
      BY <2>2, <3>1, <3>2, <3>3 DEF SetItimer
    <3>5. itimer' = callout'[1].due /\ itimer' > now /\ itimer' \in Nat
      BY <1>3, <3>2, <3>3, <3>4
    <3>6. From(callout', schedtime')
      BY <1>6, <3>4, Zenon
    <3>7. TimerSet'
      BY <1>1, <2>2, <3>3, <3>5 DEF TimerSet
    <3>8. adjusted' \in BOOLEAN
      BY <3>4, Zenon
    <3>9. schedtime' <= now' /\ schedtime' \in Nat
      BY <1>1, <1>3, <3>4
    <3> QED BY <3>5, <3>6, <3>7, <3>8, <3>9
  <2> QED BY <2>1, <2>2
<1>8. CalloutTypeOK'
  BY <1>1, <1>3, <1>4, <1>6, <1>7 DEF CalloutTypeOK
<1>9. HeadCounts' /\ BatchDue'
  BY <1>1, <1>4, <1>6, <1>7 DEF HeadCounts, BatchDue
<1> QED
  BY <1>7, <1>8, <1>9 DEF CalloutInv

\* Every step on the callout list keeps the invariant.
LEMMA CalloutNextInv ==
    ASSUME ~Bursts, CalloutInv, [CalloutNext]_calloutVars
    PROVE  CalloutInv'
<1>1. CASE CallRoutine
  <2>1. UNCHANGED <<now, callout, alarm, handler, itimer, schedtime, adjusted>>
        /\ handler = "alrm" /\ list # <<>> /\ list' = Tail(list)
    BY <1>1 DEF CallRoutine, KeepItimer
  <2>2. list \in Seq(Entry)
    BY DEF CalloutInv, CalloutTypeOK
  <2>3. list' \in Seq(Entry) /\ \A i \in DOMAIN list' : i + 1 \in DOMAIN list /\ list'[i] = list[i + 1]
    BY <2>1, <2>2
  <2>4. BatchDue'
    BY <2>1, <2>3 DEF CalloutInv, BatchDue
  <2>5. CalloutTypeOK'
    BY <2>1, <2>3 DEF CalloutInv, CalloutTypeOK
  <2> QED BY <2>1, <2>4, <2>5 DEF CalloutInv, TimerSet, HeadCounts
<1>2. CASE Return
  <2>1. UNCHANGED <<now, callout, alarm, list, itimer, schedtime, adjusted>>
        /\ handler # "none" /\ handler' = "none" /\ list = <<>>
    BY <1>2 DEF Return, KeepItimer
  <2>2. TimerSet'
    BY <2>1 DEF CalloutInv, TimerSet
  <2> QED BY <2>1, <2>2 DEF CalloutInv, CalloutTypeOK, HeadCounts, BatchDue
<1>3. CASE Tick
  <2>1. UNCHANGED <<callout, schedtime, list, handler, adjusted>>
        /\ handler = "none" /\ ~alarm /\ now' = now + 1 /\ alarm' = (itimer = now + 1)
        /\ itimer' = IF itimer = now + 1 THEN 0 ELSE itimer
    BY <1>3 DEF Tick
  <2>2. now \in Nat /\ itimer \in Nat /\ schedtime \in Nat /\ schedtime <= now
    BY DEF CalloutInv, CalloutTypeOK, HeadCounts
  <2>3. CalloutTypeOK'
    BY <2>1, <2>2 DEF CalloutInv, CalloutTypeOK
  <2>4. TimerSet'
    <3>1. CASE callout = <<>>
      <4>1. itimer = 0
        BY <3>1 DEF CalloutInv, TimerSet
      <4>2. itimer # now + 1
        BY <4>1, <2>2
      <4> QED BY <2>1, <3>1, <4>1, <4>2 DEF TimerSet
    <3>2. CASE callout # <<>>
      <4>1. callout[1].c_time > 0 /\ itimer = callout[1].due /\ itimer > now
        BY <2>1, <3>2 DEF CalloutInv, TimerSet
      <4>2. CASE itimer = now + 1
        BY <2>1, <3>2, <4>1, <4>2 DEF TimerSet
      <4>3. CASE itimer # now + 1
        <5>1. itimer > now + 1
          BY <2>2, <4>1, <4>3
        <5> QED BY <2>1, <3>2, <4>1, <4>3, <5>1 DEF TimerSet
      <4> QED BY <4>2, <4>3
    <3> QED BY <3>1, <3>2
  <2>5. HeadCounts'
    BY <2>1, <2>2 DEF CalloutInv, HeadCounts
  <2>6. BatchDue'
    BY <2>1 DEF CalloutInv, BatchDue
  <2> QED BY <2>3, <2>4, <2>5, <2>6 DEF CalloutInv
<1>4. CASE UNCHANGED calloutVars
  BY <1>4 DEF calloutVars, CalloutInv, CalloutTypeOK, TimerSet, HeadCounts, BatchDue
<1> QED
  BY <1>1, <1>2, <1>3, <1>4, SignalInv, alrmInv, ppp_timeoutInv, ppp_untimeoutInv DEF CalloutNext

\* A waiting callout is never forgotten (ppp_timeout, ppp_untimeout, alrm), as
\* long as no two signals arrive in one timer period.
THEOREM NoCalloutForgotten == ASSUME ~Bursts PROVE CalloutSpec => []CalloutsServed
<1>1. CalloutInv => CalloutsServed
  <2> SUFFICES ASSUME CalloutInv PROVE CalloutsServed
    OBVIOUS
  <2>1. callout # <<>> => itimer > now \/ alarm
    BY DEF CalloutInv, TimerSet
  <2>2. ASSUME ~alarm, NEW i \in DOMAIN callout PROVE callout[i].due > now
    <3>1. callout \in Seq(Entry) /\ Spaced(callout) /\ now \in Nat
      BY DEF CalloutInv, CalloutTypeOK, HeadCounts
    <3>2. callout # <<>> /\ i \in 1 .. Len(callout) /\ callout[1] \in Entry /\ callout[i] \in Entry
      BY <3>1, <2>2
    <3>3. callout[1].due > now
      BY <2>2, <3>2 DEF CalloutInv, TimerSet
    <3>4. callout[i].due >= callout[1].due
      BY <3>1, <3>2, DuesGrow
    <3> QED BY <3>1, <3>2, <3>3, <3>4 DEF Entry
  <2> QED BY <2>1, <2>2 DEF CalloutsServed
<1>2. CalloutInv /\ [CalloutNext]_calloutVars => CalloutInv'
  BY CalloutNextInv
<1> QED
  BY <1>1, <1>2, CalloutInitInv, PTL DEF CalloutSpec

\* A timeout routine is called at the second that was asked for (alrm,
\* adjtimeout), as long as no two signals arrive in one timer period.
THEOREM CalledOnTime == ASSUME ~Bursts PROVE CalloutSpec => OnTime
<1>1. CalloutInv /\ [CalloutNext]_calloutVars => CalloutInv'
  BY CalloutNextInv
<1>2. CalloutInv => [CallRoutine => Head(list).due = now]_calloutVars
  <2> SUFFICES ASSUME CalloutInv, CallRoutine PROVE Head(list).due = now
    OBVIOUS
  <2>1. list \in Seq(Entry) /\ list # <<>>
    BY DEF CalloutInv, CalloutTypeOK, CallRoutine
  <2>2. Head(list) = list[1] /\ 1 \in DOMAIN list
    BY <2>1
  <2> QED BY <2>2 DEF CalloutInv, BatchDue
<1> QED
  BY <1>1, <1>2, CalloutInitInv, PTL DEF CalloutSpec, OnTime

-----------------------------------------------------------------------------
(***************************************************************************)
(* The receive path.  The count of the interrupt stays within the buffer,  *)
(* and what the jobs ask for and it counts is what is in the ring.         *)
(***************************************************************************)
Char == [n : Nat, i : Nat, len : Nat, proto : Protos, k : {"data", "T", "flag"}]

\* What pppinput() changes, and what it keeps of the queue and its signal.
Received  == [partial : Seq(Char), inq : Seq(Protos), sigio : BOOLEAN]
InputDone(r) == r \in Received /\ (lcpOpen /\ ~io => r.inq = <<>> \/ r.sigio)

Input == INSTANCE SeqLemmas WITH Op <- pppinput, Holds <- InputDone

InputTypeOK ==
    /\ line \in Seq(Char) /\ ring \in Seq(Char) /\ partial \in Seq(Char)
    /\ jobs \in Seq(Nat) /\ inq \in Seq(Protos)
    /\ frames \in Nat /\ qlen \in Nat /\ discard \in Nat
    /\ sigio \in BOOLEAN /\ io \in BOOLEAN /\ lcpOpen \in BOOLEAN /\ clean \in BOOLEAN

InputInv == InputTypeOK /\ qlen <= BufSize /\ ReceiveSound

\* Total is a fold.
LEMMA TotalIs == \A q, s : Total(q, s) = Tally!Fold(q, s)
  BY Zenon DEF Total, Add, Tally!Fold, FoldLeft, Tally!FoldLeft, MapThenFoldSet,
               Tally!MapThenFoldSet, Max, Tally!Max

\* A sum from q is q more than a sum from 0.
LEMMA TotalFrom ==
    ASSUME NEW s \in Seq(Nat), NEW q \in Nat
    PROVE  Total(0, s) \in Nat /\ Total(q, s) = q + Total(0, s)
<1> DEFINE Good(n) == Total(0, SubSeq(s, 1, n)) \in Nat
                      /\ Total(q, SubSeq(s, 1, n)) = q + Total(0, SubSeq(s, 1, n))
           Bad == {n \in 0 .. Len(s) : ~ Good(n)}
<1>1. SubSeq(s, 1, Len(s)) = s /\ SubSeq(s, 1, 0) = <<>> /\ Len(s) \in 0 .. Len(s)
  OBVIOUS
<1> SUFFICES ASSUME Bad # {} PROVE FALSE
  <2>1. ASSUME Bad = {} PROVE Total(0, s) \in Nat /\ Total(q, s) = q + Total(0, s)
    <3>1. Len(s) \notin Bad
      BY <2>1
    <3>2. Good(Len(s))
      BY <3>1, <1>1
    <3> QED BY <3>2, <1>1
  <2> QED BY <2>1
<1>2. Bad \in SUBSET Nat
  OBVIOUS
<1>3. PICK n \in Bad : \A j \in Bad : n <= j
  <2> HIDE DEF Bad
  <2> QED BY <1>2, NatMin
<1>4. n \in 0 .. Len(s) /\ ~ Good(n)
  BY <1>3
<1>5. n # 0
  <2>1. Total(0, <<>>) = 0 /\ Total(q, <<>>) = q
    BY TotalIs, Tally!FoldEmpty
  <2>2. Good(0)
    <3>1. Total(0, SubSeq(s, 1, 0)) = 0 /\ Total(q, SubSeq(s, 1, 0)) = q
      BY <2>1, <1>1, Zenon
    <3> QED BY <3>1
  <2> QED BY <2>2, <1>4
<1>6. n - 1 \in 0 .. Len(s) /\ n - 1 \notin Bad /\ n - 1 \in 0 .. Len(s) - 1 /\ (n - 1) + 1 = n
      /\ n \in 1 .. Len(s)
  <2> HIDE DEF Bad, Good
  <2> QED BY <1>3, <1>4, <1>5
<1>7. Good(n - 1)
  BY <1>6
<1>8. \A b : Total(b, SubSeq(s, 1, (n - 1) + 1)) = Total(b, SubSeq(s, 1, n - 1)) + s[(n - 1) + 1]
  <2>1. \A b : Tally!Fold(b, SubSeq(s, 1, (n - 1) + 1))
                 = Add(Tally!Fold(b, SubSeq(s, 1, n - 1)), s[(n - 1) + 1])
    BY <1>6, Tally!FoldPrefix
  <2> QED BY <2>1, TotalIs DEF Add
<1>9. s[n] \in Nat
  BY <1>6
<1> QED
  BY <1>4, <1>6, <1>7, <1>8, <1>9, SMTT(40)

\* The sum when a count is put at the end, or taken off the front.
LEMMA TotalChanges ==
    ASSUME NEW s \in Seq(Nat), NEW q \in Nat
    PROVE  /\ \A n \in Nat : Total(0, Append(s, n)) = Total(0, s) + n
           /\ s # <<>> => Total(q, s) = Head(s) + Total(q, Tail(s))
<1>1. ASSUME NEW n \in Nat PROVE Total(0, Append(s, n)) = Total(0, s) + n
  <2>1. Tally!Fold(0, Append(s, n)) = Add(Tally!Fold(0, s), n)
    BY Tally!FoldAppend
  <2> QED BY <2>1, TotalIs DEF Add
<1>2. ASSUME s # <<>> PROVE Total(q, s) = Head(s) + Total(q, Tail(s))
  <2>1. s[1] \in Nat /\ Head(s) = s[1] /\ Tail(s) \in Seq(Nat) /\ q + s[1] \in Nat
    BY <1>2
  <2>2. Tally!Fold(q, s) = Tally!Fold(Add(q, s[1]), Tail(s))
    BY <1>2, Tally!FoldHead
  <2>3. Total(q, s) = Total(q + s[1], Tail(s))
    BY <2>2, TotalIs DEF Add
  <2>4. /\ Total(q + s[1], Tail(s)) = (q + s[1]) + Total(0, Tail(s))
        /\ Total(q, Tail(s)) = q + Total(0, Tail(s)) /\ Total(0, Tail(s)) \in Nat
    BY <2>1, TotalFrom
  <2> QED BY <2>1, <2>3, <2>4
<1> QED
  BY <1>1, <1>2

\* The invariant of the receive path holds at the start.
LEMMA InputInitInv == InputInit => InputInv
<1> SUFFICES ASSUME InputInit PROVE InputInv
  OBVIOUS
<1>1. InputTypeOK
  <2>1. /\ line \in Seq(Char) /\ ring \in Seq(Char) /\ partial \in Seq(Char)
        /\ jobs \in Seq(Nat) /\ inq \in Seq(Protos)
    BY DEF InputInit
  <2> QED BY <2>1 DEF InputTypeOK, InputInit
<1>2. CountBounded /\ WhileOpenNothingWaits /\ qlen <= BufSize
  BY InputAssumption DEF InputInit, CountBounded, WhileOpenNothingWaits
<1>3. CharsAccounted
  <2>1. Total(0, <<>>) = 0
    BY TotalIs, Tally!FoldEmpty
  <2>2. Total(qlen, jobs) = Len(ring)
    BY <2>1 DEF InputInit
  <2> QED BY <2>2 DEF CharsAccounted
<1> QED
  BY <1>1, <1>2, <1>3 DEF InputInv, ReceiveSound

\* The peer's frames are sequences of characters.
LEMMA SendInv == InputInv /\ Send => InputInv'
<1> SUFFICES ASSUME InputInv, Send PROVE InputInv'
  OBVIOUS
<1>1. line' \in Seq(Char)
  <2> DEFINE char(p, len, i, v) == [n |-> frames + 1, i |-> i, len |-> len, proto |-> p, k |-> v]
  <2>1. PICK p \in Protos, len \in 1 .. MaxBody, k \in Letters :
          line' = IF p = "client" THEN <<char(p, len, 1, "T")>>
                  ELSE [i \in 1 .. len |-> char(p, len, i, IF i = 1 THEN k ELSE "data")]
                       \o <<char(p, len, len + 1, "flag")>>
    BY DEF Send
  <2>2. len \in Nat /\ k \in {"data", "T", "flag"} /\ frames + 1 \in Nat
    BY InputAssumption DEF InputInv, InputTypeOK
  <2>3. \A i \in Nat, v \in {"data", "T", "flag"} : char(p, len, i, v) \in Char
    BY <2>2 DEF Char
  <2> HIDE DEF char
  <2>4. CASE p = "client"
    BY <2>1, <2>3, <2>4
  <2>5. CASE p # "client"
    <3>1. [i \in 1 .. len |-> char(p, len, i, IF i = 1 THEN k ELSE "data")] \in Seq(Char)
      <4>1. \A i \in 1 .. len : char(p, len, i, IF i = 1 THEN k ELSE "data") \in Char
        BY <2>2, <2>3
      <4> QED BY <2>2, <4>1
    <3>2. <<char(p, len, len + 1, "flag")>> \in Seq(Char)
      BY <2>2, <2>3
    <3> QED BY <2>1, <2>5, <3>1, <3>2
  <2> QED BY <2>4, <2>5
<1>2. UNCHANGED <<ring, qlen, discard, jobs, partial, inq, sigio, io, lcpOpen, clean>> /\ frames' \in Nat
  BY DEF Send, InputInv, InputTypeOK
<1>3. InputTypeOK'
  BY <1>1, <1>2 DEF InputInv, InputTypeOK
<1>4. (qlen <= BufSize /\ ReceiveSound)'
  BY <1>2 DEF InputInv, ReceiveSound, CountBounded, WhileOpenNothingWaits, CharsAccounted
<1> QED
  BY <1>3, <1>4 DEF InputInv

\* The interrupt: a character is counted, or its count given to a job.
LEMMA pppintrInv == InputInv /\ pppintr => InputInv'
<1> SUFFICES ASSUME InputInv, pppintr PROVE InputInv'
  OBVIOUS
<1> DEFINE c == Head(line)
           q == qlen + 1
           early == ~lcpOpen /\ c.k = "T"
           ask == Overlong(q) \/ early \/ c.k = "flag"
           done == Overlong(q) \/ (c.k = "flag" /\ ~early)
<1>1. /\ line # <<>> /\ line' = Tail(line)
      /\ UNCHANGED <<frames, partial, inq, sigio, io, lcpOpen>>
      /\ discard' = (IF qlen # 0 THEN discard ELSE IF Len(ring) = RingSize THEN c.n ELSE 0)
      /\ ring' = (IF Len(ring) < RingSize THEN Append(ring, c) ELSE ring)
      /\ clean' = (clean /\ ~early /\ Len(ring) < RingSize)
  BY DEF pppintr
<1>2. jobs' = (IF ask THEN Append(jobs, q) ELSE jobs) /\ qlen' = (IF done THEN 0 ELSE q)
  BY DEF pppintr
<1>3. /\ line \in Seq(Char) /\ ring \in Seq(Char) /\ jobs \in Seq(Nat) /\ discard \in Nat
      /\ qlen \in Nat /\ qlen <= BufSize /\ BufSize \in Nat
  BY InputAssumption DEF InputInv, InputTypeOK
<1>4. c \in Char /\ c.n \in Nat /\ Tail(line) \in Seq(Char)
  <2>1. c \in Char /\ Tail(line) \in Seq(Char)
    BY <1>1, <1>3
  <2> QED BY <2>1 DEF Char
<1> HIDE DEF c
<1>5. q \in Nat /\ q <= BufSize + 1 /\ (Overlong(q) <=> q > BufSize)
  BY <1>3 DEF Overlong
<1> HIDE DEF q, early
<1>6. InputTypeOK'
  <2>1. ring' \in Seq(Char) /\ line' \in Seq(Char)
    BY <1>1, <1>3, <1>4
  <2>2. jobs' \in Seq(Nat)
    <3> HIDE DEF ask
    <3> QED BY <1>2, <1>3, <1>5
  <2>3. qlen' \in Nat
    <3> HIDE DEF done
    <3> QED BY <1>2, <1>5
  <2>4. discard' \in Nat
    BY <1>1, <1>3, <1>4
  <2>5. clean' \in BOOLEAN
    BY <1>1, Zenon
  <2> QED BY <1>1, <2>1, <2>2, <2>3, <2>4, <2>5 DEF InputInv, InputTypeOK
<1>7. qlen' <= BufSize
  BY <1>2, <1>3, <1>5
<1>8. CountBounded'
  <2> SUFFICES ASSUME NEW i \in DOMAIN jobs' PROVE jobs'[i] <= BufSize + 1
    BY DEF CountBounded
  <2>1. \A j \in DOMAIN jobs : jobs[j] <= BufSize + 1
    BY DEF InputInv, ReceiveSound, CountBounded
  <2>2. CASE jobs' = jobs
    BY <2>1, <2>2
  <2>3. CASE jobs' = Append(jobs, q)
    <3>1. i \in DOMAIN jobs \/ jobs'[i] = q
      BY <1>3, <2>3
    <3>2. i \in DOMAIN jobs => jobs'[i] = jobs[i]
      BY <1>3, <2>3
    <3> QED BY <1>5, <2>1, <3>1, <3>2
  <2> QED BY <1>2, <2>2, <2>3
<1>9. WhileOpenNothingWaits'
  BY <1>1 DEF InputInv, ReceiveSound, WhileOpenNothingWaits
<1>10. CharsAccounted'
  <2> SUFFICES ASSUME clean' PROVE Total(qlen', jobs') = Len(ring')
    BY DEF CharsAccounted
  <2>1. clean /\ ~early /\ Len(ring) < RingSize
    BY <1>1, Zenon
  <2>2. Total(qlen, jobs) = Len(ring)
    BY <2>1 DEF InputInv, ReceiveSound, CharsAccounted
  <2>3. Len(ring') = Len(ring) + 1 /\ Len(ring) \in Nat
    BY <1>1, <1>3, <1>4, <2>1
  <2>4. ask <=> done
    BY <2>1
  <2>5. Total(qlen, jobs) = qlen + Total(0, jobs) /\ Total(0, jobs) \in Nat
    BY <1>3, TotalFrom
  <2>6. CASE done
    <3>1. jobs' = Append(jobs, q) /\ qlen' = 0
      BY <1>2, <2>4, <2>6, Zenon
    <3>2. Total(0, Append(jobs, q)) = Total(0, jobs) + q
      BY <1>3, <1>5, TotalChanges
    <3>3. Total(qlen', jobs') = Total(0, jobs) + q
      BY <3>1, <3>2, Zenon
    <3> QED BY <1>3, <2>2, <2>3, <2>5, <3>3 DEF q
  <2>7. CASE ~done
    <3>1. jobs' = jobs /\ qlen' = q
      BY <1>2, <2>4, <2>7, Zenon
    <3>2. Total(q, jobs) = q + Total(0, jobs)
      BY <1>3, <1>5, TotalFrom
    <3>3. Total(qlen', jobs') = q + Total(0, jobs)
      BY <3>1, <3>2, Zenon
    <3> QED BY <1>3, <2>2, <2>3, <2>5, <3>3 DEF q
  <2> QED BY <2>6, <2>7
<1> QED
  BY <1>6, <1>7, <1>8, <1>9, <1>10 DEF InputInv, ReceiveSound

\* A character leaves a queue with a signal for it.
LEMMA pppinputDone ==
    ASSUME NEW r, InputDone(r), NEW c \in Char
    PROVE  InputDone(pppinput(r, c))
<1>1. r \in Received /\ c.proto \in Protos
  BY DEF InputDone, Char
<1>2. CASE c.k # "flag"
  <2> DEFINE e == [r EXCEPT !.partial = Append(@, c)]
  <2>1. pppinput(r, c) = e
    BY <1>2 DEF pppinput
  <2>2. e.inq = r.inq /\ e.sigio = r.sigio /\ e \in Received
    <3>1. Append(r.partial, c) \in Seq(Char)
      BY <1>1 DEF Received
    <3> QED BY <1>1, <3>1 DEF Received
  <2> HIDE DEF e
  <2> QED BY <2>1, <2>2 DEF InputDone
<1>3. CASE c.k = "flag"
  <2> DEFINE e == [r EXCEPT !.partial = <<>>]
             g == [e EXCEPT !.inq = Append(@, c.proto), !.sigio = TRUE]
  <2>1. e.inq = r.inq /\ e.sigio = r.sigio /\ e \in Received
    <3>1. <<>> \in Seq(Char)
      OBVIOUS
    <3> QED BY <1>1, <3>1 DEF Received
  <2>2. g.sigio = TRUE /\ g \in Received
    <3> HIDE DEF e
    <3>1. Append(e.inq, c.proto) \in Seq(Protos)
      BY <1>1, <2>1 DEF Received
    <3> QED BY <1>1, <2>1, <3>1 DEF Received
  <2>3. pppinput(r, c) \in {e, g}
    BY <1>3 DEF pppinput, ppppktin
  <2> HIDE DEF e, g
  <2>4. InputDone(e)
    BY <2>1 DEF InputDone
  <2>5. InputDone(g)
    BY <2>2 DEF InputDone
  <2> QED BY <2>3, <2>4, <2>5
<1> QED
  BY <1>2, <1>3

\* What the frame loop of ppp_tty_read() leaves.
LEMMA FrameDone ==
    ASSUME InputInv, NEW buf \in Seq(Char)
    PROVE  InputDone(FoldLeft(pppinput, [partial |-> partial, inq |-> inq, sigio |-> sigio], buf))
<1> DEFINE b == [partial |-> partial, inq |-> inq, sigio |-> sigio]
<1>1. InputDone(b)
  BY DEF InputDone, InputInv, InputTypeOK, ReceiveSound, WhileOpenNothingWaits, Received
<1> HIDE DEF b
<1>2. \A i \in 1 .. Len(buf) : \A a : InputDone(a) => InputDone(pppinput(a, buf[i]))
  <2>1. \A i \in 1 .. Len(buf) : buf[i] \in Char
    OBVIOUS
  <2> QED BY <2>1, pppinputDone
<1>3. InputDone(Input!Fold(b, buf))
  BY <1>1, <1>2, Input!FoldHolds
<1>4. Input!Fold(b, buf) = FoldLeft(pppinput, b, buf)
  BY Zenon DEF Input!Fold, FoldLeft, Input!FoldLeft, MapThenFoldSet, Input!MapThenFoldSet, Max, Input!Max
<1> QED
  BY <1>3, <1>4 DEF b

\* A job takes what it asks for off the ring.
LEMMA ppp_tty_readInv == InputInv /\ ppp_tty_read => InputInv'
<1> SUFFICES ASSUME InputInv, ppp_tty_read PROVE InputInv'
  OBVIOUS
<1> DEFINE count == Head(jobs)
           num == Min({count, Len(ring)})
           buf == SubSeq(ring, 1, num)
           r == FoldLeft(pppinput, [partial |-> partial, inq |-> inq, sigio |-> sigio], buf)
<1>1. /\ jobs # <<>> /\ ring # <<>> /\ jobs' = Tail(jobs)
      /\ UNCHANGED <<line, frames, io, lcpOpen>>
      /\ ring' = SubSeq(ring, num + 1, Len(ring))
  BY DEF ppp_tty_read
<1>2. \/ UNCHANGED <<qlen, partial, inq, sigio, clean>> /\ discard' \in {discard, 0}
      \/ /\ qlen' = 0 /\ clean' = (clean /\ qlen = 0)
         /\ UNCHANGED <<discard, partial, inq, sigio>>
      \/ /\ partial' = r.partial /\ inq' = r.inq /\ sigio' = r.sigio
         /\ UNCHANGED <<qlen, discard, clean>>
  BY DEF ppp_tty_read
<1>3. /\ ring \in Seq(Char) /\ jobs \in Seq(Nat) /\ discard \in Nat /\ clean \in BOOLEAN
      /\ qlen \in Nat /\ qlen <= BufSize /\ BufSize \in Nat
  BY InputAssumption DEF InputInv, InputTypeOK
<1>4. count \in Nat /\ Tail(jobs) \in Seq(Nat) /\ Len(ring) \in Nat
  BY <1>1, <1>3
<1>5. num \in Nat /\ num <= Len(ring) /\ (count <= Len(ring) => num = count)
  <2> DEFINE S == {count, Len(ring)}
  <2>1. \E x \in S : \A y \in S : x <= y
    BY <1>4
  <2>2. num \in S /\ \A y \in S : num <= y
    BY <2>1 DEF Min
  <2> HIDE DEF num
  <2> QED BY <1>4, <2>2
<1> HIDE DEF num, count
<1>6. buf \in Seq(Char) /\ ring' \in Seq(Char) /\ Len(ring') = Len(ring) - num
  BY <1>1, <1>3, <1>5
<1>7. InputDone(r)
  BY <1>6, FrameDone
<1> HIDE DEF buf, r
<1>8. /\ partial' \in Seq(Char) /\ inq' \in Seq(Protos) /\ sigio' \in BOOLEAN
      /\ lcpOpen /\ ~io => inq' = <<>> \/ sigio'
  <2>1. /\ r.partial \in Seq(Char) /\ r.inq \in Seq(Protos) /\ r.sigio \in BOOLEAN
        /\ lcpOpen /\ ~io => r.inq = <<>> \/ r.sigio
    BY <1>7 DEF InputDone, Received
  <2>2. CASE UNCHANGED <<partial, inq, sigio>>
    BY <2>2 DEF InputInv, InputTypeOK, ReceiveSound, WhileOpenNothingWaits
  <2>3. CASE partial' = r.partial /\ inq' = r.inq /\ sigio' = r.sigio
    BY <2>1, <2>3
  <2> QED BY <1>2, <2>2, <2>3
<1>9. qlen' \in {qlen, 0} /\ discard' \in {discard, 0} /\ clean' \in BOOLEAN
  <2>1. clean' \in {clean, (clean /\ qlen = 0)}
    BY <1>2, Zenon
  <2>2. clean' \in BOOLEAN
    BY <1>3, <2>1, Zenon
  <2>3. qlen' \in {qlen, 0} /\ discard' \in {discard, 0}
    BY <1>2
  <2> QED BY <2>2, <2>3
<1>10. InputTypeOK' /\ qlen' <= BufSize
  <2>1. qlen' \in Nat /\ qlen' <= BufSize /\ discard' \in Nat
    BY <1>3, <1>9
  <2>2. jobs' \in Seq(Nat)
    BY <1>1, <1>4
  <2> QED BY <1>1, <1>6, <1>8, <1>9, <2>1, <2>2 DEF InputInv, InputTypeOK
<1>11. CountBounded'
  <2>1. \A i \in DOMAIN jobs' : i + 1 \in DOMAIN jobs /\ jobs'[i] = jobs[i + 1]
    BY <1>1, <1>3
  <2> QED BY <2>1 DEF InputInv, ReceiveSound, CountBounded
<1>12. WhileOpenNothingWaits'
  BY <1>1, <1>8 DEF WhileOpenNothingWaits
<1>13. CharsAccounted'
  <2> SUFFICES ASSUME clean' PROVE Total(qlen', jobs') = Len(ring')
    BY DEF CharsAccounted
  <2>1. clean /\ qlen' = qlen
    BY <1>2
  <2>2. Total(qlen, jobs) = Len(ring)
    BY <2>1 DEF InputInv, ReceiveSound, CharsAccounted
  <2>3. Total(qlen, jobs) = count + Total(qlen, Tail(jobs))
    BY <1>1, <1>3, TotalChanges DEF count
  <2>4. Total(qlen, Tail(jobs)) \in Nat
    <3>1. Total(qlen, Tail(jobs)) = qlen + Total(0, Tail(jobs)) /\ Total(0, Tail(jobs)) \in Nat
      BY <1>3, <1>4, TotalFrom
    <3> QED BY <1>3, <3>1
  <2>5. count <= Len(ring)
    BY <1>4, <2>2, <2>3, <2>4
  <2>6. Total(qlen', jobs') = Total(qlen, Tail(jobs))
    BY <1>1, <2>1, Zenon
  <2> QED BY <1>4, <1>5, <1>6, <2>2, <2>3, <2>4, <2>5, <2>6
<1> QED
  BY <1>10, <1>11, <1>12, <1>13 DEF InputInv, ReceiveSound

\* Every step of the receive path keeps it.
LEMMA InputNextInv == InputInv /\ [InputNext]_inputVars => InputInv'
<1> SUFFICES ASSUME InputInv, [InputNext]_inputVars PROVE InputInv'
  OBVIOUS
<1>1. ASSUME UNCHANGED <<line, frames, ring, qlen, discard, jobs, partial, clean>>,
             inq' \in Seq(Protos), sigio' \in BOOLEAN, io' \in BOOLEAN, lcpOpen' \in BOOLEAN,
             WhileOpenNothingWaits'
      PROVE  InputInv'
  <2>1. InputTypeOK' /\ (qlen <= BufSize)'
    BY <1>1 DEF InputInv, InputTypeOK
  <2>2. CountBounded' /\ CharsAccounted'
    BY <1>1 DEF InputInv, ReceiveSound, CountBounded, CharsAccounted
  <2> QED BY <1>1, <2>1, <2>2 DEF InputInv, ReceiveSound
<1>2. inq \in Seq(Protos) /\ sigio \in BOOLEAN /\ io \in BOOLEAN /\ lcpOpen \in BOOLEAN
  BY DEF InputInv, InputTypeOK
<1>3. WhileOpenNothingWaits
  BY DEF InputInv, ReceiveSound
<1>4. CASE SigIo
  BY <1>1, <1>2, <1>4 DEF SigIo, WhileOpenNothingWaits
<1>5. CASE IoRead
  <2>1. UNCHANGED <<line, frames, ring, qlen, discard, jobs, partial, sigio, clean>> /\ io
    BY <1>5 DEF IoRead
  <2>2. CASE inq = <<>>
    BY <1>1, <1>2, <1>5, <2>1, <2>2 DEF IoRead, WhileOpenNothingWaits
  <2>3. CASE inq # <<>> /\ Head(inq) # "lcp" /\ ~lcpOpen
    <3>1. Tail(inq) \in Seq(Protos)
      BY <1>2, <2>3
    <3> QED BY <1>1, <1>2, <1>5, <2>1, <2>3, <3>1 DEF IoRead, WhileOpenNothingWaits
  <2>4. CASE inq # <<>> /\ ~ (Head(inq) # "lcp" /\ ~lcpOpen)
    <3>1. Tail(inq) \in Seq(Protos)
      BY <1>2, <2>4
    <3>2. inq' = Tail(inq) /\ io' = TRUE /\ lcpOpen' \in {lcpOpen, Head(inq) = "lcp", FALSE}
      BY <1>5, <2>4 DEF IoRead
    <3>3. lcpOpen' \in BOOLEAN /\ io' \in BOOLEAN
      BY <1>2, <3>2, Zenon
    <3>4. WhileOpenNothingWaits'
      BY <3>2 DEF WhileOpenNothingWaits
    <3> QED BY <1>1, <1>2, <2>1, <3>1, <3>2, <3>3, <3>4
  <2> QED BY <2>2, <2>3, <2>4
<1>6. CASE LcpDown
  BY <1>1, <1>2, <1>6 DEF LcpDown, WhileOpenNothingWaits
<1>7. CASE UNCHANGED inputVars
  BY <1>1, <1>2, <1>3, <1>7 DEF inputVars, WhileOpenNothingWaits
<1> QED
  BY <1>4, <1>5, <1>6, <1>7, SendInv, pppintrInv, ppp_tty_readInv DEF InputNext

\* The receive path keeps its accounts for frames of every length, rings,
\* buffers and queues of every size (pppintr, ppp_tty_read, io).
THEOREM ReceiveAccounts == InputSpec => []ReceiveSound
<1>1. InputInv => ReceiveSound
  BY DEF InputInv
<1> QED
  BY <1>1, InputInitInv, InputNextInv, PTL DEF InputSpec

-----------------------------------------------------------------------------
(***************************************************************************)
(* Differences modulo the size of a field.                                 *)
(***************************************************************************)
\* A number between -M and M, modulo M.
LEMMA ModIs ==
    ASSUME NEW M \in Nat \ {0}, NEW a \in Int, a > -M, a < M
    PROVE  a % M = IF a < 0 THEN a + M ELSE a
<1> DEFINE q == a \div M
           r == a % M
<1>1. q \in Int /\ r \in 0 .. M - 1 /\ a = M * q + r
  OBVIOUS
<1> HIDE DEF q, r
<1>2. q >= 1 => M * q >= M
  BY <1>1
<1>3. q <= -2 => M * q <= -2 * M
  BY <1>1
<1>4. q = 0 \/ q = -1
  BY <1>1, <1>2, <1>3
<1>5. q = 0 => M * q = 0
  OBVIOUS
<1>6. q = -1 => M * q = -M
  OBVIOUS
<1>7. r = IF a < 0 THEN a + M ELSE a
  BY <1>1, <1>4, <1>5, <1>6
<1> QED
  BY <1>7 DEF r

\* A sum of two remainders, modulo M.
LEMMA SumModIs ==
    ASSUME NEW M \in Nat \ {0}, NEW a \in 0 .. M - 1, NEW b \in 0 .. M - 1
    PROVE  (a + b) % M = IF a + b < M THEN a + b ELSE a + b - M
<1> DEFINE q == (a + b) \div M
           r == (a + b) % M
<1>1. q \in Int /\ r \in 0 .. M - 1 /\ a + b = M * q + r
  OBVIOUS
<1> HIDE DEF q, r
<1>2. q >= 2 => M * q >= 2 * M
  BY <1>1
<1>3. q <= -1 => M * q <= -M
  BY <1>1
<1>4. q = 0 \/ q = 1
  BY <1>1, <1>2, <1>3
<1>5. q = 0 => M * q = 0
  OBVIOUS
<1>6. q = 1 => M * q = M
  OBVIOUS
<1>7. r = IF a + b < M THEN a + b ELSE a + b - M
  BY <1>1, <1>4, <1>5, <1>6
<1> QED
  BY <1>7 DEF r

\* Adding a difference gives the new value back.
LEMMA DeltaRestores ==
    ASSUME NEW M \in Nat \ {0}, NEW n \in 0 .. M - 1, NEW o \in 0 .. M - 1
    PROVE  (n - o) % M \in 0 .. M - 1 /\ (o + ((n - o) % M)) % M = n
<1> DEFINE d == (n - o) % M
<1>0. n - o \in Int /\ n - o > -M /\ n - o < M
  OBVIOUS
<1>1. d = IF n - o < 0 THEN n - o + M ELSE n - o
  BY <1>0, ModIs
<1>2. d \in 0 .. M - 1
  BY <1>1
<1> HIDE DEF d
<1>3. (o + d) % M = IF o + d < M THEN o + d ELSE o + d - M
  BY <1>2, SumModIs
<1>4. (o + d) % M = n
  BY <1>1, <1>3
<1> QED
  BY <1>2, <1>4 DEF d

\* A difference sent modulo the width of a field, added again, restores the field.
LEMMA FieldRestores ==
    ASSUME NEW n \in 0 .. SeqSpace - 1, NEW o \in 0 .. SeqSpace - 1
    PROVE  (o + Delta(n, o)) % SeqSpace = n
<1>1. SeqSpace \in Nat \ {0}
  BY VjAssumption
<1>2. (o + ((n - o) % SeqSpace)) % SeqSpace = n
  BY <1>1, DeltaRestores
<1> QED
  BY <1>1, <1>2 DEF Delta

\* The same for the identification.
LEMMA IdentRestores ==
    ASSUME NEW n \in 0 .. IdSpace - 1, NEW o \in 0 .. IdSpace - 1
    PROVE  (o + ((n - o) % IdSpace)) % IdSpace = n
<1>1. IdSpace \in Nat \ {0}
  BY VjAssumption
<1> QED
  BY <1>1, DeltaRestores

\* A step back by one is the greatest difference.
LEMMA StepBack ==
    ASSUME NEW M \in Nat \ {0}, NEW o \in 0 .. M - 1
    PROVE  (o - 1) % M \in 0 .. M - 1 /\ (((o - 1) % M) - o) % M = M - 1
<1> DEFINE n == (o - 1) % M
<1>0. o - 1 \in Int /\ o - 1 > -M - 1 /\ o - 1 < M /\ (o - 1 > -M \/ M = 1)
  OBVIOUS
<1>1. n = IF o - 1 < 0 THEN o - 1 + M ELSE o - 1
  <2>1. CASE o - 1 > -M
    BY <1>0, <2>1, ModIs
  <2>2. CASE M = 1
    BY <2>2
  <2> QED BY <1>0, <2>1, <2>2
<1>2. n \in 0 .. M - 1 /\ n - o \in Int /\ n - o > -M /\ n - o < M
  BY <1>1
<1> HIDE DEF n
<1>3. (n - o) % M = IF n - o < 0 THEN n - o + M ELSE n - o
  BY <1>2, ModIs
<1>4. (n - o) % M = M - 1
  BY <1>1, <1>3
<1> QED
  BY <1>2, <1>4 DEF n

-----------------------------------------------------------------------------
(***************************************************************************)
(* A header that is restored from the one before it.                       *)
(***************************************************************************)
Field == 0 .. SeqSpace - 1
Ident == 0 .. IdSpace - 1
Hdr == [conn : VjConns \cup {"none"}, seq : Field, ack : Field, win : Int, urg : Nat,
        push : BOOLEAN, len : Nat, id : Ident, fixed : Int]

\* The fields of a header.
LEMMA HdrIs ==
    ASSUME NEW h \in Hdr
    PROVE  /\ h.conn \in VjConns \cup {"none"} /\ h.seq \in Field /\ h.ack \in Field /\ h.win \in Int
           /\ h.urg \in Nat /\ h.push \in BOOLEAN /\ h.len \in Nat /\ h.id \in Ident /\ h.fixed \in Int
  BY DEF Hdr

\* A header is equal to another if its fields are.
SameFields(g, h) ==
    /\ g.conn = h.conn /\ g.seq = h.seq /\ g.ack = h.ack /\ g.win = h.win /\ g.urg = h.urg
    /\ g.push = h.push /\ g.len = h.len /\ g.id = h.id /\ g.fixed = h.fixed

\* Two headers with equal fields are equal.
LEMMA HdrEqual ==
    ASSUME NEW g \in Hdr, NEW h \in Hdr, SameFields(g, h)
    PROVE  g = h
  BY DEF Hdr, SameFields

\* What the bits of the changes stand for.
LEMMA ChangesIs ==
    ASSUME NEW h, NEW o
    PROVE  /\ "U" \in Changes(h, o) <=> h.urg > 0
           /\ "W" \in Changes(h, o) <=> h.win # o.win
           /\ "A" \in Changes(h, o) <=> h.ack # o.ack
           /\ "S" \in Changes(h, o) <=> h.seq # o.seq
           /\ "I" \notin Changes(h, o)
  BY DEF Changes

\* The special encodings are used only for what they stand for.
LEMMA EncodedIs ==
    ASSUME NEW h, NEW o, Compressible(h, o)
    PROVE  /\ Encoded(h, o) = SpecialI =>
                /\ Changes(h, o) = {"S", "A"}
                /\ Delta(h.seq, o.seq) = o.len /\ Delta(h.ack, o.ack) = o.len
           /\ Encoded(h, o) = SpecialD => Changes(h, o) = {"S"} /\ Delta(h.seq, o.seq) = o.len
           /\ Encoded(h, o) \notin {SpecialI, SpecialD} => Encoded(h, o) = Changes(h, o)
<1>1. SpecialI # SpecialD
  BY DEF SpecialI, SpecialD
<1>2. Changes(h, o) # SpecialI /\ Changes(h, o) # SpecialD
  BY DEF Compressible
<1> QED
  BY <1>1, <1>2 DEF Encoded

\* A frame that carries the differences between o and h.
FrameOf(f, h, o) ==
    /\ f.ch = Encoded(h, o) /\ f.u = h.urg /\ f.w = h.win - o.win
    /\ f.a = Delta(h.ack, o.ack) /\ f.s = Delta(h.seq, o.seq) /\ f.i = (h.id - o.id) % IdSpace
    /\ f.push = h.push /\ f.len = h.len

\* What goes into a frame comes out of it, if both ends have the same header
\* before it.
LEMMA RestoreOK ==
    ASSUME NEW h \in Hdr, NEW o \in Hdr, Compressible(h, o), NEW f, FrameOf(f, h, o)
    PROVE  Restored(o, f) = h
<1>1. SeqSpace \in Nat \ {0} /\ IdSpace \in Nat \ {0}
  BY VjAssumption
<1>2. /\ h.seq \in Field /\ h.ack \in Field /\ h.win \in Int /\ h.urg \in Nat /\ h.push \in BOOLEAN
      /\ h.len \in Nat /\ h.id \in Ident
      /\ o.seq \in Field /\ o.ack \in Field /\ o.win \in Int /\ o.id \in Ident /\ o.len \in Nat
  BY HdrIs
<1>3. (o.ack + f.a) % SeqSpace = h.ack
  BY <1>2, FieldRestores DEF FrameOf, Field
<1>4. (o.seq + f.s) % SeqSpace = h.seq
  BY <1>2, FieldRestores DEF FrameOf, Field
<1>5. (o.id + f.i) % IdSpace = h.id
  <2> DEFINE n == h.id
             k == o.id
  <2>1. n \in 0 .. IdSpace - 1 /\ k \in 0 .. IdSpace - 1 /\ f.i = (n - k) % IdSpace
    BY <1>2 DEF FrameOf, Ident
  <2> HIDE DEF n, k
  <2>2. (k + f.i) % IdSpace = n
    BY <1>1, <2>1, IdentRestores
  <2> QED BY <2>2 DEF n, k
<1>6. h.conn = o.conn /\ h.fixed = o.fixed /\ (h.urg > 0 \/ o.urg = 0)
  BY DEF Compressible
<1> DEFINE b == [o EXCEPT !.push = f.push, !.len = f.len, !.id = (@ + f.i) % IdSpace]
           g == Restored(o, f)
<1>7. /\ b \in Hdr /\ b.conn = o.conn /\ b.seq = o.seq /\ b.ack = o.ack /\ b.win = o.win /\ b.urg = o.urg
      /\ b.push = h.push /\ b.len = h.len /\ b.id = h.id /\ b.fixed = o.fixed
  BY <1>2, <1>5 DEF Hdr, FrameOf
<1>8. g = CASE f.ch = SpecialI -> [b EXCEPT !.ack = (@ + o.len) % SeqSpace, !.seq = (@ + o.len) % SeqSpace]
            [] f.ch = SpecialD -> [b EXCEPT !.seq = (@ + o.len) % SeqSpace]
            [] OTHER -> [b EXCEPT !.urg = IF "U" \in f.ch THEN f.u ELSE 0,
                                  !.win = IF "W" \in f.ch THEN @ + f.w ELSE @,
                                  !.ack = IF "A" \in f.ch THEN (@ + f.a) % SeqSpace ELSE @,
                                  !.seq = IF "S" \in f.ch THEN (@ + f.s) % SeqSpace ELSE @]
  BY DEF Restored
<1>9. SpecialI # SpecialD
  BY DEF SpecialI, SpecialD
<1> HIDE DEF b, g
<1>10. CASE f.ch = SpecialI
  <2>1. Changes(h, o) = {"S", "A"} /\ f.s = o.len /\ f.a = o.len
    BY <1>10, EncodedIs DEF FrameOf
  <2>2. h.urg = 0 /\ h.win = o.win
    <3>1. ~ (h.urg > 0) /\ ~ (h.win # o.win)
      BY <2>1, ChangesIs
    <3> QED BY <1>2, <3>1
  <2>4. (b.ack + o.len) % SeqSpace = h.ack /\ (b.seq + o.len) % SeqSpace = h.seq
    BY <1>3, <1>4, <1>7, <2>1
  <2> DEFINE x == (b.ack + o.len) % SeqSpace
             y == (b.seq + o.len) % SeqSpace
  <2>6. g = [b EXCEPT !.ack = x, !.seq = y]
    BY <1>8, <1>9, <1>10
  <2>3. g = [b EXCEPT !.ack = h.ack, !.seq = h.seq]
    BY <2>4, <2>6
  <2> HIDE DEF x, y
  <2>7. o.urg = h.urg /\ o.win = h.win
    BY <1>2, <1>6, <2>2
  <2>8. g \in Hdr
    BY <1>2, <1>7, <2>3 DEF Hdr
  <2>5. SameFields(g, h)
    BY <1>6, <1>7, <2>3, <2>7 DEF Hdr, SameFields
  <2> QED BY <2>5, <2>8, HdrEqual DEF g
<1>11. CASE f.ch = SpecialD
  <2>1. Changes(h, o) = {"S"} /\ f.s = o.len
    BY <1>11, EncodedIs DEF FrameOf
  <2>2. h.urg = 0 /\ h.win = o.win /\ h.ack = o.ack
    <3>1. ~ (h.urg > 0) /\ ~ (h.win # o.win) /\ ~ (h.ack # o.ack)
      BY <2>1, ChangesIs
    <3> QED BY <1>2, <3>1
  <2>4. (b.seq + o.len) % SeqSpace = h.seq
    BY <1>4, <1>7, <2>1
  <2>3. g = [b EXCEPT !.seq = h.seq]
    BY <1>8, <1>9, <1>11, <2>4
  <2>5. g \in Hdr /\ SameFields(g, h)
    BY <1>2, <1>6, <1>7, <2>2, <2>3, <2>4 DEF Hdr, SameFields
  <2> QED BY <2>5, HdrEqual DEF g
<1>12. CASE f.ch # SpecialI /\ f.ch # SpecialD
  <2>1. f.ch = Changes(h, o)
    BY <1>12, EncodedIs DEF FrameOf
  <2> DEFINE u == IF "U" \in f.ch THEN f.u ELSE 0
             v == IF "W" \in f.ch THEN b.win + f.w ELSE b.win
             a == IF "A" \in f.ch THEN (b.ack + f.a) % SeqSpace ELSE b.ack
             e == IF "S" \in f.ch THEN (b.seq + f.s) % SeqSpace ELSE b.seq
  <2>2. g = [b EXCEPT !.urg = u, !.win = v, !.ack = a, !.seq = e]
    BY <1>8, <1>12
  <2>3. u = h.urg
    BY <1>2, <2>1, ChangesIs DEF FrameOf
  <2>4. v = h.win
    BY <1>2, <1>7, <2>1, ChangesIs DEF FrameOf
  <2>5. a = h.ack
    BY <1>3, <1>7, <2>1, ChangesIs
  <2>6. e = h.seq
    BY <1>4, <1>7, <2>1, ChangesIs
  <2> HIDE DEF u, v, a, e
  <2>7. g \in Hdr /\ SameFields(g, h)
    BY <1>2, <1>6, <1>7, <2>2, <2>3, <2>4, <2>5, <2>6 DEF Hdr, SameFields
  <2> QED BY <2>7, HdrEqual DEF g
<1> QED
  BY <1>10, <1>11, <1>12

-----------------------------------------------------------------------------
(***************************************************************************)
(* The two ends.                                                           *)
(***************************************************************************)
\* The ring has every slot once.
RingOK(q, S) == q \in Seq(S) /\ NoDup(q) /\ Len(q) > 0 /\ \A i \in S : Member(q, i)

\* A connection has at most one slot, and what is there is what it sent last,
\* but for the ip_id.
Alike(o, h) == o.conn = h.conn /\ o.seq = h.seq /\ o.ack = h.ack /\ o.win = h.win /\ o.len = h.len
OneSlot(T, S) == \A i, j \in S : T[i].conn = T[j].conn /\ T[i].conn # "none" => i = j
Recent(T, S, K) == \A i \in S : T[i].conn # "none" => Alike(T[i], K[T[i].conn])

CompOK(C, S, K) ==
    /\ S \subseteq Nat
    /\ C.tstate \in [S -> Hdr] /\ RingOK(C.ring, S)
    /\ OneSlot(C.tstate, S) /\ Recent(C.tstate, S, K)

\* The decompressor knows the slot of the last packet, unless it tosses, and
\* the slots of Y are as in the compressor.
DecompOK(D, C, S, Y) ==
    /\ D = [rstate |-> D.rstate, last_recv |-> D.last_recv, toss |-> D.toss]
    /\ D.toss \in BOOLEAN /\ D.rstate = [i \in S |-> D.rstate[i]]
    /\ ~D.toss => D.last_recv = C.last_xmit
    /\ Y \subseteq S /\ \A i \in Y : D.rstate[i] = C.tstate[i]

Slots == DOMAIN comp.tstate

VjInv ==
    /\ CompOK(comp, Slots, cur)
    /\ DecompOK(decomp, comp, Slots, sync)
    /\ cur \in [VjConns -> Hdr] /\ \A c \in VjConns : cur[c].conn = c
    /\ HeadersRestored

\* The slot of a connection: its own if it has one.
LEMMA SlotOfIs ==
    ASSUME CompOK(comp, Slots, cur), NEW c, NEW s, s = SlotOf(c)
    PROVE  s \in Slots /\ \A i \in Slots : comp.tstate[i].conn = c /\ c # "none" => i = s
<1> DEFINE q == comp.ring
           T == comp.tstate
           n == Len(q)
           I == {i \in DOMAIN q : T[q[i]].conn = c}
<1>1. q \in Seq(Slots) /\ n > 0 /\ (\A i \in Slots : Member(q, i)) /\ OneSlot(T, Slots)
  BY DEF CompOK, RingOK
<1>2. n \in Nat /\ DOMAIN q = 1 .. n /\ \A i \in 1 .. n : q[i] \in Slots
  BY <1>1
<1>3. s = q[IF I # {} THEN Min(I) ELSE n]
  BY DEF SlotOf
<1>4. I = {i \in 1 .. n : T[q[i]].conn = c}
  BY <1>2
<1>5. I \in SUBSET (1 .. n)
  BY <1>4
<1> HIDE DEF q, T, n, I
<1>6. CASE I = {}
  <2>1. s = q[n] /\ s \in Slots
    BY <1>1, <1>2, <1>3, <1>6
  <2>2. ASSUME NEW i \in Slots, T[i].conn = c PROVE FALSE
    <3>1. PICK k \in 1 .. n : q[k] = i
      BY <1>1 DEF Member, n
    <3>2. k \in I
      BY <1>4, <2>2, <3>1
    <3> QED BY <1>6, <3>2
  <2> QED BY <2>1, <2>2 DEF T
<1>7. CASE I # {}
  <2>1. Min(I) \in I
    BY <1>2, <1>5, <1>7, MinMaxIn
  <2>2. s = q[Min(I)]
    BY <1>3, <1>7
  <2>3. s \in Slots /\ T[s].conn = c
    BY <1>2, <1>4, <2>1, <2>2
  <2> QED BY <1>1, <2>3 DEF OneSlot, T
<1> QED
  BY <1>6, <1>7

\* The compressor after a packet h of its connection in slot s.
Taken(D, C, s, h) ==
    /\ D.tstate = [C.tstate EXCEPT ![s] = h]
    /\ D.ring = <<s>> \o RemoveFirst(C.ring, s) /\ D.last_xmit = s

\* Taking the least recently used slot.
LEMMA TakenOK ==
    ASSUME CompOK(comp, Slots, cur), cur \in [VjConns -> Hdr], \A x \in VjConns : cur[x].conn = x,
           NEW c \in VjConns, NEW h \in Hdr, h.conn = c,
           Taken(comp', comp, SlotOf(c), h), cur' = [cur EXCEPT ![c] = h]
    PROVE  Slots' = Slots /\ CompOK(comp', Slots, cur')
<1> DEFINE s == SlotOf(c)
           S == Slots
<1>1. s \in S /\ \A i \in S : comp.tstate[i].conn = c /\ c # "none" => i = s
  BY SlotOfIs
<1>2. c # "none"
  BY VjAssumption
<1>3. comp.tstate \in [S -> Hdr] /\ S \subseteq Nat /\ RingOK(comp.ring, S)
      /\ OneSlot(comp.tstate, S) /\ Recent(comp.tstate, S, cur)
  BY DEF CompOK
<1>4. Taken(comp', comp, s, h)
  OBVIOUS
<1> HIDE DEF s, S
<1>5. /\ comp'.tstate \in [S -> Hdr] /\ DOMAIN comp'.tstate = S
      /\ comp'.tstate[s] = h /\ \A i \in S : i # s => comp'.tstate[i] = comp.tstate[i]
      /\ comp'.ring = <<s>> \o RemoveFirst(comp.ring, s) /\ comp'.last_xmit = s
  <2>1. /\ comp'.tstate = [comp.tstate EXCEPT ![s] = h]
        /\ comp'.ring = <<s>> \o RemoveFirst(comp.ring, s) /\ comp'.last_xmit = s
    BY <1>4 DEF Taken
  <2> QED BY <1>1, <1>3, <2>1
<1>6. RingOK(comp'.ring, S)
  <2> DEFINE q == comp.ring
             p == RemoveFirst(q, s)
             r == <<s>> \o p
  <2>1. q \in Seq(S) /\ NoDup(q) /\ \A i \in S : Member(q, i)
    BY <1>3 DEF RingOK
  <2> HIDE DEF q
  <2>2. p \in Seq(S) /\ NoDup(p) /\ \A x : Member(p, x) <=> Member(q, x) /\ x # s
    BY <2>1, RemoveOK
  <2> HIDE DEF p
  <2>3. r \in Seq(S) /\ NoDup(r) /\ \A x : Member(r, x) <=> Member(p, x) \/ x = s
    BY <1>1, <2>2, PrependOK
  <2>4. Len(r) > 0
    BY <1>1, <2>2
  <2> HIDE DEF r
  <2>5. \A i \in S : Member(r, i)
    BY <2>1, <2>2, <2>3
  <2>6. comp'.ring = r
    BY <1>5 DEF r, p, q
  <2> QED BY <2>3, <2>4, <2>5, <2>6 DEF RingOK
<1>7. OneSlot(comp'.tstate, S)
  <2> SUFFICES ASSUME NEW i \in S, NEW j \in S, comp'.tstate[i].conn = comp'.tstate[j].conn,
                      comp'.tstate[i].conn # "none"
               PROVE  i = j
    BY DEF OneSlot
  <2>1. CASE i # s /\ j # s
    BY <1>3, <1>5, <2>1 DEF OneSlot
  <2>2. CASE i = s \/ j = s
    BY <1>1, <1>2, <1>5, <2>2
  <2> QED BY <2>1, <2>2
<1>8. Recent(comp'.tstate, S, cur')
  <2> SUFFICES ASSUME NEW i \in S, comp'.tstate[i].conn # "none"
               PROVE  Alike(comp'.tstate[i], cur'[comp'.tstate[i].conn])
    BY DEF Recent
  <2>1. cur'[c] = h /\ \A x \in VjConns : x # c => cur'[x] = cur[x]
    OBVIOUS
  <2>2. CASE i = s
    BY <1>5, <2>1, <2>2 DEF Alike
  <2>3. CASE i # s
    <3>1. comp'.tstate[i] = comp.tstate[i] /\ comp.tstate[i] \in Hdr
      BY <1>3, <1>5, <2>3
    <3>2. comp.tstate[i].conn \in VjConns /\ comp.tstate[i].conn # c
      BY <1>1, <1>2, <2>3, <3>1, HdrIs
    <3> QED BY <1>3, <2>1, <3>1, <3>2 DEF Recent
  <2> QED BY <2>2, <2>3
<1> QED
  BY <1>3, <1>5, <1>6, <1>7, <1>8 DEF CompOK, Slots, S

\* A packet in slot s that did not arrive.
Lost(s) ==
    /\ decomp' = [rstate |-> decomp.rstate, last_recv |-> decomp.last_recv, toss |-> TRUE]
    /\ sync' = sync \ {s} /\ out'.got = Tossed

\* A packet in slot s of which g came out.
Arrived(s, g, Y) ==
    /\ decomp' = [rstate |-> [decomp.rstate EXCEPT ![s] = g], last_recv |-> s, toss |-> FALSE]
    /\ sync' = (IF g = Tossed THEN sync \ {s} ELSE Y) /\ out'.got = g /\ ~out'.mixed

\* What was sent, and whether it should have arrived.
Sent(c, h, s) ==
    /\ out'.sent = h
    /\ out'.sync => s \in sync'
    /\ out'.again => h \in Repeats(c) /\ h.urg = 0

\* What a packet that may be compressed does.
LEMMA PackedStep ==
    ASSUME VjInv, NEW c \in VjConns, NEW h \in Hdr, h.conn = c, NEW damaged \in BOOLEAN,
           SendTcp(c, h, FALSE, damaged), NEW s, s = SlotOf(c), NEW o, o = comp.tstate[s]
    PROVE  /\ Taken(comp', comp, s, h) /\ cur' = [cur EXCEPT ![c] = h] /\ Sent(c, h, s)
           /\ \/ Lost(s)
              \/ ~Compressible(h, o) /\ Arrived(s, h, sync \cup {s})
              \/ Compressible(h, o) /\ \E f : FrameOf(f, h, o) /\ Arrived(s, Restored(decomp.rstate[s], f), sync)
<1> DEFINE r == sl_compress_tcp(h, FALSE)
           d == IF damaged THEN LineError ELSE sl_uncompress_tcp(r.frame)
           f == Frame(h, o, s)
<1>1. s \in Slots /\ Slots \subseteq Nat
  BY SlotOfIs DEF VjInv, CompOK
<1>2. /\ r.comp = [tstate |-> [comp.tstate EXCEPT ![s] = h], ring |-> <<s>> \o RemoveFirst(comp.ring, s), last_xmit |-> s]
      /\ r.slot = s
      /\ Compressible(h, o) => r.frame = f
      /\ ~Compressible(h, o) => r.frame = [type |-> "uncomp", hdr |-> h, cid |-> s]
  BY DEF sl_compress_tcp
<1>3. /\ comp' = r.comp /\ decomp' = d.decomp /\ cur' = [cur EXCEPT ![c] = h]
      /\ sync' = IF r.slot = -1 THEN sync
                 ELSE IF d.hdr = Tossed THEN sync \ {r.slot}
                 ELSE IF r.frame.type = "uncomp" THEN sync \cup {r.slot}
                 ELSE sync
      /\ out' = [sent |-> h, got |-> d.hdr, sync |-> r.slot = -1 \/ r.slot \in sync',
                 mixed |-> r.slot # -1 /\ d.decomp.last_recv # r.slot, again |-> h \in Repeats(c) /\ h.urg = 0]
  BY DEF SendTcp
<1> HIDE DEF r, d
<1>4. r.slot # -1
  BY <1>1, <1>2
<1>5. Taken(comp', comp, s, h)
  BY <1>2, <1>3 DEF Taken
<1>6. out'.sent = h /\ out'.got = d.hdr
  BY <1>3
<1>7. out'.sync <=> s \in sync'
  BY <1>2, <1>3, <1>4
<1>8. out'.mixed <=> d.decomp.last_recv # s
  BY <1>2, <1>3, <1>4
<1>9. out'.again <=> h \in Repeats(c) /\ h.urg = 0
  BY <1>3
<1>10. sync' = IF d.hdr = Tossed THEN sync \ {s} ELSE IF r.frame.type = "uncomp" THEN sync \cup {s} ELSE sync
  BY <1>2, <1>3, <1>4
<1>11. decomp = [rstate |-> decomp.rstate, last_recv |-> decomp.last_recv, toss |-> decomp.toss]
       /\ decomp.toss \in BOOLEAN /\ (~decomp.toss => decomp.last_recv = comp.last_xmit)
  BY DEF VjInv, DecompOK
<1>12. CASE damaged
  <2>1. d = LineError
    BY <1>12 DEF d
  <2>2. d.hdr = Tossed /\ d.decomp = [decomp EXCEPT !.toss = TRUE]
    BY <2>1 DEF LineError
  <2>3. d.decomp = [rstate |-> decomp.rstate, last_recv |-> decomp.last_recv, toss |-> TRUE]
    BY <1>11, <2>2
  <2>4. Lost(s)
    BY <1>3, <1>6, <1>10, <2>2, <2>3 DEF Lost
  <2> QED BY <1>3, <1>5, <1>6, <1>7, <1>9, <2>4 DEF Sent
<1>13. CASE ~damaged /\ ~Compressible(h, o)
  <2>1. r.frame.type = "uncomp" /\ r.frame.hdr = h /\ r.frame.cid = s
    BY <1>2, <1>13
  <2>2. d = sl_uncompress_tcp(r.frame)
    BY <1>13 DEF d
  <2>3. d.hdr = h /\ d.decomp = [rstate |-> [decomp.rstate EXCEPT ![s] = h], last_recv |-> s, toss |-> FALSE]
    BY <2>1, <2>2 DEF sl_uncompress_tcp
  <2>4. d.decomp.last_recv = s
    BY <2>3
  <2>5. Arrived(s, h, sync \cup {s})
    BY <1>3, <1>6, <1>8, <1>10, <2>1, <2>3, <2>4 DEF Arrived
  <2> QED BY <1>3, <1>5, <1>6, <1>7, <1>9, <1>13, <2>5 DEF Sent
<1>14. CASE ~damaged /\ Compressible(h, o)
  <2> DEFINE none == CompressCid /\ comp.last_xmit = s
  <2>1. /\ r.frame = f /\ f.type = "comp" /\ f.cid = IF none THEN {} ELSE {s}
        /\ FrameOf(f, h, o)
    BY <1>2, <1>14 DEF Frame, FrameOf
  <2>2. d = sl_uncompress_tcp(f)
    BY <1>14, <2>1 DEF d
  <2> HIDE DEF f
  <2>3. CASE none /\ decomp.toss
    <3>1. f.cid = {}
      BY <2>1, <2>3
    <3>2. d.hdr = Tossed /\ d.decomp = decomp
      BY <2>1, <2>2, <2>3, <3>1 DEF sl_uncompress_tcp
    <3>3. decomp = [rstate |-> decomp.rstate, last_recv |-> decomp.last_recv, toss |-> TRUE]
      BY <1>11, <2>3
    <3>4. Lost(s)
      BY <1>3, <1>6, <1>10, <3>2, <3>3 DEF Lost
    <3> QED BY <1>3, <1>5, <1>6, <1>7, <1>9, <3>4 DEF Sent
  <2>4. CASE ~ (none /\ decomp.toss)
    <3> DEFINE cid == IF f.cid = {} THEN decomp.last_recv ELSE CHOOSE x \in f.cid : TRUE
               g == Restored(decomp.rstate[cid], f)
    <3>1. cid = s
      <4>1. CASE none
        BY <1>11, <2>1, <2>4, <4>1
      <4>2. CASE ~none
        <5>1. f.cid = {s}
          BY <2>1, <4>2
        <5> QED BY <5>1
      <4> QED BY <4>1, <4>2
    <3>2. ~ (f.cid = {} /\ decomp.toss)
      BY <2>1, <2>4
    <3>3. d = [decomp |-> [rstate |-> [decomp.rstate EXCEPT ![cid] = g], last_recv |-> cid, toss |-> FALSE], hdr |-> g]
      BY <2>1, <2>2, <3>2 DEF sl_uncompress_tcp
    <3> HIDE DEF cid, g
    <3>4. d.hdr = g /\ d.decomp = [rstate |-> [decomp.rstate EXCEPT ![s] = g], last_recv |-> s, toss |-> FALSE]
      BY <3>1, <3>3
    <3>5. d.decomp.last_recv = s
      BY <3>4
    <3>6. r.frame.type # "uncomp"
      BY <2>1
    <3>7. Arrived(s, g, sync)
      BY <1>3, <1>6, <1>8, <1>10, <3>4, <3>5, <3>6 DEF Arrived
    <3>8. g = Restored(decomp.rstate[s], f)
      BY <3>1 DEF g
    <3> QED BY <1>3, <1>5, <1>6, <1>7, <1>9, <1>14, <2>1, <3>7, <3>8 DEF Sent
  <2> QED BY <2>3, <2>4
<1> QED
  BY <1>12, <1>13, <1>14

\* A packet that TCP repeats is sent with its full header.
LEMMA RepeatFull ==
    ASSUME VjInv, NEW c \in VjConns, NEW h \in Hdr, h \in Repeats(c), h.urg = 0, h.conn = c,
           NEW s, s = SlotOf(c), NEW o, o = comp.tstate[s], Compressible(h, o)
    PROVE  FALSE
<1>1. s \in Slots /\ CompOK(comp, Slots, cur) /\ cur \in [VjConns -> Hdr] /\ c # "none"
  BY SlotOfIs, VjAssumption DEF VjInv
<1>2. o \in Hdr /\ o.conn = c
  BY <1>1 DEF CompOK, Compressible
<1> DEFINE k == cur[c]
<1>3. Alike(o, k) /\ k \in Hdr
  BY <1>1, <1>2 DEF CompOK, Recent
<1>4. /\ o.seq \in Field /\ o.ack \in Field /\ k.seq \in Field /\ SeqSpace \in Nat \ {0} /\ DeltaMax \in Nat
      /\ DeltaMax < SeqSpace - 1
  BY <1>2, <1>3, HdrIs, VjAssumption
<1>5. \/ h = [k EXCEPT !.id = (@ + 1) % IdSpace]
      \/ h = [k EXCEPT !.seq = (@ - 1) % SeqSpace, !.id = (@ + 1) % IdSpace]
  BY DEF Repeats
<1> HIDE DEF k
<1>6. CASE h = [k EXCEPT !.id = (@ + 1) % IdSpace]
  <2>1. h.seq = o.seq /\ h.ack = o.ack /\ h.win = o.win /\ h.len = o.len
    BY <1>3, <1>6 DEF Alike, Hdr
  <2>2. Changes(h, o) = {}
    BY <2>1 DEF Changes
  <2> QED BY <2>1, <2>2 DEF Compressible, Unchanged
<1>7. CASE h = [k EXCEPT !.seq = (@ - 1) % SeqSpace, !.id = (@ + 1) % IdSpace]
  <2>1. h.seq = (o.seq - 1) % SeqSpace
    BY <1>3, <1>7 DEF Alike, Hdr
  <2> DEFINE x == o.seq
  <2>2. x \in 0 .. SeqSpace - 1
    BY <1>4 DEF Field
  <2>3. Delta(h.seq, o.seq) = (((x - 1) % SeqSpace) - x) % SeqSpace
    BY <2>1 DEF Delta
  <2> HIDE DEF x
  <2>4. Delta(h.seq, o.seq) = SeqSpace - 1
    BY <1>4, <2>2, <2>3, StepBack
  <2>5. Delta(h.seq, o.seq) <= DeltaMax
    BY DEF Compressible
  <2> QED BY <1>4, <2>4, <2>5
<1> QED
  BY <1>5, <1>6, <1>7

\* A packet that may be compressed keeps the two ends together.
LEMMA PackedOK ==
    ASSUME VjInv, NEW c \in VjConns, NEW h \in Hdr, h.conn = c, NEW damaged \in BOOLEAN,
           SendTcp(c, h, FALSE, damaged)
    PROVE  VjInv'
<1> DEFINE s == SlotOf(c)
           o == comp.tstate[s]
<1>1. /\ Taken(comp', comp, s, h) /\ cur' = [cur EXCEPT ![c] = h] /\ Sent(c, h, s)
      /\ \/ Lost(s)
         \/ ~Compressible(h, o) /\ Arrived(s, h, sync \cup {s})
         \/ Compressible(h, o) /\ \E f : FrameOf(f, h, o) /\ Arrived(s, Restored(decomp.rstate[s], f), sync)
  BY PackedStep
<1>2. CompOK(comp, Slots, cur) /\ DecompOK(decomp, comp, Slots, sync)
      /\ cur \in [VjConns -> Hdr] /\ \A x \in VjConns : cur[x].conn = x
  BY DEF VjInv
<1>3. Slots' = Slots /\ CompOK(comp', Slots, cur')
  BY <1>1, <1>2, TakenOK
<1>4. cur' \in [VjConns -> Hdr] /\ \A x \in VjConns : cur'[x].conn = x
  BY <1>1, <1>2
<1>5. s = SlotOf(c) /\ o = comp.tstate[s] /\ s \in Slots /\ o \in Hdr
  BY <1>2, SlotOfIs DEF CompOK
<1> HIDE DEF s, o
<1>6. /\ comp'.last_xmit = s /\ comp'.tstate[s] = h
      /\ \A i \in Slots : i # s => comp'.tstate[i] = comp.tstate[i]
  BY <1>1, <1>2, <1>5 DEF Taken, CompOK
<1>7. /\ decomp.rstate = [i \in Slots |-> decomp.rstate[i]] /\ sync \subseteq Slots
      /\ \A i \in sync : decomp.rstate[i] = comp.tstate[i]
  BY <1>2 DEF DecompOK
<1>8. ASSUME NEW g, NEW Y, Arrived(s, g, Y), Y \subseteq sync \cup {s}, s \in Y => g = h
      PROVE  DecompOK(decomp', comp', Slots, sync')
  <2>1. decomp' = [rstate |-> [decomp.rstate EXCEPT ![s] = g], last_recv |-> s, toss |-> FALSE]
        /\ sync' = (IF g = Tossed THEN sync \ {s} ELSE Y)
    BY <1>8 DEF Arrived
  <2>2. /\ decomp'.rstate = [decomp.rstate EXCEPT ![s] = g] /\ decomp'.last_recv = s /\ decomp'.toss = FALSE
        /\ decomp' = [rstate |-> decomp'.rstate, last_recv |-> decomp'.last_recv, toss |-> decomp'.toss]
    BY <2>1
  <2>3. /\ decomp'.rstate = [i \in Slots |-> decomp'.rstate[i]] /\ decomp'.rstate[s] = g
        /\ \A i \in Slots : i # s => decomp'.rstate[i] = decomp.rstate[i]
    BY <1>5, <1>7, <2>2
  <2>4. sync' \subseteq sync \cup {s} /\ (s \in sync' => g = h)
    BY <1>8, <2>1
  <2>5. sync' \subseteq Slots /\ \A i \in sync' : decomp'.rstate[i] = comp'.tstate[i]
    BY <1>5, <1>6, <1>7, <2>3, <2>4
  <2>6. decomp'.toss \in BOOLEAN /\ (~decomp'.toss => decomp'.last_recv = comp'.last_xmit)
    BY <1>6, <2>2
  <2> HIDE DEF Slots
  <2> QED BY <2>2, <2>3, <2>5, <2>6 DEF DecompOK
<1>9. CASE Lost(s)
  <2>1. decomp' = [rstate |-> decomp.rstate, last_recv |-> decomp.last_recv, toss |-> TRUE]
        /\ sync' = sync \ {s} /\ out'.got = Tossed
    BY <1>9 DEF Lost
  <2>2. /\ decomp'.rstate = decomp.rstate /\ decomp'.toss = TRUE
        /\ decomp' = [rstate |-> decomp'.rstate, last_recv |-> decomp'.last_recv, toss |-> decomp'.toss]
    BY <2>1
  <2>3. sync' \subseteq Slots /\ \A i \in sync' : decomp'.rstate[i] = comp'.tstate[i]
    BY <1>6, <1>7, <2>1, <2>2
  <2>4. decomp'.rstate = [i \in Slots |-> decomp'.rstate[i]]
    BY <1>7, <2>2
  <2>5. DecompOK(decomp', comp', Slots, sync')
    BY <2>2, <2>3, <2>4 DEF DecompOK
  <2>6. HeadersRestored'
    BY <2>1 DEF HeadersRestored, Tossed, NoHdr
  <2> QED BY <1>3, <1>4, <2>5, <2>6 DEF VjInv
<1>10. CASE ~Compressible(h, o) /\ Arrived(s, h, sync \cup {s})
  <2>1. DecompOK(decomp', comp', Slots, sync')
    BY <1>8, <1>10
  <2>2. out'.got = h /\ out'.sent = h /\ ~out'.mixed
    BY <1>1, <1>10 DEF Arrived, Sent
  <2>3. HeadersRestored'
    BY <2>2 DEF HeadersRestored
  <2> QED BY <1>3, <1>4, <2>1, <2>3 DEF VjInv
<1>11. CASE Compressible(h, o) /\ \E f : FrameOf(f, h, o) /\ Arrived(s, Restored(decomp.rstate[s], f), sync)
  <2>1. PICK f : FrameOf(f, h, o) /\ Arrived(s, Restored(decomp.rstate[s], f), sync)
    BY <1>11
  <2> DEFINE g == Restored(decomp.rstate[s], f)
  <2>2. s \in sync => decomp.rstate[s] = o
    BY <1>5, <1>7
  <2>3. Restored(o, f) = h
    BY <1>5, <1>11, <2>1, RestoreOK
  <2>4. s \in sync => g = h
    BY <2>2, <2>3
  <2>5. Arrived(s, g, sync)
    BY <2>1
  <2> HIDE DEF g
  <2>6. DecompOK(decomp', comp', Slots, sync')
    BY <1>8, <2>4, <2>5
  <2>7. /\ out'.got = g /\ out'.sent = h /\ ~out'.mixed
        /\ out'.sync => s \in sync' /\ sync' \subseteq sync
    BY <1>1, <2>5 DEF Arrived, Sent
  <2>8. ~out'.again
    <3>1. out'.again => h \in Repeats(c) /\ h.urg = 0
      BY <1>1 DEF Sent
    <3> QED BY <1>5, <1>11, <3>1, RepeatFull
  <2>9. HeadersRestored'
    BY <2>4, <2>7, <2>8 DEF HeadersRestored
  <2> QED BY <1>3, <1>4, <2>6, <2>9 DEF VjInv
<1> QED
  BY <1>1, <1>9, <1>10, <1>11

\* A packet that goes as it is touches neither end, but for SLF_TOSS.
LEMMA PlainOK ==
    ASSUME VjInv, NEW c \in VjConns, NEW h \in Hdr, h.conn = c, Alike(cur[c], h), NEW damaged \in BOOLEAN,
           SendTcp(c, h, TRUE, damaged)
    PROVE  VjInv'
<1> DEFINE r == sl_compress_tcp(h, TRUE)
           d == IF damaged THEN LineError ELSE sl_uncompress_tcp(r.frame)
<1>1. r.frame.type = "ip" /\ r.frame.hdr = h /\ r.comp = comp /\ r.slot = -1
  BY DEF sl_compress_tcp
<1>2. /\ comp' = r.comp /\ decomp' = d.decomp /\ cur' = [cur EXCEPT ![c] = h]
      /\ sync' = IF r.slot = -1 THEN sync
                 ELSE IF d.hdr = Tossed THEN sync \ {r.slot}
                 ELSE IF r.frame.type = "uncomp" THEN sync \cup {r.slot}
                 ELSE sync
      /\ out' = [sent |-> h, got |-> d.hdr, sync |-> r.slot = -1 \/ r.slot \in sync',
                 mixed |-> r.slot # -1 /\ d.decomp.last_recv # r.slot, again |-> h \in Repeats(c) /\ h.urg = 0]
  BY DEF SendTcp
<1> HIDE DEF r
<1>3. \/ d.hdr = h /\ d.decomp = decomp
      \/ d.hdr = Tossed /\ d.decomp = [decomp EXCEPT !.toss = TRUE]
  BY <1>1 DEF sl_uncompress_tcp, LineError
<1> HIDE DEF d
<1>4. comp' = comp /\ sync' = sync /\ out'.sent = h /\ out'.got = d.hdr /\ ~out'.mixed
  BY <1>1, <1>2
<1>5. HeadersRestored'
  BY <1>3, <1>4 DEF HeadersRestored
<1>6. CompOK(comp, Slots, cur) /\ DecompOK(decomp, comp, Slots, sync) /\ cur \in [VjConns -> Hdr]
      /\ \A x \in VjConns : cur[x].conn = x
  BY DEF VjInv
<1>7. cur' \in [VjConns -> Hdr] /\ cur'[c] = h /\ \A x \in VjConns : x # c => cur'[x] = cur[x]
  BY <1>2, <1>6
<1>8. \A x \in VjConns : cur'[x].conn = x
  BY <1>6, <1>7
<1>9. Recent(comp.tstate, Slots, cur')
  <2> SUFFICES ASSUME NEW i \in Slots, comp.tstate[i].conn # "none"
               PROVE  Alike(comp.tstate[i], cur'[comp.tstate[i].conn])
    BY DEF Recent
  <2>1. comp.tstate[i] \in Hdr /\ Alike(comp.tstate[i], cur[comp.tstate[i].conn])
    BY <1>6 DEF CompOK, Recent
  <2>2. comp.tstate[i].conn \in VjConns
    BY <2>1, HdrIs
  <2> QED BY <1>7, <2>1, <2>2 DEF Alike
<1>10. Slots' = Slots /\ CompOK(comp', Slots, cur')
  BY <1>4, <1>6, <1>9 DEF CompOK, Slots
<1>11. decomp' = d.decomp
  BY <1>2
<1>12. DecompOK(decomp', comp', Slots, sync')
  <2>1. CASE d.decomp = decomp
    BY <1>4, <1>6, <1>11, <2>1
  <2>2. CASE d.decomp = [decomp EXCEPT !.toss = TRUE]
    <3>1. decomp = [rstate |-> decomp.rstate, last_recv |-> decomp.last_recv, toss |-> decomp.toss]
      BY <1>6 DEF DecompOK
    <3>2. decomp' = [rstate |-> decomp.rstate, last_recv |-> decomp.last_recv, toss |-> TRUE]
      BY <1>11, <2>2, <3>1
    <3>3. /\ decomp'.rstate = decomp.rstate /\ decomp'.toss = TRUE
          /\ decomp' = [rstate |-> decomp'.rstate, last_recv |-> decomp'.last_recv, toss |-> decomp'.toss]
      BY <3>2
    <3> QED BY <1>4, <1>6, <3>3 DEF DecompOK
  <2> QED BY <1>3, <2>1, <2>2
<1> QED
  BY <1>5, <1>7, <1>8, <1>10, <1>12 DEF VjInv

-----------------------------------------------------------------------------
\* What a connection sends is a header of its own.
LEMMA MoveIs ==
    ASSUME NEW c \in VjConns, cur \in [VjConns -> Hdr], cur[c].conn = c, NEW h \in Moves(c) \cup Repeats(c)
    PROVE  h \in Hdr /\ h.conn = c
<1> DEFINE k == cur[c]
           n == [k EXCEPT !.seq = (@ + k.len) % SeqSpace, !.push = FALSE, !.urg = 0, !.id = (@ + 1) % IdSpace]
<1>1. k \in Hdr /\ k.conn = c /\ SeqSpace \in Nat \ {0} /\ IdSpace \in Nat \ {0}
  BY VjAssumption
<1>2. \A x \in Int : x % SeqSpace \in Field
  BY <1>1 DEF Field
<1>3. \A x \in Int : x % IdSpace \in Ident
  BY <1>1 DEF Ident
<1>4. \/ h \in {[n EXCEPT !.len = 1], [n EXCEPT !.len = 0, !.ack = (@ + 1) % SeqSpace],
                [n EXCEPT !.len = 1, !.ack = (@ + k.len) % SeqSpace, !.push = TRUE],
                [n EXCEPT !.win = 1 - @, !.len = 0, !.id = (@ + 1) % IdSpace, !.fixed = 1 - @],
                [n EXCEPT !.urg = 1, !.len = 1, !.win = 1 - @]}
      \/ h \in {[k EXCEPT !.id = (@ + 1) % IdSpace], [k EXCEPT !.seq = (@ - 1) % SeqSpace, !.id = (@ + 1) % IdSpace]}
  BY DEF Moves, Repeats
<1> HIDE DEF k
<1>5. k.seq \in Int /\ k.ack \in Int /\ k.id \in Int /\ k.len \in Nat /\ k.win \in Int /\ k.fixed \in Int
  BY <1>1, HdrIs DEF Field, Ident
<1>6. (k.seq + k.len) % SeqSpace \in Field /\ (k.id + 1) % IdSpace \in Ident /\ (k.seq - 1) % SeqSpace \in Field
  BY <1>2, <1>3, <1>5
<1>7. n \in Hdr /\ n.conn = c
  BY <1>1, <1>6 DEF Hdr
<1> HIDE DEF n
<1>8. n.ack \in Int /\ n.id \in Int /\ n.win \in Int /\ n.fixed \in Int
  BY <1>7, HdrIs DEF Field, Ident
<1>9. /\ (n.ack + 1) % SeqSpace \in Field /\ (n.ack + k.len) % SeqSpace \in Field /\ (n.id + 1) % IdSpace \in Ident
      /\ 1 - n.win \in Int /\ 1 - n.fixed \in Int
  BY <1>2, <1>3, <1>5, <1>8
<1>10. CASE h = [n EXCEPT !.len = 1]
  BY <1>7, <1>10 DEF Hdr
<1>11. CASE h = [n EXCEPT !.len = 0, !.ack = (@ + 1) % SeqSpace]
  BY <1>7, <1>9, <1>11 DEF Hdr
<1>12. CASE h = [n EXCEPT !.len = 1, !.ack = (@ + k.len) % SeqSpace, !.push = TRUE]
  BY <1>7, <1>9, <1>12 DEF Hdr
<1>13. CASE h = [n EXCEPT !.win = 1 - @, !.len = 0, !.id = (@ + 1) % IdSpace, !.fixed = 1 - @]
  BY <1>7, <1>9, <1>13 DEF Hdr
<1>14. CASE h = [n EXCEPT !.urg = 1, !.len = 1, !.win = 1 - @]
  BY <1>7, <1>9, <1>14 DEF Hdr
<1>15. CASE h = [k EXCEPT !.id = (@ + 1) % IdSpace]
  BY <1>1, <1>6, <1>15 DEF Hdr
<1>16. CASE h = [k EXCEPT !.seq = (@ - 1) % SeqSpace, !.id = (@ + 1) % IdSpace]
  BY <1>1, <1>6, <1>16 DEF Hdr
<1> QED
  BY <1>4, <1>10, <1>11, <1>12, <1>13, <1>14, <1>15, <1>16

\* The invariant is inductive.
LEMMA VjNextOK == VjInv /\ [VjNext]_vjVars => VjInv'
<1> SUFFICES ASSUME VjInv, [VjNext]_vjVars PROVE VjInv'
  OBVIOUS
<1>1. cur \in [VjConns -> Hdr] /\ \A x \in VjConns : cur[x].conn = x
  BY DEF VjInv
<1>2. ASSUME NEW c \in VjConns, NEW damaged \in BOOLEAN, NEW h \in Moves(c) \cup Repeats(c),
             SendTcp(c, h, FALSE, damaged)
      PROVE  VjInv'
  <2>1. h \in Hdr /\ h.conn = c
    BY <1>1, MoveIs
  <2> QED BY <1>2, <2>1, PackedOK
<1>3. ASSUME NEW c \in VjConns, NEW damaged \in BOOLEAN,
             SendTcp(c, [cur[c] EXCEPT !.id = (@ + 1) % IdSpace], TRUE, damaged)
      PROVE  VjInv'
  <2> DEFINE k == cur[c]
             h == [k EXCEPT !.id = (@ + 1) % IdSpace]
  <2>1. h \in Hdr /\ h.conn = c
    <3>1. h \in Moves(c) \cup Repeats(c)
      BY DEF Repeats
    <3> QED BY <1>1, <3>1, MoveIs
  <2>2. k \in Hdr /\ k = cur[c]
    BY <1>1
  <2>4. SendTcp(c, h, TRUE, damaged)
    BY <1>3
  <2>3. Alike(cur[c], h)
    <3> HIDE DEF k
    <3>1. Alike(k, h)
      BY <2>2 DEF Alike, Hdr
    <3> QED BY <2>2, <3>1
  <2> HIDE DEF h
  <2> QED BY <2>1, <2>3, <2>4, PlainOK
<1>4. CASE UNCHANGED vjVars
  <2>1. comp' = comp /\ decomp' = decomp /\ cur' = cur /\ sync' = sync /\ out' = out
    BY <1>4 DEF vjVars
  <2>2. Slots' = Slots
    BY <2>1 DEF Slots
  <2>3. HeadersRestored'
    BY <2>1 DEF VjInv, HeadersRestored
  <2> QED BY <2>1, <2>2, <2>3 DEF VjInv
<1> QED
  BY <1>2, <1>3, <1>4 DEF VjNext

\* It holds at the start.
LEMMA VjInitOK == VjInit => VjInv
<1> SUFFICES ASSUME VjInit PROVE VjInv
  OBVIOUS
<1>1. PICK n \in StateCounts : sl_compress_init(n)
  BY DEF VjInit
<1>2. n \in Nat \ {0} /\ 0 \in Field /\ 0 \in Ident /\ VjConns \cap {"none", "tossed"} = {}
  BY VjAssumption DEF Field, Ident
<1>3. NoHdr \in Hdr /\ NoHdr.conn = "none"
  BY <1>2 DEF NoHdr, Hdr
<1> DEFINE S == 0 .. n - 1
           E == [i \in S |-> NoHdr]
           R == [i \in 1 .. n |-> n - i]
<1>4. comp = [tstate |-> E, ring |-> R, last_xmit |-> 255] /\ decomp = [rstate |-> E, last_recv |-> 255, toss |-> TRUE]
  BY <1>1 DEF sl_compress_init
<1>5. comp.tstate = E /\ comp.ring = R /\ decomp.rstate = E /\ decomp.toss = TRUE
      /\ decomp = [rstate |-> decomp.rstate, last_recv |-> decomp.last_recv, toss |-> decomp.toss]
  BY <1>4
<1>6. E \in [S -> Hdr] /\ DOMAIN E = S /\ \A i \in S : E[i].conn = "none"
  BY <1>3
<1>7. RingOK(R, S)
  <2>1. R \in Seq(S) /\ Len(R) = n
    BY <1>2
  <2>2. NoDup(R)
    BY <1>2, <2>1 DEF NoDup
  <2>3. ASSUME NEW i \in S PROVE Member(R, i)
    <3>1. n - i \in 1 .. n /\ R[n - i] = i
      BY <1>2
    <3> QED BY <2>1, <3>1 DEF Member
  <2> QED BY <1>2, <2>1, <2>2, <2>3 DEF RingOK
<1> HIDE DEF E, R
<1>8. Slots = S /\ S \subseteq Nat
  BY <1>2, <1>5, <1>6 DEF Slots
<1>9. CompOK(comp, Slots, cur)
  BY <1>5, <1>6, <1>7, <1>8 DEF CompOK, OneSlot, Recent
<1>10. sync = {} /\ cur = [c \in VjConns |-> [NoHdr EXCEPT !.conn = c]]
       /\ out = [sent |-> NoHdr, got |-> Tossed, sync |-> TRUE, mixed |-> FALSE, again |-> FALSE]
  BY DEF VjInit
<1>11. DecompOK(decomp, comp, Slots, sync)
  <2>1. decomp.rstate = [i \in Slots |-> decomp.rstate[i]]
    BY <1>5, <1>6, <1>8
  <2> QED BY <1>5, <1>10, <2>1 DEF DecompOK
<1>12. cur \in [VjConns -> Hdr] /\ \A c \in VjConns : cur[c].conn = c
  <2>1. ASSUME NEW c \in VjConns PROVE [NoHdr EXCEPT !.conn = c] \in Hdr /\ [NoHdr EXCEPT !.conn = c].conn = c
    BY <1>3 DEF Hdr
  <2> QED BY <1>10, <2>1
<1>13. HeadersRestored
  BY <1>10 DEF HeadersRestored
<1> QED
  BY <1>9, <1>11, <1>12, <1>13 DEF VjInv

\* For any number of slots and connections, what comes out of the decompressor
\* is what went into the compressor unless a frame of the slot was lost, never
\* comes from the slot of another connection, and a packet that TCP repeats
\* comes out right whatever was lost (sl_compress_tcp, sl_uncompress_tcp).
THEOREM HeadersAlwaysRestored == VjSpec => []HeadersRestored
<1>1. VjInv => HeadersRestored
  BY DEF VjInv
<1> QED
  BY <1>1, VjInitOK, VjNextOK, PTL DEF VjSpec

-----------------------------------------------------------------------------
(***************************************************************************)
(* The secrets.                                                            *)
(***************************************************************************)
AnyResult(x) == TRUE
Find == INSTANCE SeqLemmas WITH Op <- FindTurn, Holds <- AnyResult
Scan == INSTANCE SeqLemmas WITH Op <- ScanTurn, Holds <- AnyResult

\* The entries of q that answer a question.
Answers(q, client, server) == {e \in ToSet(q) : Asked(e, client, server)}

\* A result of a lookup in q that counts is that of one of them.
ResultOf(r, q, client, server) ==
    /\ r.flag \in Int
    /\ r.flag >= 0 => \E e \in Answers(q, client, server) : r.addrs = e.addrs /\ r.secret \in SecretOf(e)

\* What a lookup sees of a list.
LEMMA MarkedIs ==
    ASSUME NEW E, NEW q \in Seq(E), NEW client, NEW server, NEW M, M = Marked(q, client, server)
    PROVE  /\ M \in Seq({M[i] : i \in 1 .. Len(q)}) /\ Len(M) = Len(q) /\ Len(q) \in Nat
           /\ \A i \in 1 .. Len(q) : M[i].e \in ToSet(q) /\ (M[i].asked => M[i].e \in Answers(q, client, server))
<1>1. Len(q) \in Nat /\ DOMAIN q = 1 .. Len(q)
  OBVIOUS
<1>2. M = [i \in 1 .. Len(q) |-> [e |-> q[i], asked |-> Asked(q[i], client, server)]]
  BY <1>1 DEF Marked
<1>3. \A i \in 1 .. Len(q) : M[i].e = q[i] /\ (M[i].asked <=> Asked(q[i], client, server))
  BY <1>2
<1>4. M = [i \in 1 .. Len(q) |-> M[i]]
  BY <1>2
<1> HIDE <1>2
<1>5. M \in Seq({M[i] : i \in 1 .. Len(q)}) /\ Len(M) = Len(q)
  BY <1>1, <1>4
<1>6. ASSUME NEW i \in 1 .. Len(q) PROVE q[i] \in ToSet(q)
  BY <1>1 DEF ToSet
<1> QED
  BY <1>1, <1>3, <1>5, <1>6 DEF Answers

\* The flags of an entry.
Flags == {0, 1, 2, 3}

\* Whatever came before, an entry has one of the four flags.
LEMMA FlagIn ==
    ASSUME NEW e, NEW got \in Flags
    PROVE  Flag(e, got) \in Flags
  BY DEF Flag, Flags, NONWILD_SERVER, NONWILD_CLIENT, ISWILD

\* pppSecretFind.
LEMMA FindIs ==
    ASSUME NEW E, secrets \in Seq(E), NEW client, NEW server, NEW r, r = pppSecretFind(client, server)
    PROVE  ResultOf(r, secrets, client, server)
<1> DEFINE M == Marked(secrets, client, server)
           A == Answers(secrets, client, server)
           H == [got : Flags, best : Flags \cup {-1}, entry : SUBSET A]
           base == [got |-> 0, best |-> -1, entry |-> {}]
           x == Find!Fold(base, M)
<1>1. M \in Seq({M[i] : i \in 1 .. Len(secrets)}) /\ Len(M) = Len(secrets)
      /\ \A i \in 1 .. Len(secrets) : M[i].asked => M[i].e \in A
  BY MarkedIs
<1>2. base \in H
  BY DEF Flags
<1> HIDE DEF M, A, base
<1>3. ASSUME NEW i \in 1 .. Len(M), NEW a \in H PROVE FindTurn(a, M[i]) \in H
  <2> DEFINE g == Flag(M[i].e, a.got)
  <2>1. a.got \in Flags
    OBVIOUS
  <2>2. g \in Flags
    BY <2>1, FlagIn
  <2>3. M[i].asked => M[i].e \in A
    BY <1>1
  <2> HIDE DEF g
  <2>4. CASE ~M[i].asked
    BY <2>4 DEF FindTurn
  <2>5. CASE M[i].asked /\ g > a.best
    <3>1. FindTurn(a, M[i]) = [got |-> g, best |-> g, entry |-> {M[i].e}]
      BY <2>5 DEF FindTurn, g
    <3> QED BY <2>2, <2>3, <2>5, <3>1
  <2>6. CASE M[i].asked /\ ~ (g > a.best)
    <3>1. FindTurn(a, M[i]) = [a EXCEPT !.got = g]
      BY <2>6 DEF FindTurn, g
    <3> QED BY <2>2, <3>1
  <2> QED BY <2>4, <2>5, <2>6
<1> HIDE DEF H
<1>4. x \in H
  BY <1>1, <1>2, <1>3, Find!FoldIn
<1>5. x = FoldLeft(FindTurn, [got |-> 0, best |-> -1, entry |-> {}], Marked(secrets, client, server))
  BY Zenon DEF Find!Fold, Find!FoldLeft, FoldLeft, Find!MapThenFoldSet, MapThenFoldSet, Max, Find!Max, M, base
<1> HIDE DEF x
<1>6. r = IF x.entry = {} THEN NotFound
          ELSE LET e == CHOOSE e \in x.entry : TRUE IN
               IF SecretOf(e) = {} THEN NotFound
               ELSE [flag |-> x.best, secret |-> CHOOSE y \in SecretOf(e) : TRUE, addrs |-> e.addrs]
  BY <1>5 DEF pppSecretFind
<1>7. NotFound.flag = -1
  BY DEF NotFound
<1>8. x.entry \subseteq A
  BY <1>4 DEF H
<1> DEFINE e == CHOOSE e \in x.entry : TRUE
           z == CHOOSE y \in SecretOf(e) : TRUE
<1>9. CASE x.entry = {} \/ SecretOf(e) = {}
  <2>1. r = NotFound
    BY <1>6, <1>9
  <2> QED BY <1>7, <2>1 DEF ResultOf
<1>10. CASE x.entry # {} /\ SecretOf(e) # {}
  <2>1. e \in A /\ z \in SecretOf(e)
    BY <1>8, <1>10
  <2>2. r = [flag |-> x.best, secret |-> z, addrs |-> e.addrs]
    BY <1>6, <1>10
  <2> HIDE DEF e, z
  <2>3. r.secret = z /\ r.addrs = e.addrs /\ r.flag = x.best
    BY <2>2
  <2>4. x.best \in Int
    BY <1>4 DEF H, Flags
  <2> QED BY <2>1, <2>3, <2>4 DEF ResultOf, A
<1> QED
  BY <1>9, <1>10

\* scan_authfile.
LEMMA ScanIs ==
    ASSUME NEW E, NEW q \in Seq(E), NEW client, NEW server, NEW r, r = scan_authfile(q, client, server)
    PROVE  ResultOf(r, q, client, server)
<1> DEFINE M == Marked(q, client, server)
           A == {e \in Answers(q, client, server) : SecretOf(e) # {}}
           res(e, g) == [flag |-> g, secret |-> CHOOSE y \in SecretOf(e) : TRUE, addrs |-> e.addrs]
           H == {NotFound} \cup {res(e, g) : e \in A, g \in Flags}
           x == Scan!Fold(NotFound, M)
<1>1. M \in Seq({M[i] : i \in 1 .. Len(q)}) /\ Len(M) = Len(q)
      /\ \A i \in 1 .. Len(q) : M[i].asked => M[i].e \in Answers(q, client, server)
  BY MarkedIs
<1> HIDE DEF M
<1>2. ASSUME NEW i \in 1 .. Len(M), NEW a \in H PROVE ScanTurn(a, M[i]) \in H
  <2> DEFINE better == M[i].asked /\ Flag(M[i].e, 0) > a.flag /\ SecretOf(M[i].e) # {}
  <2>1. CASE better
    <3>1. ScanTurn(a, M[i]) = res(M[i].e, Flag(M[i].e, 0))
      BY <2>1 DEF ScanTurn, Better
    <3>2. M[i].e \in A
      BY <1>1, <2>1
    <3>3. Flag(M[i].e, 0) \in Flags
      BY FlagIn DEF Flags
    <3> HIDE DEF res, A
    <3> QED BY <3>1, <3>2, <3>3
  <2>2. CASE ~better
    <3>1. ScanTurn(a, M[i]) = a
      BY <2>2 DEF ScanTurn
    <3> QED BY <3>1
  <2> HIDE DEF better, H
  <2> QED BY <2>1, <2>2
<1>3. NotFound \in H
  OBVIOUS
<1> HIDE DEF H
<1>4. x \in H
  BY <1>1, <1>2, <1>3, Scan!FoldIn
<1>5. x = r
  BY Zenon DEF scan_authfile, Scan!Fold, Scan!FoldLeft, FoldLeft, Scan!MapThenFoldSet, MapThenFoldSet, Max, Scan!Max, M
<1> HIDE DEF x
<1>6. CASE r = NotFound
  <2>1. NotFound.flag = -1
    BY DEF NotFound
  <2> QED BY <1>6, <2>1 DEF ResultOf
<1>7. CASE r # NotFound
  <2>1. PICK e \in A, g \in Flags : r = res(e, g)
    BY <1>4, <1>5, <1>7 DEF H
  <2>2. r.addrs = e.addrs /\ r.secret = CHOOSE y \in SecretOf(e) : TRUE
    BY <2>1
  <2>3. r.secret \in SecretOf(e)
    BY <2>2
  <2>4. r.flag \in Int
    BY <2>1 DEF Flags
  <2> QED BY <2>2, <2>3, <2>4 DEF ResultOf
<1> QED
  BY <1>6, <1>7

-----------------------------------------------------------------------------
SecretsInv ==
    /\ secrets \in Seq(SecretEntries)
    /\ authfile \in AuthFiles
    /\ AddressesOfSecret

\* All the entries there are.
Entries == ToSet(secrets) \cup UNION {ToSet(f) : f \in authfile}

\* What a lookup may answer: an entry for the client, with its secret.
Answer(r, client) ==
    /\ r.flag \in Int
    /\ r.flag >= 0 => \E e \in Entries : Asked(e, client, our_name) /\ r.addrs = e.addrs /\ r.secret \in SecretOf(e)

\* The table, the file and the two together answer with an entry that was asked for.
LEMMA LookupIs ==
    ASSUME SecretsInv, NEW client
    PROVE  /\ Answer(pppSecretFind(client, our_name), client)
           /\ Answer(InFile(client, our_name), client)
           /\ Answer(Lookup(client, our_name), client)
<1>1. Answer(pppSecretFind(client, our_name), client)
  <2> DEFINE r == pppSecretFind(client, our_name)
  <2>1. ResultOf(r, secrets, client, our_name)
    BY FindIs DEF SecretsInv
  <2> QED BY <2>1 DEF ResultOf, Answer, Answers, Entries
<1>2. Answer(InFile(client, our_name), client)
  <2>1. CASE authfile = {}
    <3>1. InFile(client, our_name) = NotFound
      BY <2>1 DEF InFile
    <3>2. NotFound.flag = -1
      BY DEF NotFound
    <3> QED BY <3>1, <3>2 DEF Answer
  <2>2. CASE authfile # {}
    <3> DEFINE f == CHOOSE f \in authfile : TRUE
               r == scan_authfile(f, client, our_name)
    <3>1. f \in authfile
      BY <2>2
    <3>2. InFile(client, our_name) = r
      BY <2>2 DEF InFile
    <3> HIDE DEF f
    <3>3. f \in Seq(ToSet(f))
      BY <3>1, SecretsAssumption DEF SecretsInv
    <3>4. ResultOf(r, f, client, our_name)
      BY <3>3, ScanIs
    <3> HIDE DEF r
    <3> QED BY <3>1, <3>2, <3>4 DEF ResultOf, Answer, Answers, Entries
  <2> QED BY <2>1, <2>2
<1> QED
  BY <1>1, <1>2 DEF Lookup

\* A grant on an answer with a secret that fits.
LEMMA GrantOK ==
    ASSUME SecretsInv, NEW r, NEW client, NEW passwd, Answer(r, client), r.flag >= 0,
           r.secret \in {"", passwd} \/ <<r.secret, passwd>> \in Crypted,
           Grant(client, passwd, r.addrs)
    PROVE  AddressesOfSecret'
<1>1. PICK e \in Entries : Asked(e, client, our_name) /\ r.addrs = e.addrs /\ r.secret \in SecretOf(e)
  BY DEF Answer
<1>2. addresses' = e.addrs /\ grant' = [client |-> client, passwd |-> passwd, login |-> FALSE, from |-> Entries]
  BY <1>1 DEF Grant, Entries
<1>3. grant'.client = client /\ grant'.passwd = passwd /\ grant'.from = Entries
  BY <1>2
<1>4. \E s \in SecretOf(e) : s \in {"", passwd} \/ <<s, passwd>> \in Crypted
  BY <1>1
<1>5. ASSUME NEW a, a \notin ToSet(e.addrs), e.addrs # <<>> PROVE ~auth_ip_addr(a)'
  BY <1>2, <1>5 DEF auth_ip_addr, ToSet
<1> QED
  BY <1>1, <1>2, <1>3, <1>4, <1>5 DEF AddressesOfSecret

\* What a grant does not touch stays true.
LEMMA DenyOK ==
    ASSUME SecretsInv, addresses' = addresses, grant' = grant
    PROVE  AddressesOfSecret'
<1>1. ASSUME NEW a PROVE auth_ip_addr(a)' <=> auth_ip_addr(a)
  BY DEF auth_ip_addr
<1> QED
  BY <1>1 DEF SecretsInv, AddressesOfSecret

\* The attempts to authenticate leave the table and the file alone.
LEMMA AttemptOK ==
    ASSUME SecretsInv, Attempt, AddressesOfSecret'
    PROVE  SecretsInv'
  BY DEF SecretsInv, Attempt

\* check_passwd: the system's login, the table, then the file.
LEMMA PasswdOK ==
    ASSUME SecretsInv, NEW user, NEW passwd, NEW loginOk \in BOOLEAN, check_passwd(user, passwd, loginOk)
    PROVE  SecretsInv'
<1> DEFINE r == pppSecretFind(user, our_name)
           f == InFile(user, our_name)
<1>1. Answer(r, user) /\ Answer(f, user)
  BY LookupIs
<1>2. ASSUME NEW x, Answer(x, user), Matches(x, passwd), Grant(user, passwd, x.addrs) PROVE AddressesOfSecret'
  <2>1. x.flag >= 0 /\ (x.secret \in {"", passwd} \/ <<x.secret, passwd>> \in Crypted)
    BY <1>2 DEF Matches
  <2> QED BY <1>2, <2>1, GrantOK
<1>3. ASSUME Deny PROVE AddressesOfSecret'
  BY <1>3, DenyOK DEF Deny
<1>4. ASSUME grant' = [client |-> user, passwd |-> passwd, login |-> TRUE, from |-> {}] PROVE AddressesOfSecret'
  BY <1>4 DEF AddressesOfSecret
<1>5. Attempt
  BY DEF check_passwd
<1>6. \/ grant' = [client |-> user, passwd |-> passwd, login |-> TRUE, from |-> {}]
      \/ Deny
      \/ Matches(r, passwd) /\ Grant(user, passwd, r.addrs)
      \/ Matches(f, passwd) /\ Grant(user, passwd, f.addrs)
  BY DEF check_passwd
<1> HIDE DEF r, f
<1>7. AddressesOfSecret'
  BY <1>1, <1>2, <1>3, <1>4, <1>6
<1> QED
  BY <1>5, <1>7, AttemptOK

\* null_login: only an empty secret.
LEMMA NullOK ==
    ASSUME SecretsInv, null_login
    PROVE  SecretsInv'
<1> DEFINE r == pppSecretFind("", our_name)
           f == InFile("", our_name)
<1>1. Answer(r, "") /\ Answer(f, "")
  BY LookupIs
<1>2. ASSUME NEW x, Answer(x, ""), NullOk(x), Grant("", "", x.addrs) PROVE AddressesOfSecret'
  <2>1. x.flag >= 0 /\ x.secret \in {"", ""}
    <3>1. x.flag >= 2 /\ x.secret = ""
      BY <1>2 DEF NullOk, NONWILD_CLIENT
    <3>2. x.flag \in Int
      BY <1>2 DEF Answer
    <3>3. x.flag >= 0
      <4> DEFINE n == x.flag
      <4>1. n \in Int /\ n >= 2
        BY <3>1, <3>2
      <4> HIDE DEF n
      <4>2. n >= 0
        BY <4>1
      <4> QED BY <4>2 DEF n
    <3> QED BY <3>1, <3>3
  <2> QED BY <1>2, <2>1, GrantOK
<1>3. ASSUME Deny PROVE AddressesOfSecret'
  BY <1>3, DenyOK DEF Deny
<1>4. Attempt
  BY DEF null_login
<1>5. Deny \/ (NullOk(r) /\ Grant("", "", r.addrs)) \/ (NullOk(f) /\ Grant("", "", f.addrs))
  BY DEF null_login
<1> HIDE DEF r, f
<1>6. AddressesOfSecret'
  BY <1>1, <1>2, <1>3, <1>5
<1> QED
  BY <1>4, <1>6, AttemptOK

\* get_secret for the peer's answer to our challenge.
LEMMA PeerOK ==
    ASSUME SecretsInv, NEW user, get_secret(user, our_name, TRUE)
    PROVE  SecretsInv'
<1> DEFINE r == Lookup(user, our_name)
<1>1. Answer(r, user)
  BY LookupIs
<1>2. Attempt /\ (Deny \/ (r.flag >= 0 /\ Grant(user, r.secret, r.addrs)))
  BY DEF get_secret
<1> HIDE DEF r
<1>3. CASE Deny
  BY <1>2, <1>3, DenyOK, AttemptOK DEF Deny
<1>4. CASE r.flag >= 0 /\ Grant(user, r.secret, r.addrs)
  <2>1. r.secret \in {"", r.secret}
    OBVIOUS
  <2>2. AddressesOfSecret'
    BY <1>1, <1>4, <2>1, GrantOK
  <2> QED BY <1>2, <2>2, AttemptOK
<1> QED
  BY <1>2, <1>3, <1>4

\* get_secret for our answer to the peer's.
LEMMA OursOK ==
    ASSUME SecretsInv, NEW user, get_secret(our_name, user, FALSE)
    PROVE  SecretsInv'
<1>1. Attempt /\ Deny
  BY DEF get_secret
<1> QED
  BY <1>1, DenyOK, AttemptOK DEF Deny

\* pppSecretAdd and pppSecretDelete keep a list of entries.
LEMMA TableOK ==
    ASSUME SecretsInv, NEW e \in SecretEntries,
           pppSecretAdd(e) \/ pppSecretDelete(e.client, e.server, e.secret)
    PROVE  SecretsInv'
<1>1. authfile' = authfile /\ addresses' = addresses /\ grant' = grant
  BY DEF pppSecretAdd, pppSecretDelete
<1>2. AddressesOfSecret'
  BY <1>1, DenyOK
<1>3. secrets' \in Seq(SecretEntries)
  <2>1. CASE pppSecretAdd(e)
    BY <2>1 DEF pppSecretAdd, SecretsInv
  <2>2. CASE pppSecretDelete(e.client, e.server, e.secret)
    <3> DEFINE same == {i \in DOMAIN secrets : <<secrets[i].client, secrets[i].server, secrets[i].secret>> = <<e.client, e.server, e.secret>>}
               k == CHOOSE i \in same : \A j \in same : i <= j
    <3>1. secrets \in Seq(SecretEntries)
      BY DEF SecretsInv
    <3>2. same # {} /\ secrets' = RemoveAt(secrets, k)
      BY <2>2 DEF pppSecretDelete
    <3>3. same \subseteq 1 .. Len(secrets)
      BY <3>1
    <3> HIDE DEF same
    <3>4. \E i \in same : \A j \in same : i <= j
      BY <3>2, <3>3, NatMin
    <3>5. k \in 1 .. Len(secrets)
      BY <3>3, <3>4
    <3> HIDE DEF k
    <3>6. secrets' = SubSeq(secrets, 1, k - 1) \o SubSeq(secrets, k + 1, Len(secrets))
      BY <3>2 DEF RemoveAt
    <3>7. SubSeq(secrets, 1, k - 1) \in Seq(SecretEntries) /\ SubSeq(secrets, k + 1, Len(secrets)) \in Seq(SecretEntries)
      BY <3>1, <3>5
    <3> QED BY <3>6, <3>7
  <2> QED BY <2>1, <2>2
<1> QED
  BY <1>1, <1>2, <1>3 DEF SecretsInv

\* The invariant is inductive.
LEMMA SecretsNextOK ==
    ASSUME SecretsInv, [SecretsNext]_secretVars
    PROVE  SecretsInv'
<1>1. CASE UNCHANGED secretVars
  <2>1. secrets' = secrets /\ authfile' = authfile /\ addresses' = addresses /\ grant' = grant
    BY <1>1 DEF secretVars
  <2>2. AddressesOfSecret'
    BY <2>1, DenyOK
  <2> QED BY <2>1, <2>2 DEF SecretsInv
<1>2. ASSUME NEW conf \in SUBSET {"upap", "chap"}, NEW required \in BOOLEAN, NEW uselogin \in BOOLEAN,
             check_auth_options(conf, required, uselogin)
      PROVE SecretsInv'
  <2>1. secrets' = secrets /\ authfile' = authfile /\ addresses' = addresses /\ grant' = grant
    BY <1>2 DEF check_auth_options
  <2>2. AddressesOfSecret'
    BY <2>1, DenyOK
  <2> QED BY <2>1, <2>2 DEF SecretsInv
<1> QED
  BY <1>1, <1>2, TableOK, PasswdOK, NullOK, PeerOK, OursOK DEF SecretsNext

\* It holds at the start: nobody is authenticated.
LEMMA SecretsInitOK == SecretsInit => SecretsInv
<1> SUFFICES ASSUME SecretsInit PROVE SecretsInv
  OBVIOUS
<1>1. grant.login = TRUE
  BY DEF SecretsInit
<1>2. AddressesOfSecret
  BY <1>1 DEF AddressesOfSecret
<1>3. secrets = <<>> /\ authfile \in AuthFiles
  BY DEF SecretsInit
<1>4. <<>> \in Seq(SecretEntries)
  OBVIOUS
<1> QED
  BY <1>2, <1>3, <1>4 DEF SecretsInv

\* After every addition, deletion and attempt to authenticate, the addresses
\* that a peer may use are those of one entry of the table or of the file
\* that names it and whose secret it knew (check_passwd, null_login,
\* get_secret, pppSecretFind, scan_authfile, auth_ip_addr), for every table,
\* file, name and password.
THEOREM AddressesAlwaysOfSecret == SecretsSpec => []AddressesOfSecret
<1>1. SecretsInit => SecretsInv
  BY SecretsInitOK
<1>2. SecretsInv /\ [SecretsNext]_secretVars => SecretsInv'
  BY SecretsNextOK
<1>3. SecretsInv => AddressesOfSecret
  BY DEF SecretsInv
<1> QED
  BY <1>1, <1>2, <1>3, PTL DEF SecretsSpec
=============================================================================
