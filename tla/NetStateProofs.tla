--------------------------- MODULE NetStateProofs ---------------------------
(***************************************************************************)
(* Proofs about the state that IP keeps for its users: the routing entries *)
(* of an Ethernet host (Arp), for any number of neighbours, entries,       *)
(* sockets and packets, the UDP control blocks (InPcb), for any number of  *)
(* sockets, addresses, ports and hash buckets, and the memberships of      *)
(* multicast groups (Multicast), for any number of hosts, sockets, groups, *)
(* queries and datagrams, and queues of any length.                        *)
(***************************************************************************)
EXTENDS Arp, InPcb, Multicast, ListLemmas, FiniteSetTheorems, TLAPS

-----------------------------------------------------------------------------
(***************************************************************************)
(* ARP and its routes.                                                     *)
(***************************************************************************)
Rt == 1 .. RtMax

RtEntry ==
    [where : {"free", "table", "deleted"}, dst : Neighbours \cup {"none", "net", "default"},
     ref : Int, gwroute : 0 .. RtMax, ll : BOOLEAN, mac : Macs \cup {"none"},
     expire : Nat, asked : Nat, hold : Packets \cup {"none"}, reject : BOOLEAN]

\* What is true of the entry r with index i: only the route through the
\* gateway uses another entry, and only entries for neighbours hold packets.
EntryOK(i, r) ==
    /\ r \in RtEntry
    /\ r.where = "free" => r = FreeRt
    /\ i = NetRt => r.where = "table" /\ r.dst = "net"
    /\ r.ll => r.where = "table" /\ i > GwRt
    /\ r.hold # "none" => r.ll
    /\ r.gwroute # 0 => i = GwRt /\ r.where = "table" /\ r.gwroute # GwRt
    /\ r.where = "table" => (i = GwRt <=> r.dst = "default")

OneRoute(R) ==
    \A i, j \in Rt : R[i].where = "table" /\ R[j].where = "table" /\ R[i].dst = R[j].dst => i = j

Sane(R) == R \in [Rt -> RtEntry] /\ (\A i \in Rt : EntryOK(i, R[i])) /\ OneRoute(R)

(***************************************************************************)
(* The counts of the entries R are exact for U[i] users of each entry i.   *)
(* In the middle of an operation U counts a reference that is not stored   *)
(* anywhere yet.                                                           *)
(***************************************************************************)
ExactAt(r, u) ==
    IF r.where = "free" THEN u = 0 ELSE r.ref = u /\ (r.where = "deleted" => u > 0)

RefsExact(R, U) == \A i \in Rt : ExactAt(R[i], U[i])

\* Those who use the entries: the sockets and the route through the gateway.
Sockets(C, i) == Cardinality({c \in Caches : C[c] = i})
UsersOf(R, C) == [i \in Rt |-> Sockets(C, i) + (IF R[GwRt].gwroute = i THEN 1 ELSE 0)]

\* A packet that is held is in one entry, and an entry holds no other packet.
Holding(R, f) ==
    /\ \A p \in Packets : f[p] = "held" => \E i \in Rt : R[i].hold = p
    /\ \A i \in Rt : R[i].hold # "none" => f[R[i].hold] = "held"
    /\ \A i, j \in Rt : R[i].hold = R[j].hold /\ R[i].hold # "none" => i = j

ArpInv ==
    /\ Sane(rts)
    /\ cache \in [Caches -> 0 .. RtMax]
    /\ fate \in [Packets -> {"new", "held", "sent", "dropped"}]
    /\ now \in Nat
    /\ RefsExact(rts, UsersOf(rts, cache))
    /\ Holding(rts, fate)

-----------------------------------------------------------------------------
(***************************************************************************)
(* One entry at a time.                                                    *)
(***************************************************************************)
\* The indices of the two routes that are always there.
LEMMA RtIndex == NetRt \in Rt /\ GwRt \in Rt /\ NetRt # GwRt /\ 0 \notin Rt /\ Rt \subseteq Nat
  BY ArpAssumption DEF NetRt, GwRt, Rt

\* What a cache or a gateway route names is an entry, or nothing.
LEMMA RtRange == 0 \in 0 .. RtMax /\ \A x : x \in Rt <=> x \in 0 .. RtMax /\ x # 0
  BY ArpAssumption DEF Rt

\* Free memory is an entry.
LEMMA FreeRtOK ==
    /\ FreeRt \in RtEntry
    /\ \A i : i # NetRt => EntryOK(i, FreeRt)
    /\ FreeRt.where = "free" /\ FreeRt.gwroute = 0 /\ FreeRt.hold = "none"
<1>1. FreeRt \in RtEntry
  BY ArpAssumption DEF FreeRt, RtEntry
<1>2. /\ FreeRt.where = "free" /\ FreeRt.gwroute = 0 /\ FreeRt.hold = "none" /\ FreeRt.ll = FALSE
  BY DEF FreeRt
<1> QED
  BY <1>1, <1>2 DEF EntryOK

\* An entry stays one when a field gets another value.
LEMMA RtFields ==
    ASSUME NEW q \in RtEntry
    PROVE  /\ \A x \in {"free", "table", "deleted"} : [q EXCEPT !.where = x] \in RtEntry
           /\ \A x \in Neighbours \cup {"none", "net", "default"} : [q EXCEPT !.dst = x] \in RtEntry
           /\ \A x \in Int : [q EXCEPT !.ref = x] \in RtEntry
           /\ \A x \in 0 .. RtMax : [q EXCEPT !.gwroute = x] \in RtEntry
           /\ \A x \in BOOLEAN : [q EXCEPT !.ll = x] \in RtEntry
           /\ \A x \in Macs \cup {"none"} : [q EXCEPT !.mac = x] \in RtEntry
           /\ \A x \in Nat : [q EXCEPT !.expire = x] \in RtEntry
           /\ \A x \in Nat : [q EXCEPT !.asked = x] \in RtEntry
           /\ \A x \in Packets \cup {"none"} : [q EXCEPT !.hold = x] \in RtEntry
           /\ \A x \in BOOLEAN : [q EXCEPT !.reject = x] \in RtEntry
  BY DEF RtEntry

\* The entry for a neighbour, and one that is deleted, are entries.
LEMMA HostRoute ==
    ASSUME NEW d \in Neighbours, NEW x \in Nat
    PROVE  [FreeRt EXCEPT !.where = "table", !.dst = d, !.ref = 1, !.ll = TRUE, !.expire = x]
             \in RtEntry
<1> DEFINE a == [FreeRt EXCEPT !.where = "table"]
           b == [a EXCEPT !.dst = d]
           c == [b EXCEPT !.ref = 1]
           e == [c EXCEPT !.ll = TRUE]
           f == [e EXCEPT !.expire = x]
<1>1. [FreeRt EXCEPT !.where = "table", !.dst = d, !.ref = 1, !.ll = TRUE, !.expire = x] = f
  OBVIOUS
<1>2. f \in RtEntry
  <2>1. a \in RtEntry
    BY FreeRtOK, RtFields
  <2> HIDE DEF a
  <2>2. b \in RtEntry
    BY <2>1, RtFields
  <2> HIDE DEF b
  <2>3. c \in RtEntry
    BY <2>2 DEF RtEntry
  <2> HIDE DEF c
  <2>4. e \in RtEntry
    BY <2>3, RtFields
  <2> HIDE DEF e
  <2> QED BY <2>4, RtFields
<1> QED
  BY <1>1, <1>2, Zenon

Dead(q) == [q EXCEPT !.where = "deleted", !.gwroute = 0, !.ll = FALSE, !.hold = "none"]

\* A deleted entry is one.
LEMMA DeadRoute ==
    ASSUME NEW q \in RtEntry
    PROVE  LET r == Dead(q) IN
           /\ r \in RtEntry /\ r.where = "deleted" /\ r.gwroute = 0 /\ r.ll = FALSE
           /\ r.hold = "none" /\ r.ref = q.ref
<1> DEFINE r == Dead(q)
           a == [q EXCEPT !.where = "deleted"]
           b == [a EXCEPT !.gwroute = 0]
           c == [b EXCEPT !.ll = FALSE]
           e == [c EXCEPT !.hold = "none"]
<1>1. r = e
  BY DEF Dead
<1>2. r.where = "deleted" /\ r.gwroute = 0 /\ r.ll = FALSE /\ r.hold = "none" /\ r.ref = q.ref
  BY DEF RtEntry, Dead
<1>3. e \in RtEntry
  <2>1. a \in RtEntry
    BY RtFields
  <2> HIDE DEF a
  <2>2. b \in RtEntry
    BY <2>1, ArpAssumption DEF RtEntry
  <2> HIDE DEF b
  <2>3. c \in RtEntry
    BY <2>2, RtFields
  <2> HIDE DEF c
  <2> QED BY <2>3, RtFields
<1> HIDE DEF e, r
<1> QED
  BY <1>1, <1>2, <1>3 DEF r

\* The entries stay sane when one of them is replaced by a sane one.
LEMMA UpdSane ==
    ASSUME NEW R, Sane(R), NEW i \in Rt, NEW r, EntryOK(i, r),
           r.where = "table" => \A j \in Rt : j # i /\ R[j].where = "table" => R[j].dst # r.dst
    PROVE  Sane([R EXCEPT ![i] = r])
<1> DEFINE S == [R EXCEPT ![i] = r]
<1>1. R \in [Rt -> RtEntry] /\ r \in RtEntry
  BY DEF Sane, EntryOK
<1>2. S \in [Rt -> RtEntry] /\ S[i] = r /\ \A j \in Rt : j # i => S[j] = R[j]
  BY <1>1
<1> HIDE DEF S
<1>3. \A j \in Rt : EntryOK(j, S[j])
  BY <1>2 DEF Sane
<1>4. OneRoute(S)
  BY <1>2 DEF Sane, OneRoute
<1> QED
  BY <1>2, <1>3, <1>4 DEF Sane, S

\* An entry that keeps its place in the table.
LEMMA UpdSame ==
    ASSUME NEW R, Sane(R), NEW i \in Rt, NEW r, EntryOK(i, r),
           r.where = "table" => R[i].where = "table" /\ r.dst = R[i].dst
    PROVE  Sane([R EXCEPT ![i] = r])
<1>1. r.where = "table" => \A j \in Rt : j # i /\ R[j].where = "table" => R[j].dst # r.dst
  BY DEF Sane, OneRoute
<1> QED
  BY <1>1, UpdSane

\* The counts stay exact when one entry and its count change together.
LEMMA UpdExact ==
    ASSUME NEW R, Sane(R), NEW U \in [Rt -> Nat], RefsExact(R, U),
           NEW i \in Rt, NEW r, NEW u \in Nat, ExactAt(r, u)
    PROVE  /\ RefsExact([R EXCEPT ![i] = r], [U EXCEPT ![i] = u])
           /\ [U EXCEPT ![i] = u] \in [Rt -> Nat]
<1> DEFINE S == [R EXCEPT ![i] = r]
           V == [U EXCEPT ![i] = u]
<1>1. R \in [Rt -> RtEntry]
  BY DEF Sane
<1>2. /\ S[i] = r /\ \A j \in Rt : j # i => S[j] = R[j]
      /\ V[i] = u /\ \A j \in Rt : j # i => V[j] = U[j]
      /\ V \in [Rt -> Nat]
  BY <1>1
<1> HIDE DEF S, V
<1>3. \A j \in Rt : ExactAt(S[j], V[j])
  BY <1>2 DEF RefsExact
<1> QED
  BY <1>2, <1>3 DEF RefsExact, S, V

\* What route.c leaves as it was: packets, gateways, and what is in the table.
Keeps(R, S) ==
    \A j \in Rt : /\ S[j].hold = R[j].hold /\ S[j].gwroute = R[j].gwroute
                  /\ R[j].where = "table" => S[j].where = "table" /\ S[j].dst = R[j].dst

\* Replacing an entry by one with its packet, gateway and place keeps those of all.
LEMMA UpdKeeps ==
    ASSUME NEW R, Sane(R), NEW i \in Rt, NEW r,
           r.hold = R[i].hold, r.gwroute = R[i].gwroute,
           R[i].where = "table" => r.where = "table" /\ r.dst = R[i].dst
    PROVE  Keeps(R, [R EXCEPT ![i] = r])
  BY DEF Sane, Keeps

\* Two operations of route.c after each other.
LEMMA KeepsTrans ==
    ASSUME NEW R, NEW S, NEW T, Keeps(R, S), Keeps(S, T)
    PROVE  Keeps(R, T)
  BY DEF Keeps

\* S is R with one reference to entry i more, or one less.
More(R, U, S, i) == Sane(S) /\ RefsExact(S, [U EXCEPT ![i] = @ + 1]) /\ Keeps(R, S)
Less(R, U, S, i) == Sane(S) /\ RefsExact(S, [U EXCEPT ![i] = @ - 1]) /\ Keeps(R, S)

-----------------------------------------------------------------------------
(***************************************************************************)
(* route.c.                                                                *)
(***************************************************************************)
\* A reference to a route is given back, and the last one frees what is deleted.
LEMMA rtfreeOK ==
    ASSUME NEW R, Sane(R), NEW U \in [Rt -> Nat], RefsExact(R, U), NEW i \in Rt, U[i] > 0
    PROVE  Less(R, U, rtfree(R, i), i)
<1> DEFINE q == R[i]
           r == [q EXCEPT !.ref = @ - 1]
           e == IF r.ref <= 0 /\ r.where = "deleted" THEN FreeRt ELSE r
<1>1. rtfree(R, i) = [R EXCEPT ![i] = e]
  BY DEF rtfree
<1>2. q \in RtEntry /\ EntryOK(i, q) /\ ExactAt(q, U[i])
  BY DEF Sane, RefsExact
<1> HIDE DEF q
<1>3. q.where # "free" /\ q.ref = U[i]
  BY <1>2 DEF ExactAt
<1>4. /\ r \in RtEntry /\ r.ref = U[i] - 1
      /\ r.where = q.where /\ r.dst = q.dst /\ r.gwroute = q.gwroute /\ r.ll = q.ll /\ r.hold = q.hold
  BY <1>2, <1>3 DEF RtEntry
<1> HIDE DEF r
<1>5. EntryOK(i, r)
  BY <1>2, <1>3, <1>4 DEF EntryOK
<1>6. q.where = "deleted" => i # NetRt /\ q.hold = "none" /\ q.gwroute = 0
  BY <1>2 DEF EntryOK
<1>7. EntryOK(i, e)
  BY <1>4, <1>5, <1>6, FreeRtOK
<1>8. e.hold = q.hold /\ e.gwroute = q.gwroute
  BY <1>4, <1>6, FreeRtOK
<1>9. /\ q.where = "table" => e.where = "table" /\ e.dst = q.dst
      /\ e.where = "table" => q.where = "table" /\ e.dst = q.dst
  BY <1>4, FreeRtOK
<1>10. U[i] - 1 \in Nat
  OBVIOUS
<1>11. ExactAt(e, U[i] - 1)
  BY <1>3, <1>4, <1>10, FreeRtOK DEF ExactAt
<1> HIDE DEF e
<1>12. Sane([R EXCEPT ![i] = e])
  BY <1>7, <1>9, UpdSame DEF q
<1>13. Keeps(R, [R EXCEPT ![i] = e])
  BY <1>8, <1>9, UpdKeeps DEF q
<1>14. RefsExact([R EXCEPT ![i] = e], [U EXCEPT ![i] = U[i] - 1])
  BY <1>10, <1>11, UpdExact
<1> QED
  BY <1>1, <1>12, <1>13, <1>14 DEF Less

\* An entry of the table gets one reference more.
LEMMA HoldOK ==
    ASSUME NEW R, Sane(R), NEW U \in [Rt -> Nat], RefsExact(R, U), NEW i \in Rt, R[i].where # "free"
    PROVE  More(R, U, Hold(R, i), i)
<1> DEFINE q == R[i]
           r == [q EXCEPT !.ref = @ + 1]
<1>1. Hold(R, i) = [R EXCEPT ![i] = r]
  BY DEF Hold
<1>2. q \in RtEntry /\ EntryOK(i, q) /\ ExactAt(q, U[i])
  BY DEF Sane, RefsExact
<1>3. q.where # "free"
  OBVIOUS
<1> HIDE DEF q
<1>4. q.ref = U[i]
  BY <1>2, <1>3 DEF ExactAt
<1>5. /\ r \in RtEntry /\ r.ref = U[i] + 1
      /\ r.where = q.where /\ r.dst = q.dst /\ r.gwroute = q.gwroute /\ r.ll = q.ll /\ r.hold = q.hold
  BY <1>2, <1>4 DEF RtEntry
<1> HIDE DEF r
<1>6. EntryOK(i, r)
  BY <1>2, <1>3, <1>5 DEF EntryOK
<1>7. U[i] + 1 \in Nat /\ ExactAt(r, U[i] + 1)
  BY <1>3, <1>5 DEF ExactAt
<1>8. Sane([R EXCEPT ![i] = r])
  BY <1>5, <1>6, UpdSame DEF q
<1>9. Keeps(R, [R EXCEPT ![i] = r])
  BY <1>5, UpdKeeps DEF q
<1>10. RefsExact([R EXCEPT ![i] = r], [U EXCEPT ![i] = U[i] + 1])
  BY <1>7, UpdExact
<1> QED
  BY <1>1, <1>8, <1>9, <1>10 DEF More

\* A host route is made in free memory.
LEMMA CloneOK ==
    ASSUME NEW R, Sane(R), NEW U \in [Rt -> Nat], RefsExact(R, U),
           NEW d \in Neighbours, InTable(R, d) = {}, Room(R) # {}
    PROVE  LET a == Clone(R, d) IN
           /\ a[2] \in Rt /\ a[2] > GwRt /\ R[a[2]].where = "free"
           /\ More(R, U, a[1], a[2])
           /\ a[1][a[2]].where = "table" /\ a[1][a[2]].dst = d /\ a[1][a[2]].hold = "none"
<1> DEFINE i == CHOOSE i \in Room(R) : TRUE
           r == [FreeRt EXCEPT !.where = "table", !.dst = d, !.ref = 1, !.ll = TRUE,
                               !.expire = R[NetRt].expire]
           S == [R EXCEPT ![i] = r]
<1>1. Clone(R, d) = <<S, i>>
  BY DEF Clone
<1>2. R \in [Rt -> RtEntry] /\ DOMAIN R = Rt
  BY DEF Sane
<1>3. i \in Room(R)
  OBVIOUS
<1> HIDE DEF i
<1>4. i \in Rt /\ i > GwRt /\ R[i].where = "free"
  BY <1>2, <1>3 DEF Room
<1>5. R[i] = FreeRt /\ ExactAt(R[i], U[i])
  BY <1>4 DEF Sane, RefsExact, EntryOK
<1>6. U[i] = 0
  BY <1>5, FreeRtOK DEF ExactAt
<1>7. R[NetRt].expire \in Nat
  BY <1>2, RtIndex DEF RtEntry
<1>8. /\ r \in RtEntry
      /\ r.where = "table" /\ r.dst = d /\ r.ref = 1 /\ r.ll = TRUE /\ r.hold = "none" /\ r.gwroute = 0
  <2>1. r \in RtEntry
    BY <1>7, HostRoute
  <2>2. r.where = "table" /\ r.dst = d /\ r.ref = 1 /\ r.ll = TRUE /\ r.hold = "none" /\ r.gwroute = 0
    BY DEF FreeRt
  <2> QED BY <2>1, <2>2
<1> HIDE DEF r
<1>9. i # NetRt /\ i # GwRt
  BY <1>4 DEF NetRt, GwRt
<1>10. EntryOK(i, r)
  <2>1. d # "default"
    BY ArpAssumption
  <2> QED BY <1>4, <1>8, <1>9, <2>1 DEF EntryOK
<1>11. \A j \in Rt : j # i /\ R[j].where = "table" => R[j].dst # r.dst
  BY <1>2, <1>8 DEF InTable
<1>12. Sane(S)
  BY <1>4, <1>10, <1>11, UpdSane
<1>13. Keeps(R, S)
  BY <1>4, <1>5, <1>8, FreeRtOK, UpdKeeps
<1>14. ExactAt(r, U[i] + 1) /\ U[i] + 1 \in Nat
  BY <1>6, <1>8 DEF ExactAt
<1>15. RefsExact(S, [U EXCEPT ![i] = U[i] + 1])
  BY <1>4, <1>14, UpdExact
<1>16. S[i] = r
  BY <1>2, <1>4
<1> HIDE DEF S
<1>17. More(R, U, S, i)
  BY <1>12, <1>13, <1>15 DEF More
<1> QED
  BY <1>1, <1>4, <1>8, <1>16, <1>17

\* A lookup takes one reference to the entry it finds, and always finds one for a
\* neighbour (rtalloc1).
LEMMA rtalloc1OK ==
    ASSUME NEW R, Sane(R), NEW U \in [Rt -> Nat], RefsExact(R, U), NEW d, NEW report
    PROVE  LET a == rtalloc1(R, d, report) IN
           /\ IF a[2] = 0 THEN a[1] = R
              ELSE a[2] \in Rt /\ More(R, U, a[1], a[2]) /\ a[1][a[2]].where = "table"
           /\ d \in Neighbours => a[2] # 0 /\ a[2] # GwRt
<1> DEFINE a == rtalloc1(R, d, report)
<1>0. R \in [Rt -> RtEntry] /\ DOMAIN R = Rt
  BY DEF Sane
<1>9. ASSUME NEW i \in Rt, R[i].where = "table"
      PROVE  More(R, U, Hold(R, i), i) /\ Hold(R, i)[i].where = "table" /\ i # 0
  <2>1. More(R, U, Hold(R, i), i)
    BY <1>9, HoldOK
  <2>2. Hold(R, i)[i].where = "table"
    BY <1>9, <2>1 DEF More, Keeps
  <2> QED BY <2>1, <2>2, RtIndex
<1>1. CASE InTable(R, d) # {}
  <2> DEFINE i == CHOOSE i \in InTable(R, d) : TRUE
  <2>1. a = <<Hold(R, i), i>>
    BY <1>1 DEF rtalloc1
  <2>2. i \in InTable(R, d)
    BY <1>1
  <2> HIDE DEF i
  <2>3. i \in Rt /\ R[i].where = "table" /\ R[i].dst = d
    BY <1>0, <2>2 DEF InTable
  <2>4. d \in Neighbours => i # GwRt
    BY <2>3, ArpAssumption DEF Sane, EntryOK
  <2> HIDE DEF a
  <2> QED BY <1>9, <2>1, <2>3, <2>4 DEF a
<1>2. CASE InTable(R, d) = {} /\ d \in Neighbours /\ report /\ Room(R) # {}
  <2>1. a = Clone(R, d)
    BY <1>2 DEF rtalloc1
  <2> DEFINE b == Clone(R, d)
  <2>2. /\ b[2] \in Rt /\ b[2] > GwRt /\ More(R, U, b[1], b[2]) /\ b[1][b[2]].where = "table"
    BY <1>2, CloneOK
  <2>3. b[2] # 0 /\ b[2] # GwRt
    BY <2>2, RtIndex DEF GwRt
  <2> HIDE DEF a, b
  <2> QED BY <2>1, <2>2, <2>3 DEF a, b
<1>3. CASE InTable(R, d) = {} /\ d \in Neighbours /\ ~ (report /\ Room(R) # {})
  <2>1. a = <<Hold(R, NetRt), NetRt>>
    BY <1>3 DEF rtalloc1
  <2>2. R[NetRt].where = "table"
    BY RtIndex DEF Sane, EntryOK
  <2> HIDE DEF a
  <2> QED BY <1>9, <2>1, <2>2, RtIndex DEF a
<1>4. CASE InTable(R, d) = {} /\ d \notin Neighbours /\ R[GwRt].where = "table"
  <2>1. a = <<Hold(R, GwRt), GwRt>>
    BY <1>4 DEF rtalloc1
  <2> HIDE DEF a
  <2> QED BY <1>4, <1>9, <2>1, RtIndex DEF a
<1>5. CASE InTable(R, d) = {} /\ d \notin Neighbours /\ R[GwRt].where # "table"
  <2>1. a = <<R, 0>>
    BY <1>5 DEF rtalloc1
  <2> HIDE DEF a
  <2> QED BY <1>5, <2>1 DEF a
<1> QED
  BY <1>1, <1>2, <1>3, <1>4, <1>5

\* An entry that is taken out of the table, and what it used with it.
Unlisted(R, S, i) ==
    /\ Sane(S)
    /\ S[i].where # "table" /\ S[i].hold = "none" /\ S[i].gwroute = 0
    /\ \A j \in Rt : j # i => S[j].hold = R[j].hold /\ S[j].gwroute = R[j].gwroute
                              /\ (R[j].where = "table" => S[j].where = "table")

\* The entry i itself, once it uses nothing.
LEMMA unlistOK ==
    ASSUME NEW R, Sane(R), NEW U \in [Rt -> Nat], RefsExact(R, U),
           NEW i \in Rt, i # NetRt, R[i].where = "table",
           NEW r, r = Dead(R[i]),
           NEW S, S = [R EXCEPT ![i] = IF r.ref <= 0 THEN FreeRt ELSE r]
    PROVE  Unlisted(R, S, i) /\ RefsExact(S, U)
<1> DEFINE q == R[i]
           e == IF r.ref <= 0 THEN FreeRt ELSE r
<1>1. R \in [Rt -> RtEntry] /\ q \in RtEntry /\ EntryOK(i, q) /\ ExactAt(q, U[i]) /\ q.where = "table"
  BY DEF Sane, RefsExact
<1>2. r = Dead(q)
  OBVIOUS
<1> HIDE DEF q
<1>3. q.ref = U[i]
  BY <1>1 DEF ExactAt
<1>4. /\ r \in RtEntry
      /\ r.where = "deleted" /\ r.gwroute = 0 /\ r.ll = FALSE /\ r.hold = "none" /\ r.ref = U[i]
  <2>1. q \in RtEntry
    BY <1>1
  <2>2. /\ Dead(q) \in RtEntry /\ Dead(q).where = "deleted" /\ Dead(q).gwroute = 0 /\ Dead(q).ll = FALSE
        /\ Dead(q).hold = "none" /\ Dead(q).ref = q.ref
    BY <2>1, DeadRoute, Zenon
  <2> QED BY <1>2, <1>3, <2>2, Zenon
<1>5. EntryOK(i, r)
  BY <1>4 DEF EntryOK
<1>6. EntryOK(i, e) /\ e.where # "table" /\ e.hold = "none" /\ e.gwroute = 0
  BY <1>4, <1>5, FreeRtOK
<1>7. ExactAt(e, U[i])
  BY <1>4, FreeRtOK DEF ExactAt
<1> HIDE DEF e
<1>8. S = [R EXCEPT ![i] = e]
  BY DEF e
<1>9. Sane(S)
  <2>1. Sane([R EXCEPT ![i] = e])
    BY <1>6, UpdSame
  <2> QED BY <1>8, <2>1
<1>10. RefsExact(S, U)
  <2>1. RefsExact([R EXCEPT ![i] = e], [U EXCEPT ![i] = U[i]])
    BY <1>7, UpdExact
  <2>2. [U EXCEPT ![i] = U[i]] = U
    OBVIOUS
  <2> QED BY <1>8, <2>1, <2>2
<1>11. S[i] = e /\ \A j \in Rt : j # i => S[j] = R[j]
  BY <1>1, <1>8
<1> QED
  BY <1>6, <1>9, <1>10, <1>11 DEF Unlisted

\* rtrequest RTM_DELETE of an entry without a gateway, and of one with.
LEMMA rtdeleteOK ==
    ASSUME NEW R, Sane(R), NEW U \in [Rt -> Nat], RefsExact(R, U),
           NEW i \in Rt, i # NetRt, R[i].where = "table"
    PROVE  /\ R[i].gwroute = 0 => /\ Unlisted(R, rtdelete(R, i), i) /\ RefsExact(rtdelete(R, i), U)
                                  /\ \A j \in Rt : j # i => rtdelete(R, i)[j] = R[j]
           /\ R[i].gwroute # 0 /\ U[R[i].gwroute] > 0
                => /\ Unlisted(R, rtdelete(R, i), i)
                   /\ RefsExact(rtdelete(R, i), [U EXCEPT ![R[i].gwroute] = @ - 1])
<1> DEFINE g == R[i].gwroute
<1>1. g \in 0 .. RtMax /\ (g # 0 => g \in Rt /\ g # i)
  <2>1. R[i] \in RtEntry /\ EntryOK(i, R[i])
    BY DEF Sane
  <2>2. g \in 0 .. RtMax
    BY <2>1 DEF RtEntry
  <2>3. g # 0 => i = GwRt /\ g # GwRt
    BY <2>1 DEF EntryOK
  <2> QED BY <2>2, <2>3, ArpAssumption DEF Rt
<1>2. ASSUME g = 0
      PROVE  /\ Unlisted(R, rtdelete(R, i), i) /\ RefsExact(rtdelete(R, i), U)
             /\ \A j \in Rt : j # i => rtdelete(R, i)[j] = R[j]
  <2> DEFINE r == Dead(R[i])
  <2>1. rtdelete(R, i) = [R EXCEPT ![i] = IF r.ref <= 0 THEN FreeRt ELSE r]
    BY <1>2 DEF rtdelete, Dead
  <2>2. R \in [Rt -> RtEntry]
    BY DEF Sane
  <2> HIDE DEF r
  <2>3. \A j \in Rt : j # i => rtdelete(R, i)[j] = R[j]
    BY <2>1, <2>2
  <2> QED BY <2>1, <2>3, unlistOK DEF r
<1>3. ASSUME g # 0, U[g] > 0
      PROVE  Unlisted(R, rtdelete(R, i), i) /\ RefsExact(rtdelete(R, i), [U EXCEPT ![g] = @ - 1])
  <2> DEFINE Q == rtfree(R, g)
             r == Dead(Q[i])
             S == [Q EXCEPT ![i] = IF r.ref <= 0 THEN FreeRt ELSE r]
             V == [U EXCEPT ![g] = @ - 1]
  <2>1. rtdelete(R, i) = S
    BY <1>3 DEF rtdelete, Dead
  <2>2. g \in Rt /\ g # i
    BY <1>1, <1>3
  <2> HIDE DEF g
  <2>3. Less(R, U, Q, g)
    BY <1>3, <2>2, rtfreeOK
  <2>4. V \in [Rt -> Nat]
    BY <1>3, <2>2
  <2> HIDE DEF Q
  <2>5. Sane(Q) /\ RefsExact(Q, V) /\ Keeps(R, Q)
    BY <2>3 DEF Less
  <2> HIDE DEF V
  <2>6. Q[i].where = "table"
    BY <2>5 DEF Keeps
  <2>7. Unlisted(Q, S, i) /\ RefsExact(S, V)
    <3> HIDE DEF r
    <3> QED BY <2>4, <2>5, <2>6, unlistOK DEF r
  <2> HIDE DEF S
  <2>8. Unlisted(R, S, i)
    BY <2>5, <2>7 DEF Unlisted, Keeps
  <2> QED BY <2>1, <2>7, <2>8 DEF V
<1> QED
  BY <1>2, <1>3

-----------------------------------------------------------------------------
(***************************************************************************)
(* Who uses the entries.                                                   *)
(***************************************************************************)
One(x, y) == IF x = y THEN 1 ELSE 0

\* The cached route of socket c in D is k.
CacheSet(C, D, c, k) == D = [C EXCEPT ![c] = k]

\* The number of sockets that use an entry, when one of them changes.
LEMMA SocketsChange ==
    ASSUME NEW C \in [Caches -> 0 .. RtMax], NEW c \in Caches, NEW k \in 0 .. RtMax,
           NEW D, CacheSet(C, D, c, k), NEW i \in Rt
    PROVE  /\ Sockets(C, i) \in Nat
           /\ C[c] = i => Sockets(C, i) > 0
           /\ Sockets(D, i) = Sockets(C, i) - One(C[c], i) + One(k, i)
<1> DEFINE A == {x \in Caches : C[x] = i}
           B == {x \in Caches : D[x] = i}
           Z == A \ {c}
<1>1. IsFiniteSet(A) /\ IsFiniteSet(Z)
  <2>1. A \subseteq Caches /\ Z \subseteq Caches
    OBVIOUS
  <2> QED BY <2>1, ArpAssumption, FS_Subset
<1>2. c \notin Z /\ A = (IF C[c] = i THEN Z \cup {c} ELSE Z) /\ B = (IF k = i THEN Z \cup {c} ELSE Z)
  BY DEF CacheSet
<1> HIDE DEF A, B, Z
<1>3. Cardinality(Z \cup {c}) = Cardinality(Z) + 1 /\ Cardinality(Z) \in Nat
  BY <1>1, <1>2, FS_AddElement, FS_CardinalityType
<1>4. Cardinality(A) = Cardinality(Z) + (IF C[c] = i THEN 1 ELSE 0)
  BY <1>2, <1>3
<1>5. Cardinality(B) = Cardinality(Z) + (IF k = i THEN 1 ELSE 0)
  BY <1>2, <1>3
<1>6. Sockets(C, i) = Cardinality(A) /\ Sockets(D, i) = Cardinality(B)
  BY DEF Sockets, A, B
<1> QED
  BY <1>3, <1>4, <1>5, <1>6 DEF One

\* Users counts the same as UsersOf.
LEMMA UsersAre ==
    ASSUME NEW R, Sane(R), NEW C, NEW i \in Rt
    PROVE  Cardinality({c \in Caches : C[c] = i}) + Cardinality({j \in 1 .. RtMax : R[j].gwroute = i})
             = UsersOf(R, C)[i]
<1> DEFINE G == {j \in 1 .. RtMax : R[j].gwroute = i}
<1>1. \A j \in Rt : R[j].gwroute = i => j = GwRt
  BY RtIndex DEF Sane, EntryOK
<1>2. G = IF R[GwRt].gwroute = i THEN {GwRt} ELSE {}
  BY <1>1, RtIndex DEF Rt
<1> HIDE DEF G
<1>3. Cardinality(G) = IF R[GwRt].gwroute = i THEN 1 ELSE 0
  BY <1>2, FS_EmptySet, FS_Singleton
<1> QED
  BY <1>3 DEF UsersOf, Sockets, G

\* The number of users of each entry is a number.
LEMMA UsersType ==
    ASSUME NEW R, NEW C \in [Caches -> 0 .. RtMax]
    PROVE  UsersOf(R, C) \in [Rt -> Nat]
<1>1. \A i \in Rt : Sockets(C, i) \in Nat
  <2> TAKE i \in Rt
  <2>1. IsFiniteSet({x \in Caches : C[x] = i})
    <3>1. {x \in Caches : C[x] = i} \subseteq Caches
      OBVIOUS
    <3> QED BY <3>1, ArpAssumption, FS_Subset
  <2> QED BY <2>1, FS_CardinalityType DEF Sockets
<1> QED
  BY <1>1 DEF UsersOf

\* The users depend on the caches and the gateway only.
LEMMA UsersSame ==
    ASSUME NEW R, NEW S, NEW C, S[GwRt].gwroute = R[GwRt].gwroute
    PROVE  UsersOf(S, C) = UsersOf(R, C)
  BY DEF UsersOf

Plus(U, i)  == [U EXCEPT ![i] = @ + 1]
Minus(U, i) == [U EXCEPT ![i] = @ - 1]

\* The socket c lets go of its entry, or takes k.
LEMMA UsersMove ==
    ASSUME NEW R, NEW C \in [Caches -> 0 .. RtMax], NEW c \in Caches, NEW k \in 0 .. RtMax,
           NEW E, CacheSet(C, E, c, k)
    PROVE  /\ E \in [Caches -> 0 .. RtMax] /\ E[c] = k
           /\ C[c] # 0 /\ k = 0 => /\ UsersOf(R, C)[C[c]] > 0
                                   /\ UsersOf(R, E) = Minus(UsersOf(R, C), C[c])
           /\ C[c] = 0 /\ k # 0 => UsersOf(R, E) = Plus(UsersOf(R, C), k)
<1> DEFINE U == UsersOf(R, C)
           G(i) == IF R[GwRt].gwroute = i THEN 1 ELSE 0
<1>1. \A i \in Rt : /\ U[i] = Sockets(C, i) + G(i)
                    /\ UsersOf(R, E)[i] = Sockets(E, i) + G(i)
  BY DEF UsersOf
<1>9. E = [C EXCEPT ![c] = k] /\ E \in [Caches -> 0 .. RtMax] /\ E[c] = k
  BY DEF CacheSet
<1>2. U \in [Rt -> Nat] /\ UsersOf(R, E) \in [Rt -> Nat]
  BY <1>9, UsersType
<1>3. \A i \in Rt : G(i) \in Nat
  OBVIOUS
<1> HIDE DEF G, U
<1>4. \A i \in Rt : Sockets(C, i) \in Nat /\ (C[c] = i => Sockets(C, i) > 0)
  BY <1>9, SocketsChange
<1>5. \A i \in Rt : Sockets(E, i) = Sockets(C, i) - One(C[c], i) + One(k, i)
  BY <1>9, SocketsChange
<1>7. ASSUME C[c] # 0, k = 0
      PROVE  U[C[c]] > 0 /\ UsersOf(R, E) = Minus(U, C[c])
  <2>1. C[c] \in Rt
    BY <1>7, RtRange
  <2>4. \A i \in Rt : Sockets(E, i) = Sockets(C, i) - One(C[c], i)
    BY <1>4, <1>5, <1>7, RtIndex DEF One
  <2>2. \A i \in Rt : UsersOf(R, E)[i] = IF i = C[c] THEN U[i] - 1 ELSE U[i]
    BY <1>1, <1>3, <1>4, <2>1, <2>4 DEF One
  <2>3. U[C[c]] > 0
    BY <1>1, <1>3, <1>4, <2>1
  <2> QED BY <1>2, <2>1, <2>2, <2>3 DEF Minus
<1>8. ASSUME C[c] = 0, k # 0
      PROVE  UsersOf(R, E) = Plus(U, k)
  <2>1. k \in Rt
    BY <1>8, RtRange
  <2>2. \A i \in Rt : UsersOf(R, E)[i] = IF i = k THEN U[i] + 1 ELSE U[i]
    BY <1>1, <1>3, <1>4, <1>5, <1>8, <2>1, RtIndex DEF One
  <2> QED BY <1>2, <2>1, <2>2 DEF Plus
<1> QED
  BY <1>7, <1>8, <1>9 DEF U

\* The same, for a socket that had none.
LEMMA UsersTake ==
    ASSUME NEW R, NEW C \in [Caches -> 0 .. RtMax], NEW c \in Caches, C[c] = 0, NEW k \in Rt,
           NEW E, CacheSet(C, E, c, k)
    PROVE  E \in [Caches -> 0 .. RtMax] /\ UsersOf(R, E) = Plus(UsersOf(R, C), k)
<1>1. k \in 0 .. RtMax /\ k # 0
  BY RtRange
<1> QED
  BY <1>1, UsersMove

\* The route through the gateway lets go of its entry, and takes k.
LEMMA UsersGw ==
    ASSUME NEW R, Sane(R), NEW C \in [Caches -> 0 .. RtMax], NEW k \in Rt, NEW S, S[GwRt].gwroute = k
    PROVE  LET U == UsersOf(R, C)
               g == R[GwRt].gwroute
           IN  /\ g = 0 => UsersOf(S, C) = Plus(U, k)
               /\ g # 0 => /\ g \in Rt /\ U[g] > 0
                           /\ Minus(U, g) \in [Rt -> Nat] /\ UsersOf(S, C) = Plus(Minus(U, g), k)
<1> DEFINE U == UsersOf(R, C)
           g == R[GwRt].gwroute
           V == [U EXCEPT ![g] = @ - 1]
<1>1. \A i \in Rt : /\ U[i] = Sockets(C, i) + (IF g = i THEN 1 ELSE 0)
                    /\ UsersOf(S, C)[i] = Sockets(C, i) + (IF k = i THEN 1 ELSE 0)
  BY DEF UsersOf
<1>2. U \in [Rt -> Nat] /\ UsersOf(S, C) \in [Rt -> Nat]
  BY UsersType
<1>3. \A i \in Rt : Sockets(C, i) \in Nat
  <2> TAKE i \in Rt
  <2>1. IsFiniteSet({x \in Caches : C[x] = i})
    <3>1. {x \in Caches : C[x] = i} \subseteq Caches
      OBVIOUS
    <3> QED BY <3>1, ArpAssumption, FS_Subset
  <2> QED BY <2>1, FS_CardinalityType DEF Sockets
<1>4. g \in 0 .. RtMax
  BY RtIndex DEF Sane, RtEntry
<1> HIDE DEF U, g
<1>5. ASSUME g = 0
      PROVE  UsersOf(S, C) = [U EXCEPT ![k] = @ + 1]
  <2>1. \A i \in Rt : UsersOf(S, C)[i] = IF i = k THEN U[i] + 1 ELSE U[i]
    BY <1>1, <1>3, <1>5, RtIndex
  <2> QED BY <1>2, <2>1
<1>6. ASSUME g # 0
      PROVE  g \in Rt /\ U[g] > 0 /\ V \in [Rt -> Nat] /\ UsersOf(S, C) = [V EXCEPT ![k] = @ + 1]
  <2>1. g \in Rt
    BY <1>4, <1>6, ArpAssumption DEF Rt
  <2>2. U[g] > 0
    BY <1>1, <1>3, <2>1
  <2>3. V \in [Rt -> Nat] /\ \A i \in Rt : V[i] = Sockets(C, i)
    <3>1. \A i \in Rt : V[i] = IF i = g THEN U[i] - 1 ELSE U[i]
      BY <1>2, <2>1
    <3>2. \A i \in Rt : V[i] = Sockets(C, i)
      BY <3>1, <1>1, <1>3, <2>1
    <3>3. U[g] - 1 \in Nat
      BY <1>2, <2>1, <2>2
    <3> QED BY <3>2, <3>3, <1>2, <2>1
  <2> HIDE DEF V
  <2>4. \A i \in Rt : UsersOf(S, C)[i] = IF i = k THEN V[i] + 1 ELSE V[i]
    BY <1>1, <1>3, <2>3
  <2> QED BY <1>2, <2>1, <2>2, <2>3, <2>4
<1> QED
  BY <1>5, <1>6 DEF U, g, V, Plus, Minus

-----------------------------------------------------------------------------
(***************************************************************************)
(* Packets in entries.                                                     *)
(***************************************************************************)
Fates == {"new", "held", "sent", "dropped"}

\* Nothing changed hands.
LEMMA HoldingSame ==
    ASSUME NEW R, NEW S, NEW f, Holding(R, f), \A j \in Rt : S[j].hold = R[j].hold
    PROVE  Holding(S, f)
  BY DEF Holding

\* Entry i gave up its packet, if it had one, to the fate x.
LEMMA HoldingGives ==
    ASSUME NEW R, Sane(R), NEW S, NEW i \in Rt, S[i].hold = "none",
           \A j \in Rt : j # i => S[j].hold = R[j].hold,
           NEW f \in [Packets -> Fates], Holding(R, f), NEW g, NEW x \in Fates \ {"held"},
           g = IF R[i].hold = "none" THEN f ELSE [f EXCEPT ![R[i].hold] = x]
    PROVE  g \in [Packets -> Fates] /\ Holding(S, g)
<1>1. \A j \in Rt : R[j].hold \in Packets \cup {"none"}
  BY DEF Sane, RtEntry
<1>2. CASE R[i].hold = "none"
  <2>1. g = f /\ \A j \in Rt : S[j].hold = R[j].hold
    BY <1>2
  <2> QED BY <2>1, HoldingSame
<1>3. CASE R[i].hold # "none"
  <2> DEFINE q == R[i].hold
  <2>1. q \in Packets
    BY <1>1, <1>3
  <2>2. g = [f EXCEPT ![q] = x] /\ x # "held" /\ x \in Fates
    BY <1>3
  <2>3. g \in [Packets -> Fates] /\ g[q] # "held" /\ \A p \in Packets : p # q => g[p] = f[p]
    BY <2>1, <2>2
  <2>4. \A j \in Rt : j # i /\ R[j].hold # "none" => R[j].hold # q
    BY <1>3 DEF Holding
  <2> HIDE DEF q
  <2>5. \A p \in Packets : g[p] = "held" => \E j \in Rt : S[j].hold = p
    <3> SUFFICES ASSUME NEW p \in Packets, g[p] = "held" PROVE \E j \in Rt : S[j].hold = p
      OBVIOUS
    <3>1. p # q /\ f[p] = "held"
      BY <2>3
    <3>2. PICK j \in Rt : R[j].hold = p
      BY <3>1 DEF Holding
    <3>3. j # i
      BY <3>1, <3>2 DEF q
    <3> QED BY <3>2, <3>3
  <2>6. \A j \in Rt : S[j].hold # "none" => g[S[j].hold] = "held"
    <3> SUFFICES ASSUME NEW j \in Rt, S[j].hold # "none" PROVE g[S[j].hold] = "held"
      OBVIOUS
    <3>1. j # i /\ S[j].hold = R[j].hold /\ R[j].hold # q /\ R[j].hold \in Packets
      BY <1>1, <2>4
    <3> QED BY <2>3, <3>1 DEF Holding
  <2>7. \A j, k \in Rt : S[j].hold = S[k].hold /\ S[j].hold # "none" => j = k
    BY DEF Holding
  <2> QED BY <2>3, <2>5, <2>6, <2>7 DEF Holding
<1> QED
  BY <1>2, <1>3

\* Entry i holds p now, and what it held is dropped.
LEMMA HoldingTakes ==
    ASSUME NEW R, Sane(R), NEW S, NEW i \in Rt, NEW p \in Packets, S[i].hold = p,
           \A j \in Rt : j # i => S[j].hold = R[j].hold,
           NEW f \in [Packets -> Fates], Holding(R, f), f[p] = "new",
           NEW g, g = [q \in Packets |-> IF q = R[i].hold THEN "dropped"
                                         ELSE IF q # p THEN f[q] ELSE "held"]
    PROVE  g \in [Packets -> Fates] /\ Holding(S, g)
<1>1. \A j \in Rt : R[j].hold \in Packets \cup {"none"}
  BY DEF Sane, RtEntry
<1>2. p # "none"
  BY ArpAssumption
<1>3. \A j \in Rt : R[j].hold # p
  BY <1>2 DEF Holding
<1>4. g \in [Packets -> Fates]
  BY DEF Fates
<1>5. g[p] = "held"
  BY <1>3
<1>6. \A q \in Packets : q # p => g[q] = IF q = R[i].hold THEN "dropped" ELSE f[q]
  OBVIOUS
<1>7. \A q \in Packets : g[q] = "held" => \E j \in Rt : S[j].hold = q
  <2> SUFFICES ASSUME NEW q \in Packets, g[q] = "held", q # p PROVE \E j \in Rt : S[j].hold = q
    OBVIOUS
  <2>1. q # R[i].hold /\ f[q] = "held"
    BY <1>6
  <2>2. PICK j \in Rt : R[j].hold = q
    BY <2>1 DEF Holding
  <2> QED BY <2>1, <2>2
<1>8. \A j \in Rt : S[j].hold # "none" => g[S[j].hold] = "held"
  <2> SUFFICES ASSUME NEW j \in Rt, S[j].hold # "none", j # i PROVE g[S[j].hold] = "held"
    BY <1>5
  <2>1. S[j].hold = R[j].hold /\ R[j].hold \in Packets /\ R[j].hold # p /\ f[R[j].hold] = "held"
    BY <1>1, <1>3 DEF Holding
  <2>2. R[j].hold # R[i].hold
    BY <2>1, <1>2 DEF Holding
  <2> QED BY <1>6, <2>1, <2>2
<1>9. \A j, k \in Rt : S[j].hold = S[k].hold /\ S[j].hold # "none" => j = k
  BY <1>3 DEF Holding
<1> QED
  BY <1>4, <1>7, <1>8, <1>9 DEF Holding

\* HeldOnce says the same with numbers.
LEMMA HeldOnceIs == Holding(rts, fate) /\ fate \in [Packets -> Fates] => HeldOnce
<1> SUFFICES ASSUME Holding(rts, fate), NEW p \in Packets
             PROVE  Cardinality({i \in 1 .. RtMax : rts[i].hold = p}) = (IF fate[p] = "held" THEN 1 ELSE 0)
  BY DEF HeldOnce
<1> DEFINE H == {i \in 1 .. RtMax : rts[i].hold = p}
<1>1. p # "none"
  BY ArpAssumption
<1>2. CASE fate[p] = "held"
  <2>1. PICK i \in Rt : rts[i].hold = p
    BY <1>2 DEF Holding
  <2>2. H = {i}
    BY <1>1, <2>1 DEF Holding, Rt
  <2> QED BY <1>2, <2>2, FS_Singleton
<1>3. CASE fate[p] # "held"
  <2>1. H = {}
    BY <1>1, <1>3 DEF Holding, Rt
  <2> QED BY <1>3, <2>1, FS_EmptySet
<1> QED
  BY <1>2, <1>3

-----------------------------------------------------------------------------
(***************************************************************************)
(* if_ether.c.                                                             *)
(***************************************************************************)
\* r is the entry q but for its address, its times and its packet.
ArpOnly(q, r) ==
    /\ r \in RtEntry /\ q.where # "free"
    /\ r.where = q.where /\ r.dst = q.dst /\ r.ref = q.ref /\ r.gwroute = q.gwroute /\ r.ll = q.ll
    /\ r.hold # "none" => r.ll

\* S is R with the entry r for i.
RtUpd(R, S, i, r) == S = [R EXCEPT ![i] = r]

\* The ARP part of an entry changes.
LEMMA ArpPart ==
    ASSUME NEW R, Sane(R), NEW U \in [Rt -> Nat], RefsExact(R, U),
           NEW i \in Rt, NEW r, ArpOnly(R[i], r), NEW S, RtUpd(R, S, i, r)
    PROVE  /\ Sane(S) /\ RefsExact(S, U)
           /\ S[i].hold = r.hold /\ \A j \in Rt : j # i => S[j].hold = R[j].hold
           /\ S[GwRt].gwroute = R[GwRt].gwroute
<1>1. R \in [Rt -> RtEntry] /\ EntryOK(i, R[i]) /\ ExactAt(R[i], U[i])
  BY DEF Sane, RefsExact
<1>2. EntryOK(i, r)
  BY <1>1 DEF EntryOK, ArpOnly
<1>3. Sane([R EXCEPT ![i] = r])
  BY <1>2, UpdSame DEF ArpOnly
<1>4. ExactAt(r, U[i])
  BY <1>1 DEF ExactAt, ArpOnly
<1>5. RefsExact([R EXCEPT ![i] = r], U)
  <2>1. RefsExact([R EXCEPT ![i] = r], [U EXCEPT ![i] = U[i]])
    BY <1>4, UpdExact
  <2>2. [U EXCEPT ![i] = U[i]] = U
    OBVIOUS
  <2> QED BY <2>1, <2>2, Zenon
<1>6. S[i] = r /\ \A j \in Rt : j # i => S[j] = R[j]
  BY <1>1 DEF RtUpd
<1>7. Sane(S) /\ RefsExact(S, U)
  BY <1>3, <1>5 DEF RtUpd
<1> QED
  BY <1>6, <1>7, RtIndex DEF ArpOnly

\* arplookup gives back the reference that it takes.
LEMMA arplookupOK ==
    ASSUME NEW R, Sane(R), NEW U \in [Rt -> Nat], RefsExact(R, U), NEW d, NEW create
    PROVE  LET l == arplookup(R, d, create) IN
           /\ Sane(l[1]) /\ RefsExact(l[1], U) /\ Keeps(R, l[1])
           /\ l[2] # 0 => l[2] \in Rt /\ l[1][l[2]].ll
<1> DEFINE a == rtalloc1(R, d, create)
           i == a[2]
           S == [a[1] EXCEPT ![i].ref = @ - 1]
           l == arplookup(R, d, create)
<1>1. IF i = 0 THEN a[1] = R
      ELSE i \in Rt /\ More(R, U, a[1], i) /\ a[1][i].where = "table"
  BY rtalloc1OK
<1>2. CASE i = 0
  <2>1. l = a
    BY <1>2 DEF arplookup
  <2>2. Keeps(R, R)
    BY DEF Keeps
  <2> HIDE DEF a, l
  <2> QED BY <1>1, <1>2, <2>1, <2>2 DEF l
<1>3. CASE i # 0
  <2>1. l = <<S, IF S[i].ll THEN i ELSE 0>>
    BY <1>3 DEF arplookup
  <2> HIDE DEF a, l, i
  <2> DEFINE V == [U EXCEPT ![i] = @ + 1]
  <2>2. i \in Rt /\ Sane(a[1]) /\ RefsExact(a[1], V) /\ Keeps(R, a[1]) /\ a[1][i].where = "table"
    BY <1>1, <1>3 DEF More
  <2>3. V \in [Rt -> Nat] /\ V[i] > 0 /\ [V EXCEPT ![i] = @ - 1] = U
    <3>1. V \in [Rt -> Nat] /\ V[i] = U[i] + 1 /\ U[i] \in Nat
      BY <2>2
    <3>2. \A j \in Rt : j # i => V[j] = U[j]
      BY <2>2
    <3> HIDE DEF V
    <3>3. [V EXCEPT ![i] = @ - 1] = U
      BY <2>2, <3>1, <3>2
    <3> QED BY <3>1, <3>3
  <2> HIDE DEF V
  <2>4. S = rtfree(a[1], i)
    <3>1. a[1] \in [Rt -> RtEntry]
      BY <2>2 DEF Sane
    <3>2. a[1][i] \in RtEntry
      BY <2>2, <3>1
    <3>3. [a[1][i] EXCEPT !.ref = @ - 1].where = "table"
      BY <2>2, <3>2 DEF RtEntry
    <3> QED BY <3>3 DEF rtfree
  <2>5. Less(a[1], V, S, i)
    BY <2>2, <2>3, <2>4, rtfreeOK
  <2> HIDE DEF S
  <2>6. Sane(S) /\ RefsExact(S, U) /\ Keeps(R, S)
    <3>1. Sane(S) /\ RefsExact(S, [V EXCEPT ![i] = @ - 1]) /\ Keeps(a[1], S)
      BY <2>5 DEF Less
    <3> QED BY <2>2, <2>3, <3>1, KeepsTrans
  <2> QED BY <2>1, <2>2, <2>6 DEF l
<1> QED
  BY <1>2, <1>3

\* An ARP entry that is deleted or forgets its address.
LEMMA arptfreeOK ==
    ASSUME NEW R, Sane(R), NEW U \in [Rt -> Nat], RefsExact(R, U), NEW i \in Rt, R[i].ll
    PROVE  LET S == arptfree(R, i) IN
           /\ Sane(S) /\ RefsExact(S, U)
           /\ S[i].hold = IF R[i].ref > 0 THEN R[i].hold ELSE "none"
           /\ \A j \in Rt : j # i => S[j].hold = R[j].hold
           /\ S[GwRt].gwroute = R[GwRt].gwroute
           /\ S[i].where = "table" => S[i].dst = R[i].dst
<1> DEFINE S == arptfree(R, i)
           q == R[i]
<1>1. q \in RtEntry /\ EntryOK(i, q) /\ R \in [Rt -> RtEntry]
  BY DEF Sane
<1>2. q.where = "table" /\ i > GwRt /\ i # NetRt /\ i # GwRt
  BY <1>1 DEF EntryOK, NetRt, GwRt
<1>3. CASE R[i].ref > 0
  <2> DEFINE a == [q EXCEPT !.mac = "none"]
             b == [a EXCEPT !.asked = 0]
             r == [b EXCEPT !.reject = FALSE]
  <2>1. S = [R EXCEPT ![i] = r]
    BY <1>3 DEF arptfree
  <2>2. r \in RtEntry
    <3>1. a \in RtEntry
      BY <1>1 DEF RtEntry
    <3> HIDE DEF a
    <3>2. b \in RtEntry
      BY <3>1 DEF RtEntry
    <3> HIDE DEF b
    <3> QED BY <3>2 DEF RtEntry
  <2>3. /\ r.where = q.where /\ r.dst = q.dst /\ r.ref = q.ref
        /\ r.gwroute = q.gwroute /\ r.ll = q.ll /\ r.hold = q.hold
    BY <1>1 DEF RtEntry
  <2> HIDE DEF r, S
  <2>4. r.hold # "none" => r.ll
    BY <2>3, <1>1 DEF EntryOK
  <2>5. /\ Sane(S) /\ RefsExact(S, U)
        /\ S[i].hold = r.hold /\ \A j \in Rt : j # i => S[j].hold = R[j].hold
        /\ S[GwRt].gwroute = R[GwRt].gwroute
    <3>1. ArpOnly(R[i], r)
      BY <1>2, <2>2, <2>3, <2>4 DEF ArpOnly
    <3>2. RtUpd(R, S, i, r)
      BY <2>1 DEF RtUpd
    <3> QED BY <3>1, <3>2, ArpPart
  <2>6. S[i] = r
    BY <1>1, <2>1
  <2> QED BY <1>3, <2>3, <2>5, <2>6 DEF S
<1>4. CASE ~ (R[i].ref > 0)
  <2>1. S = rtdelete(R, i)
    BY <1>4 DEF arptfree
  <2>2. R[i].gwroute = 0
    BY <1>1, <1>2 DEF EntryOK
  <2>3. Unlisted(R, S, i) /\ RefsExact(S, U)
    BY <1>2, <2>1, <2>2, rtdeleteOK
  <2> HIDE DEF S
  <2> QED BY <1>2, <1>4, <2>3, RtIndex DEF Unlisted, S
<1> QED
  BY <1>3, <1>4

-----------------------------------------------------------------------------
(***************************************************************************)
(* The actions.                                                            *)
(***************************************************************************)
\* The parts of the invariant.
LEMMA ArpParts ==
    ArpInv => /\ Sane(rts) /\ rts \in [Rt -> RtEntry]
              /\ cache \in [Caches -> 0 .. RtMax] /\ fate \in [Packets -> Fates] /\ now \in Nat
              /\ UsersOf(rts, cache) \in [Rt -> Nat] /\ RefsExact(rts, UsersOf(rts, cache))
              /\ Holding(rts, fate)
  BY UsersType DEF ArpInv, Sane, Fates

\* A step that changes neither the caches nor the route of the gateway.
LEMMA SameUsers ==
    ASSUME ArpInv, Sane(rts'), RefsExact(rts', UsersOf(rts, cache)), rts'[GwRt].gwroute = rts[GwRt].gwroute,
           UNCHANGED <<cache, now>>, fate' \in [Packets -> Fates], Holding(rts', fate')
    PROVE  ArpInv'
<1>1. UsersOf(rts', cache') = UsersOf(rts, cache)
  BY UsersSame
<1> QED
  BY <1>1 DEF ArpInv, Fates

\* An entry whose address is learned lets go of its packet and nothing else.
LEMMA LearnOK ==
    ASSUME NEW R, Sane(R), NEW U \in [Rt -> Nat], RefsExact(R, U), NEW i \in Rt, R[i].ll,
           NEW mac \in Macs, now \in Nat
    PROVE  LET S == Learn(R, i, mac) IN
           /\ Sane(S) /\ RefsExact(S, U)
           /\ S[i].hold = "none" /\ \A j \in Rt : j # i => S[j].hold = R[j].hold
           /\ S[GwRt].gwroute = R[GwRt].gwroute
<1> DEFINE q == R[i]
           x == IF q.expire = 0 THEN 0 ELSE now + arpt_keep
           a == [q EXCEPT !.mac = mac]
           b == [a EXCEPT !.reject = FALSE]
           c == [b EXCEPT !.asked = 0]
           e == [c EXCEPT !.hold = "none"]
           r == [e EXCEPT !.expire = x]
<1>1. q \in RtEntry /\ EntryOK(i, q) /\ R \in [Rt -> RtEntry]
  BY DEF Sane
<1>2. q.where = "table"
  BY <1>1 DEF EntryOK
<1>3. Learn(R, i, mac) = [R EXCEPT ![i] = r]
  BY DEF Learn
<1>4. x \in Nat
  BY <1>1, ArpAssumption DEF RtEntry
<1> HIDE DEF x
<1>5. r \in RtEntry
  <2>1. a \in RtEntry
    BY <1>1 DEF RtEntry
  <2> HIDE DEF a
  <2>2. b \in RtEntry
    BY <2>1 DEF RtEntry
  <2> HIDE DEF b
  <2>3. c \in RtEntry
    BY <2>2 DEF RtEntry
  <2> HIDE DEF c
  <2>4. e \in RtEntry
    BY <2>3 DEF RtEntry
  <2> HIDE DEF e
  <2> QED BY <1>4, <2>4 DEF RtEntry
<1>6. /\ r.where = q.where /\ r.dst = q.dst /\ r.ref = q.ref
      /\ r.gwroute = q.gwroute /\ r.ll = q.ll /\ r.hold = "none"
  BY <1>1 DEF RtEntry
<1> HIDE DEF r
<1> DEFINE S == Learn(R, i, mac)
<1> HIDE DEF S
<1>7. /\ Sane(S) /\ RefsExact(S, U)
      /\ S[i].hold = r.hold /\ \A j \in Rt : j # i => S[j].hold = R[j].hold
      /\ S[GwRt].gwroute = R[GwRt].gwroute
  <2>1. S = [R EXCEPT ![i] = r]
    BY <1>3 DEF S
  <2>2. R[i].where # "free" /\ (r.hold # "none" => r.ll)
    BY <1>2, <1>6
  <2>3. ArpOnly(R[i], r)
    BY <1>5, <1>6, <2>2 DEF ArpOnly
  <2>4. RtUpd(R, S, i, r)
    BY <2>1 DEF RtUpd
  <2> QED BY <2>3, <2>4, ArpPart
<1> QED
  BY <1>6, <1>7 DEF S

\* What became of the packet p that was to go out through the entries R:
\* freed, sent, or held by an entry that drops what it held.
Outcome(R, o, p) ==
    \/ /\ o.freed = {p} \/ (o.freed = {} /\ o.mac # "none")
       /\ \A j \in Rt : o.R[j].hold = R[j].hold
    \/ /\ o.mac = "none"
       /\ \E i \in Rt : /\ o.freed = {R[i].hold} \ {"none"} /\ o.R[i].hold = p
                        /\ \A j \in Rt : j # i => o.R[j].hold = R[j].hold

\* arpresolve sends the packet, frees it or keeps it in the entry.
LEMMA arpresolveOK ==
    ASSUME NEW R, Sane(R), NEW U \in [Rt -> Nat], RefsExact(R, U), NEW i \in Rt, NEW p \in Packets, now \in Nat
    PROVE  LET o == arpresolve(R, i, p) IN
           Outcome(R, o, p) /\ Sane(o.R) /\ RefsExact(o.R, U) /\ o.R[GwRt].gwroute = R[GwRt].gwroute
<1> DEFINE q == R[i]
           o == arpresolve(R, i, p)
           ask == q.asked = 0 \/ now < q.expire \/ now - q.expire >= arpRxmitTicks
           b1 == [q EXCEPT !.reject = FALSE]
           c1 == [b1 EXCEPT !.expire = now]
           d1 == [c1 EXCEPT !.asked = @ + 1]
           b2 == [q EXCEPT !.reject = TRUE]
           c2 == [b2 EXCEPT !.expire = now + arpt_down]
           d2 == [c2 EXCEPT !.asked = 0]
           again == IF q.expire = 0 THEN q
                    ELSE IF ~ask THEN b1 ELSE IF q.asked < arp_maxtries THEN d1 ELSE d2
           r == [again EXCEPT !.hold = p]
           S == [R EXCEPT ![i] = r]
<1>1. q \in RtEntry /\ EntryOK(i, q) /\ R \in [Rt -> RtEntry]
  BY DEF Sane
<1>2. CASE ~q.ll
  <2>1. o = Out(R, "none", i, {p})
    BY <1>2 DEF arpresolve
  <2>2. o.R = R /\ o.freed = {p}
    BY <2>1 DEF Out
  <2> HIDE DEF o
  <2> QED BY <2>2 DEF Outcome, o
<1>3. CASE q.ll /\ Usable(q)
  <2>1. o = Out(R, q.mac, i, {}) /\ q.mac # "none"
    BY <1>3 DEF arpresolve, Usable
  <2>2. o.R = R /\ o.freed = {} /\ o.mac # "none"
    BY <2>1 DEF Out
  <2> HIDE DEF o
  <2> QED BY <2>2 DEF Outcome, o
<1>4. CASE q.ll /\ ~Usable(q)
  <2>1. o = Out(S, "none", i, {q.hold} \ {"none"})
    BY <1>4 DEF arpresolve
  <2>2. o.R = S /\ o.freed = {q.hold} \ {"none"} /\ o.mac = "none"
    BY <2>1 DEF Out
  <2>3. q.where = "table"
    BY <1>1, <1>4 DEF EntryOK
  <2>4. b1 \in RtEntry /\ b1.where = q.where /\ b1.dst = q.dst /\ b1.ref = q.ref /\ b1.gwroute = q.gwroute
        /\ b1.ll = q.ll
    BY <1>1 DEF RtEntry
  <2>5. c1 \in RtEntry /\ c1.where = q.where /\ c1.dst = q.dst /\ c1.ref = q.ref /\ c1.gwroute = q.gwroute
        /\ c1.ll = q.ll
    <3> HIDE DEF b1, q
    <3> QED BY <2>4 DEF RtEntry
  <2>6. d1 \in RtEntry /\ d1.where = q.where /\ d1.dst = q.dst /\ d1.ref = q.ref /\ d1.gwroute = q.gwroute
        /\ d1.ll = q.ll
    <3> HIDE DEF c1, q
    <3> QED BY <2>5 DEF RtEntry
  <2>7. b2 \in RtEntry /\ b2.where = q.where /\ b2.dst = q.dst /\ b2.ref = q.ref /\ b2.gwroute = q.gwroute
        /\ b2.ll = q.ll
    BY <1>1 DEF RtEntry
  <2>8. c2 \in RtEntry /\ c2.where = q.where /\ c2.dst = q.dst /\ c2.ref = q.ref /\ c2.gwroute = q.gwroute
        /\ c2.ll = q.ll
    <3> HIDE DEF b2, q
    <3>1. now + arpt_down \in Nat
      BY ArpAssumption
    <3> QED BY <2>7, <3>1 DEF RtEntry
  <2>9. d2 \in RtEntry /\ d2.where = q.where /\ d2.dst = q.dst /\ d2.ref = q.ref /\ d2.gwroute = q.gwroute
        /\ d2.ll = q.ll
    <3> HIDE DEF c2, q
    <3> QED BY <2>8 DEF RtEntry
  <2> HIDE DEF ask, b1, d1, d2
  <2>10. again \in RtEntry /\ again.where = q.where /\ again.dst = q.dst /\ again.ref = q.ref
         /\ again.gwroute = q.gwroute /\ again.ll = q.ll
    BY <1>1, <2>4, <2>6, <2>9
  <2> HIDE DEF again, q
  <2>11. r \in RtEntry /\ r.where = q.where /\ r.dst = q.dst /\ r.ref = q.ref /\ r.gwroute = q.gwroute
         /\ r.ll = q.ll /\ r.hold = p
    BY <2>10 DEF RtEntry
  <2>12. ArpOnly(R[i], r)
    BY <1>4, <2>3, <2>11 DEF ArpOnly, q
  <2>13. RtUpd(R, S, i, r)
    BY DEF RtUpd
  <2> HIDE DEF r, S, o
  <2>14. /\ Sane(S) /\ RefsExact(S, U)
         /\ S[i].hold = r.hold /\ \A j \in Rt : j # i => S[j].hold = R[j].hold
         /\ S[GwRt].gwroute = R[GwRt].gwroute
    BY <2>12, <2>13, ArpPart
  <2>15. Outcome(R, o, p)
    BY <2>2, <2>11, <2>14 DEF Outcome, q
  <2> QED BY <2>2, <2>14, <2>15 DEF o
<1> QED
  BY <1>2, <1>3, <1>4

GwSet(R, S, k) == S = [R EXCEPT ![GwRt].gwroute = k]

\* The route through the gateway uses entry k from now on.
LEMMA SetGw ==
    ASSUME NEW R, Sane(R), NEW U \in [Rt -> Nat], RefsExact(R, U), R[GwRt].where = "table",
           NEW k \in Rt, k # GwRt, NEW S, GwSet(R, S, k)
    PROVE  Sane(S) /\ RefsExact(S, U) /\ S[GwRt].gwroute = k /\ \A j \in Rt : S[j].hold = R[j].hold
<1> DEFINE q == R[GwRt]
           r == [q EXCEPT !.gwroute = k]
<1>1. R \in [Rt -> RtEntry] /\ q \in RtEntry /\ EntryOK(GwRt, q) /\ ExactAt(q, U[GwRt]) /\ q.where = "table"
  BY RtIndex DEF Sane, RefsExact
<1>2. S = [R EXCEPT ![GwRt] = r]
  BY DEF GwSet
<1>3. k \in 0 .. RtMax
  BY RtIndex DEF Rt
<1> HIDE DEF q
<1>4. /\ r \in RtEntry /\ r.gwroute = k
      /\ r.where = q.where /\ r.dst = q.dst /\ r.ref = q.ref /\ r.ll = q.ll /\ r.hold = q.hold
  BY <1>1, <1>3 DEF RtEntry
<1> HIDE DEF r
<1>5. EntryOK(GwRt, r) /\ ExactAt(r, U[GwRt])
  BY <1>1, <1>4 DEF EntryOK, ExactAt
<1>6. Sane(S)
  <2>1. Sane([R EXCEPT ![GwRt] = r])
    BY <1>4, <1>5, RtIndex, UpdSame DEF q
  <2> QED BY <1>2, <2>1, Zenon
<1>7. RefsExact(S, U)
  <2>1. RefsExact([R EXCEPT ![GwRt] = r], [U EXCEPT ![GwRt] = U[GwRt]])
    BY <1>5, RtIndex, UpdExact
  <2>2. [U EXCEPT ![GwRt] = U[GwRt]] = U
    OBVIOUS
  <2> QED BY <1>2, <2>1, <2>2, Zenon
<1>8. S[GwRt] = r /\ \A j \in Rt : j # GwRt => S[j] = R[j]
  BY <1>1, <1>2, RtIndex
<1> QED
  BY <1>4, <1>6, <1>7, <1>8 DEF q

\* The same when the reference to k was just taken.
LEMMA TakeGw ==
    ASSUME NEW R, Sane(R), NEW C \in [Caches -> 0 .. RtMax], NEW V \in [Rt -> Nat],
           NEW Q, NEW k, k \in Rt, k # GwRt, More(R, V, Q, k), R[GwRt].where = "table",
           NEW S, GwSet(Q, S, k), UsersOf(S, C) = Plus(V, k)
    PROVE  Sane(S) /\ RefsExact(S, UsersOf(S, C)) /\ \A j \in Rt : S[j].hold = R[j].hold
<1> DEFINE W == Plus(V, k)
<1>1. Sane(Q) /\ RefsExact(Q, W) /\ Q[GwRt].where = "table" /\ \A j \in Rt : Q[j].hold = R[j].hold
  BY RtIndex DEF More, Keeps, Plus
<1>2. W \in [Rt -> Nat]
  BY DEF Plus
<1> HIDE DEF W
<1>3. Sane(S) /\ RefsExact(S, W) /\ \A j \in Rt : S[j].hold = Q[j].hold
  BY <1>1, <1>2, SetGw
<1> QED
  BY <1>1, <1>3 DEF W

\* The part of ether_output about the route of the gateway.
GwRoute(R) ==
    LET g0 == R[GwRt].gwroute
        R1 == IF g0 # 0 /\ R[g0].where # "table" THEN rtfree(R, g0) ELSE R
    IN  IF g0 = 0 \/ R[g0].where # "table" THEN rtalloc1(R1, Gateway, TRUE) ELSE <<R1, g0>>

\* The route through the gateway has a route of its own afterwards.
LEMMA GwRouteOK ==
    ASSUME NEW R, Sane(R), NEW C \in [Caches -> 0 .. RtMax], RefsExact(R, UsersOf(R, C)), R[GwRt].where = "table",
           NEW a, a = GwRoute(R), NEW S, GwSet(a[1], S, a[2])
    PROVE  /\ a[2] \in Rt
           /\ Sane(S) /\ RefsExact(S, UsersOf(S, C)) /\ \A j \in Rt : S[j].hold = R[j].hold
<1> DEFINE g == R[GwRt].gwroute
           U == UsersOf(R, C)
<1>1. R \in [Rt -> RtEntry] /\ R[GwRt] \in RtEntry /\ g \in 0 .. RtMax /\ U \in [Rt -> Nat]
  BY RtIndex, UsersType DEF Sane, RtEntry
<1>2. Gateway \in Neighbours
  BY ArpAssumption
<1> HIDE DEF U
<1>3. CASE g = 0
  <2>1. a = rtalloc1(R, Gateway, TRUE)
    BY <1>3 DEF GwRoute
  <2>2. a[2] \in Rt /\ a[2] # GwRt /\ More(R, U, a[1], a[2])
    BY <1>1, <1>2, <2>1, rtalloc1OK DEF U
  <2>3. S[GwRt].gwroute = a[2]
    <3>1. a[1] \in [Rt -> RtEntry] /\ a[1][GwRt] \in RtEntry
      BY <2>2, RtIndex DEF More, Sane
    <3> QED BY <3>1, RtIndex DEF RtEntry, GwSet
  <2>4. UsersOf(S, C) = Plus(U, a[2])
    BY <1>3, <2>2, <2>3, UsersGw DEF U
  <2> QED BY <1>1, <2>2, <2>4, TakeGw
<1>4. CASE g # 0 /\ R[g].where # "table"
  <2> DEFINE Q == rtfree(R, g)
             V == Minus(U, g)
  <2>1. g \in Rt /\ U[g] > 0 /\ V \in [Rt -> Nat]
    <3>1. g \in Rt
      BY <1>1, <1>4, ArpAssumption DEF Rt
    <3> QED BY <1>4, <3>1, UsersGw DEF U
  <2>2. Less(R, U, Q, g)
    BY <1>1, <2>1, rtfreeOK DEF U
  <2>3. a = rtalloc1(Q, Gateway, TRUE)
    BY <1>4 DEF GwRoute
  <2> HIDE DEF Q
  <2>4. Sane(Q) /\ RefsExact(Q, V) /\ Keeps(R, Q)
    BY <2>2 DEF Less, Minus
  <2> HIDE DEF V
  <2>5. a[2] \in Rt /\ a[2] # GwRt /\ More(Q, V, a[1], a[2])
    BY <1>2, <2>1, <2>3, <2>4, rtalloc1OK
  <2>6. S[GwRt].gwroute = a[2]
    <3>1. a[1] \in [Rt -> RtEntry] /\ a[1][GwRt] \in RtEntry
      BY <2>5, RtIndex DEF More, Sane
    <3> QED BY <3>1, RtIndex DEF RtEntry, GwSet
  <2>7. UsersOf(S, C) = Plus(V, a[2])
    BY <1>4, <2>5, <2>6, UsersGw DEF U, V
  <2>8. Q[GwRt].where = "table" /\ \A j \in Rt : Q[j].hold = R[j].hold
    BY <2>4, RtIndex DEF Keeps
  <2>9. Sane(S) /\ RefsExact(S, UsersOf(S, C)) /\ \A j \in Rt : S[j].hold = Q[j].hold
    BY <2>1, <2>4, <2>5, <2>7, <2>8, TakeGw
  <2> QED BY <2>5, <2>8, <2>9
<1>5. CASE g # 0 /\ R[g].where = "table"
  <2>1. a = <<R, g>>
    BY <1>5 DEF GwRoute
  <2>2. S = R
    <3>1. S = [R EXCEPT ![GwRt] = [R[GwRt] EXCEPT !.gwroute = R[GwRt].gwroute]]
      BY <2>1 DEF GwSet
    <3>2. [R[GwRt] EXCEPT !.gwroute = R[GwRt].gwroute] = R[GwRt]
      BY <1>1 DEF RtEntry
    <3> QED BY <3>1, <3>2, <1>1
  <2>3. g \in Rt
    BY <1>1, <1>5, ArpAssumption DEF Rt
  <2> QED BY <2>1, <2>2, <2>3
<1> QED
  BY <1>3, <1>4, <1>5

\* An outcome is about the packets held and nothing else.
LEMMA OutcomeSame ==
    ASSUME NEW R, NEW S, NEW o, NEW p, \A j \in Rt : S[j].hold = R[j].hold, Outcome(S, o, p)
    PROVE  Outcome(R, o, p)
<1>1. CASE /\ o.freed = {p} \/ (o.freed = {} /\ o.mac # "none")
           /\ \A j \in Rt : o.R[j].hold = S[j].hold
  BY <1>1 DEF Outcome
<1>2. CASE /\ o.mac = "none"
           /\ \E i \in Rt : /\ o.freed = {S[i].hold} \ {"none"} /\ o.R[i].hold = p
                            /\ \A j \in Rt : j # i => o.R[j].hold = S[j].hold
  <2>1. PICK i \in Rt : /\ o.freed = {S[i].hold} \ {"none"} /\ o.R[i].hold = p
                        /\ \A j \in Rt : j # i => o.R[j].hold = S[j].hold
    BY <1>2
  <2>2. o.freed = {R[i].hold} \ {"none"}
    BY <2>1
  <2>3. \A j \in Rt : j # i => o.R[j].hold = R[j].hold
    BY <2>1
  <2> QED BY <1>2, <2>1, <2>2, <2>3 DEF Outcome
<1> QED
  BY <1>1, <1>2 DEF Outcome

\* ether_output through an entry of the table.
LEMMA ether_outputOK ==
    ASSUME NEW R, Sane(R), NEW C \in [Caches -> 0 .. RtMax], RefsExact(R, UsersOf(R, C)),
           NEW i \in Rt, R[i].where = "table", NEW p \in Packets, NEW d, now \in Nat,
           NEW o, o = ether_output(R, p, i, d)
    PROVE  Outcome(R, o, p) /\ Sane(o.R) /\ RefsExact(o.R, UsersOf(o.R, C))
<1>1. ASSUME NEW S, Sane(S), RefsExact(S, UsersOf(S, C)), \A j \in Rt : S[j].hold = R[j].hold, NEW k \in Rt,
             o = IF S[k].reject /\ (S[k].expire = 0 \/ now < S[k].expire) THEN Out(S, "none", k, {p})
                 ELSE arpresolve(S, k, p)
      PROVE  Outcome(R, o, p) /\ Sane(o.R) /\ RefsExact(o.R, UsersOf(o.R, C))
  <2> DEFINE rejected == S[k].reject /\ (S[k].expire = 0 \/ now < S[k].expire)
             U == UsersOf(S, C)
  <2>1. U \in [Rt -> Nat] /\ RefsExact(S, U)
    BY <1>1, UsersType
  <2>2. CASE rejected
    <3>1. o.R = S /\ o.freed = {p}
      BY <1>1, <2>2 DEF Out
    <3> QED BY <1>1, <3>1 DEF Outcome
  <2>3. CASE ~rejected
    <3>1. o = arpresolve(S, k, p)
      BY <1>1, <2>3
    <3> HIDE DEF U
    <3>2. Outcome(S, o, p) /\ Sane(o.R) /\ RefsExact(o.R, U) /\ o.R[GwRt].gwroute = S[GwRt].gwroute
      BY <1>1, <2>1, <3>1, arpresolveOK
    <3>3. UsersOf(o.R, C) = U
      BY <3>2, UsersSame DEF U
    <3>4. Outcome(R, o, p)
      BY <1>1, <3>2, OutcomeSame
    <3> QED BY <3>2, <3>3, <3>4
  <2> QED BY <2>2, <2>3
<1>2. CASE i # GwRt
  <2>1. o = IF R[i].reject /\ (R[i].expire = 0 \/ now < R[i].expire) THEN Out(R, "none", i, {p})
            ELSE arpresolve(R, i, p)
    BY <1>2 DEF ether_output
  <2> QED BY <1>1, <2>1
<1>3. CASE i = GwRt
  <2> DEFINE a == GwRoute(R)
             S == [a[1] EXCEPT ![GwRt].gwroute = a[2]]
             k == a[2]
  <2>1. o = IF S[k].reject /\ (S[k].expire = 0 \/ now < S[k].expire) THEN Out(S, "none", k, {p})
            ELSE arpresolve(S, k, p)
    BY <1>3 DEF ether_output, GwRoute
  <2>2. GwSet(a[1], S, k)
    BY DEF GwSet
  <2>3. a = GwRoute(R)
    OBVIOUS
  <2> HIDE DEF S, a
  <2>4. k \in Rt /\ Sane(S) /\ RefsExact(S, UsersOf(S, C)) /\ \A j \in Rt : S[j].hold = R[j].hold
    BY <1>3, <2>2, <2>3, GwRouteOK
  <2> HIDE DEF k
  <2> QED BY <1>1, <2>1, <2>4
<1> QED
  BY <1>2, <1>3

\* The part of ip_output about the cached route of socket c.
SendRoute(R, C, c) ==
    LET old == C[c]
        R1  == IF old # 0 /\ R[old].where # "table" THEN rtfree(R, old) ELSE R
    IN  IF old = 0 \/ R[old].where # "table" THEN rtalloc1(R1, DstOf[c], TRUE) ELSE <<R1, old>>

SentVia(R, C, c, a, k) == a = SendRoute(R, C, c) /\ k = a[2]

Allocated(R, a) == \E d, rep : a = rtalloc1(R, d, rep)

\* The socket c has an entry k more, which was just taken for it.
LEMMA TakeCache ==
    ASSUME NEW R, Sane(R), NEW C \in [Caches -> 0 .. RtMax], RefsExact(R, UsersOf(R, C)),
           NEW c \in Caches, C[c] = 0, NEW a, Allocated(R, a),
           NEW k, k = a[2], NEW D, CacheSet(C, D, c, k)
    PROVE  /\ D \in [Caches -> 0 .. RtMax] /\ Sane(a[1]) /\ RefsExact(a[1], UsersOf(a[1], D))
           /\ \A j \in Rt : a[1][j].hold = R[j].hold
           /\ k # 0 => k \in Rt /\ a[1][k].where = "table"
<1> DEFINE U == UsersOf(R, C)
<1>1. U \in [Rt -> Nat]
  BY UsersType
<1>2. IF k = 0 THEN a[1] = R
      ELSE k \in Rt /\ More(R, U, a[1], k) /\ a[1][k].where = "table"
  <2>1. PICK d, rep : a = rtalloc1(R, d, rep)
    BY DEF Allocated
  <2> HIDE DEF U
  <2> QED BY <1>1, <2>1, rtalloc1OK DEF U
<1>3. CASE k = 0
  <2>1. D = C
    BY <1>3 DEF CacheSet
  <2> QED BY <1>2, <1>3, <2>1
<1>4. CASE k # 0
  <2>1. k \in Rt /\ Sane(a[1]) /\ RefsExact(a[1], Plus(U, k)) /\ Keeps(R, a[1]) /\ a[1][k].where = "table"
    BY <1>2, <1>4 DEF More, Plus
  <2>3. D \in [Caches -> 0 .. RtMax] /\ UsersOf(R, D) = Plus(U, k)
    BY <2>1, UsersTake
  <2>4. a[1][GwRt].gwroute = R[GwRt].gwroute /\ \A j \in Rt : a[1][j].hold = R[j].hold
    BY <2>1, RtIndex DEF Keeps
  <2>5. UsersOf(a[1], D) = UsersOf(R, D)
    BY <2>4, UsersSame
  <2> QED BY <2>1, <2>3, <2>4, <2>5
<1> QED
  BY <1>3, <1>4

\* The socket c lets go of its entry.
LEMMA DropCache ==
    ASSUME NEW R, Sane(R), NEW C \in [Caches -> 0 .. RtMax], RefsExact(R, UsersOf(R, C)),
           NEW c \in Caches, C[c] # 0, NEW Q, Q = rtfree(R, C[c]), NEW D, CacheSet(C, D, c, 0)
    PROVE  /\ D \in [Caches -> 0 .. RtMax] /\ D[c] = 0 /\ Sane(Q) /\ RefsExact(Q, UsersOf(Q, D))
           /\ \A j \in Rt : Q[j].hold = R[j].hold
<1> DEFINE U == UsersOf(R, C)
           k == C[c]
<1>1. U \in [Rt -> Nat] /\ k \in Rt /\ 0 \in 0 .. RtMax
  BY UsersType, RtRange
<1>2. D \in [Caches -> 0 .. RtMax] /\ D[c] = 0 /\ U[k] > 0 /\ UsersOf(R, D) = Minus(U, k)
  BY <1>1, UsersMove
<1>3. Less(R, U, Q, k)
  BY <1>1, <1>2, rtfreeOK
<1>4. Sane(Q) /\ RefsExact(Q, Minus(U, k)) /\ Keeps(R, Q)
  BY <1>3 DEF Less, Minus
<1>5. Q[GwRt].gwroute = R[GwRt].gwroute /\ \A j \in Rt : Q[j].hold = R[j].hold
  BY <1>4, RtIndex DEF Keeps
<1>6. UsersOf(Q, D) = UsersOf(R, D)
  BY <1>5, UsersSame
<1> QED
  BY <1>1, <1>2, <1>4, <1>5, <1>6

\* A socket that sends has a route of the table, or none.
LEMMA SendRouteOK ==
    ASSUME NEW R, Sane(R), NEW C \in [Caches -> 0 .. RtMax], RefsExact(R, UsersOf(R, C)),
           NEW c \in Caches, NEW a, NEW k, SentVia(R, C, c, a, k), NEW E, CacheSet(C, E, c, k)
    PROVE  /\ E \in [Caches -> 0 .. RtMax] /\ Sane(a[1]) /\ RefsExact(a[1], UsersOf(a[1], E))
           /\ \A j \in Rt : a[1][j].hold = R[j].hold
           /\ k # 0 => k \in Rt /\ a[1][k].where = "table"
<1>4. a = SendRoute(R, C, c) /\ k = a[2]
  BY DEF SentVia
<1>1. CASE C[c] = 0
  <2>1. Allocated(R, a)
    BY <1>1, <1>4 DEF SendRoute, Allocated
  <2> QED BY <1>1, <1>4, <2>1, TakeCache
<1>2. CASE C[c] # 0 /\ R[C[c]].where # "table"
  <2> DEFINE Q == rtfree(R, C[c])
             D == [C EXCEPT ![c] = 0]
  <2>1. Allocated(Q, a)
    BY <1>2, <1>4 DEF SendRoute, Allocated
  <2>2. CacheSet(D, E, c, k)
    BY DEF CacheSet
  <2>3. Q = rtfree(R, C[c]) /\ CacheSet(C, D, c, 0)
    BY DEF CacheSet
  <2> HIDE DEF Q, D
  <2>4. /\ D \in [Caches -> 0 .. RtMax] /\ D[c] = 0 /\ Sane(Q) /\ RefsExact(Q, UsersOf(Q, D))
        /\ \A j \in Rt : Q[j].hold = R[j].hold
    BY <1>2, <2>3, DropCache
  <2>5. /\ E \in [Caches -> 0 .. RtMax] /\ Sane(a[1]) /\ RefsExact(a[1], UsersOf(a[1], E))
        /\ \A j \in Rt : a[1][j].hold = Q[j].hold
        /\ k # 0 => k \in Rt /\ a[1][k].where = "table"
    BY <1>4, <2>1, <2>2, <2>4, TakeCache
  <2> QED BY <2>4, <2>5
<1>3. CASE C[c] # 0 /\ R[C[c]].where = "table"
  <2>1. a = <<R, C[c]>>
    BY <1>3, <1>4 DEF SendRoute
  <2>2. E = C
    BY <1>4, <2>1 DEF CacheSet
  <2>3. C[c] \in Rt
    BY <1>3, RtRange
  <2> QED BY <1>3, <1>4, <2>1, <2>2, <2>3
<1> QED
  BY <1>1, <1>2, <1>3

\* in_arpinput keeps the invariant.
LEMMA in_arpinputInv ==
    ASSUME ArpInv, NEW d \in Neighbours, NEW mac \in Macs, NEW me \in BOOLEAN, in_arpinput(d, mac, me)
    PROVE  ArpInv'
<1> DEFINE l == arplookup(rts, d, me)
           i == l[2]
           L == l[1]
           U == UsersOf(rts, cache)
<1>1. /\ rts' = (IF i = 0 THEN L ELSE Learn(L, i, mac))
      /\ fate' = (IF i # 0 /\ L[i].hold # "none" THEN [fate EXCEPT ![L[i].hold] = "sent"] ELSE fate)
      /\ UNCHANGED <<cache, now>>
  BY DEF in_arpinput
<1>2. /\ Sane(rts) /\ U \in [Rt -> Nat] /\ RefsExact(rts, U) /\ Holding(rts, fate)
      /\ fate \in [Packets -> Fates] /\ now \in Nat
  BY ArpParts
<1>3. /\ Sane(L) /\ RefsExact(L, U) /\ Keeps(rts, L)
      /\ i # 0 => i \in Rt /\ L[i].ll
  <2> HIDE DEF U
  <2> QED BY <1>2, arplookupOK
<1> HIDE DEF l, i, L
<1>4. Holding(L, fate) /\ L[GwRt].gwroute = rts[GwRt].gwroute
  BY <1>2, <1>3, HoldingSame, RtIndex DEF Keeps
<1>5. CASE i = 0
  BY <1>1, <1>2, <1>3, <1>4, <1>5, SameUsers
<1>6. CASE i # 0
  <2> HIDE DEF U
  <2> DEFINE S == Learn(L, i, mac)
  <2>1. /\ Sane(S) /\ RefsExact(S, U)
        /\ S[i].hold = "none" /\ \A j \in Rt : j # i => S[j].hold = L[j].hold
        /\ S[GwRt].gwroute = L[GwRt].gwroute
    BY <1>2, <1>3, <1>6, LearnOK
  <2>2. rts' = S
    BY <1>1, <1>6
  <2> HIDE DEF S
  <2>3. fate' = IF L[i].hold = "none" THEN fate ELSE [fate EXCEPT ![L[i].hold] = "sent"]
    BY <1>1, <1>6
  <2>4. fate' \in [Packets -> Fates] /\ Holding(S, fate')
    <3>1. "sent" \in Fates \ {"held"}
      BY DEF Fates
    <3> QED BY <1>2, <1>3, <1>4, <1>6, <2>1, <2>3, <3>1, HoldingGives
  <2> QED BY <1>1, <1>4, <2>1, <2>2, <2>4, SameUsers DEF U
<1> QED
  BY <1>5, <1>6

\* So does the deletion of an address.
LEMMA SIOCDARPInv ==
    ASSUME ArpInv, NEW d \in Neighbours, SIOCDARP(d)
    PROVE  ArpInv'
<1> DEFINE l == arplookup(rts, d, FALSE)
           i == l[2]
           L == l[1]
           U == UsersOf(rts, cache)
<1>1. /\ i # 0 /\ rts' = arptfree(L, i)
      /\ fate' = (IF rts[i].hold # "none" /\ rts'[i].hold = "none"
                  THEN [fate EXCEPT ![rts[i].hold] = "dropped"] ELSE fate)
      /\ UNCHANGED <<cache, now>>
  BY DEF SIOCDARP
<1>2. /\ Sane(rts) /\ U \in [Rt -> Nat] /\ RefsExact(rts, U) /\ Holding(rts, fate)
      /\ fate \in [Packets -> Fates] /\ now \in Nat
  BY ArpParts
<1>3. /\ Sane(L) /\ RefsExact(L, U) /\ Keeps(rts, L)
      /\ i # 0 => i \in Rt /\ L[i].ll
  <2> HIDE DEF U
  <2> QED BY <1>2, arplookupOK
<1> HIDE DEF l, i, L
<1>4. Holding(L, fate) /\ L[GwRt].gwroute = rts[GwRt].gwroute /\ L[i].hold = rts[i].hold
  <2>1. \A j \in Rt : L[j].hold = rts[j].hold /\ L[j].gwroute = rts[j].gwroute
    BY <1>3 DEF Keeps
  <2>2. Holding(L, fate)
    BY <1>2, <2>1, HoldingSame
  <2> QED BY <1>1, <1>3, <2>1, <2>2, RtIndex
<1> DEFINE S == arptfree(L, i)
<1> HIDE DEF U
<1>5. /\ Sane(S) /\ RefsExact(S, U)
      /\ S[i].hold = (IF L[i].ref > 0 THEN L[i].hold ELSE "none")
      /\ \A j \in Rt : j # i => S[j].hold = L[j].hold
      /\ S[GwRt].gwroute = L[GwRt].gwroute
  BY <1>1, <1>2, <1>3, arptfreeOK
<1>6. rts' = S
  BY <1>1
<1> HIDE DEF S
<1>7. CASE S[i].hold = "none"
  <2>1. fate' = IF L[i].hold = "none" THEN fate ELSE [fate EXCEPT ![L[i].hold] = "dropped"]
    BY <1>1, <1>4, <1>6, <1>7
  <2>2. "dropped" \in Fates \ {"held"}
    BY DEF Fates
  <2>3. fate' \in [Packets -> Fates] /\ Holding(S, fate')
    <3>1. i \in Rt /\ Sane(L) /\ Holding(L, fate) /\ fate \in [Packets -> Fates]
      BY <1>1, <1>2, <1>3, <1>4
    <3>2. \A j \in Rt : j # i => S[j].hold = L[j].hold
      BY <1>5
    <3> QED BY <1>7, <2>1, <2>2, <3>1, <3>2, HoldingGives
  <2> QED BY <1>1, <1>4, <1>5, <1>6, <2>3, SameUsers DEF U
<1>8. CASE S[i].hold # "none"
  <2>1. fate' = fate /\ \A j \in Rt : S[j].hold = L[j].hold
    BY <1>1, <1>5, <1>6, <1>8
  <2>2. Holding(S, fate')
    BY <1>4, <2>1, HoldingSame
  <2> QED BY <1>1, <1>2, <1>4, <1>5, <1>6, <2>1, <2>2, SameUsers DEF U
<1> QED
  BY <1>7, <1>8

\* What the entries of R held and those of S do not is dropped.
Dropped(R, S, f, g) ==
    /\ g \in [Packets -> Fates]
    /\ \A p \in Packets : g[p] = IF \E i \in Rt : R[i].hold = p /\ S[i].hold # p THEN "dropped" ELSE f[p]

\* Entries let go of packets, which are dropped.
LEMMA HoldingLets ==
    ASSUME NEW R, Sane(R), NEW S, \A j \in Rt : S[j].hold = R[j].hold \/ S[j].hold = "none",
           NEW f \in [Packets -> Fates], Holding(R, f),
           NEW g, Dropped(R, S, f, g)
    PROVE  g \in [Packets -> Fates] /\ Holding(S, g)
<1>1. \A j \in Rt : R[j].hold \in Packets \cup {"none"}
  BY DEF Sane, RtEntry
<1>2. g \in [Packets -> Fates]
  BY DEF Dropped
<1>3. ASSUME NEW p \in Packets, g[p] = "held"
      PROVE  \E j \in Rt : S[j].hold = p
  <2>1. f[p] = "held" /\ ~ \E i \in Rt : R[i].hold = p /\ S[i].hold # p
    BY <1>3 DEF Dropped
  <2>2. PICK j \in Rt : R[j].hold = p
    BY <2>1 DEF Holding
  <2> QED BY <2>1, <2>2
<1>4. ASSUME NEW j \in Rt, S[j].hold # "none"
      PROVE  g[S[j].hold] = "held"
  <2>1. S[j].hold = R[j].hold /\ R[j].hold \in Packets /\ f[R[j].hold] = "held"
    BY <1>1, <1>4 DEF Holding
  <2>2. ~ \E i \in Rt : R[i].hold = R[j].hold /\ S[i].hold # R[j].hold
    <3> SUFFICES ASSUME NEW i \in Rt, R[i].hold = R[j].hold PROVE S[i].hold = R[j].hold
      OBVIOUS
    <3>1. i = j
      BY <1>4, <2>1 DEF Holding
    <3> QED BY <2>1, <3>1
  <2> QED BY <2>1, <2>2 DEF Dropped
<1>5. \A i, j \in Rt : S[i].hold = S[j].hold /\ S[i].hold # "none" => i = j
  BY DEF Holding
<1> QED
  BY <1>2, <1>3, <1>4, <1>5 DEF Holding

\* What Send makes of the fates.
LEMMA SendFate ==
    ASSUME NEW R, Sane(R), NEW o, NEW p \in Packets, Outcome(R, o, p),
           NEW f \in [Packets -> Fates], Holding(R, f), f[p] = "new",
           NEW g, g = [q \in Packets |-> IF q \in o.freed THEN "dropped"
                                         ELSE IF q # p THEN f[q]
                                         ELSE IF o.mac = "none" THEN "held" ELSE "sent"]
    PROVE  g \in [Packets -> Fates] /\ Holding(o.R, g)
<1>1. CASE /\ o.freed = {p} \/ (o.freed = {} /\ o.mac # "none")
           /\ \A j \in Rt : o.R[j].hold = R[j].hold
  <2>1. g[p] \in {"sent", "dropped"} /\ \A q \in Packets : q # p => g[q] = f[q]
    BY <1>1
  <2>2. g \in [Packets -> Fates]
    BY DEF Fates
  <2>3. \A j \in Rt : R[j].hold \in Packets \cup {"none"}
    BY DEF Sane, RtEntry
  <2>4. Holding(R, g)
    <3>1. \A j \in Rt : R[j].hold # "none" => R[j].hold # p
      BY DEF Holding
    <3>2. \A j \in Rt : R[j].hold # "none" => g[R[j].hold] = "held"
      BY <2>1, <2>3, <3>1 DEF Holding
    <3>3. \A q \in Packets : g[q] = "held" => \E j \in Rt : R[j].hold = q
      BY <2>1 DEF Holding
    <3> QED BY <3>2, <3>3 DEF Holding
  <2> QED BY <1>1, <2>2, <2>4, HoldingSame
<1>2. CASE /\ o.mac = "none"
           /\ \E i \in Rt : /\ o.freed = {R[i].hold} \ {"none"} /\ o.R[i].hold = p
                            /\ \A j \in Rt : j # i => o.R[j].hold = R[j].hold
  <2>1. PICK i \in Rt : /\ o.freed = {R[i].hold} \ {"none"} /\ o.R[i].hold = p
                        /\ \A j \in Rt : j # i => o.R[j].hold = R[j].hold
    BY <1>2
  <2>2. \A q \in Packets : q \in o.freed <=> q = R[i].hold
    BY <2>1, ArpAssumption
  <2>3. g = [q \in Packets |-> IF q = R[i].hold THEN "dropped" ELSE IF q # p THEN f[q] ELSE "held"]
    BY <1>2, <2>2
  <2> QED BY <2>1, <2>3, HoldingTakes
<1> QED
  BY <1>1, <1>2 DEF Outcome

\* A packet is sent.
LEMMA SendInv ==
    ASSUME ArpInv, NEW c \in Caches, NEW p \in Packets, Send(c, p)
    PROVE  ArpInv'
<1> DEFINE a == SendRoute(rts, cache, c)
           k == a[2]
           d == DstOf[c]
           o == IF k = 0 THEN Out(a[1], "none", 0, {p}) ELSE ether_output(a[1], p, k, d)
<1>1. /\ fate[p] = "new" /\ rts' = o.R /\ cache' = [cache EXCEPT ![c] = k] /\ now' = now
      /\ fate' = [q \in Packets |-> IF q \in o.freed THEN "dropped"
                                    ELSE IF q # p THEN fate[q]
                                    ELSE IF o.mac = "none" THEN "held" ELSE "sent"]
  BY DEF Send, SendRoute
<1>2. /\ Sane(rts) /\ RefsExact(rts, UsersOf(rts, cache)) /\ Holding(rts, fate)
      /\ cache \in [Caches -> 0 .. RtMax] /\ fate \in [Packets -> Fates] /\ now \in Nat
  BY ArpParts
<1>3. SentVia(rts, cache, c, a, k) /\ CacheSet(cache, cache', c, k)
  BY <1>1 DEF CacheSet, SentVia
<1> HIDE DEF a, k
<1>4. /\ cache' \in [Caches -> 0 .. RtMax] /\ Sane(a[1]) /\ RefsExact(a[1], UsersOf(a[1], cache'))
      /\ \A j \in Rt : a[1][j].hold = rts[j].hold
      /\ k # 0 => k \in Rt /\ a[1][k].where = "table"
  BY <1>2, <1>3, SendRouteOK
<1>5. Outcome(a[1], o, p) /\ Sane(o.R) /\ RefsExact(o.R, UsersOf(o.R, cache'))
  <2>1. CASE k = 0
    <3>1. o.R = a[1] /\ o.freed = {p}
      BY <2>1 DEF Out
    <3> HIDE DEF o
    <3> QED BY <1>4, <3>1 DEF Outcome
  <2>2. CASE k # 0
    <3>1. o = ether_output(a[1], p, k, d)
      BY <2>2
    <3> HIDE DEF o, d
    <3> QED BY <1>2, <1>4, <2>2, <3>1, ether_outputOK
  <2> QED BY <2>1, <2>2
<1> HIDE DEF o
<1>6. Holding(a[1], fate)
  BY <1>2, <1>4, HoldingSame
<1>7. fate' \in [Packets -> Fates] /\ Holding(o.R, fate')
  BY <1>1, <1>2, <1>4, <1>5, <1>6, SendFate
<1> QED
  BY <1>1, <1>2, <1>4, <1>5, <1>7 DEF ArpInv, Fates

\* A socket lets go of its route.
LEMMA ReleaseInv ==
    ASSUME ArpInv, NEW c \in Caches, Release(c)
    PROVE  ArpInv'
<1>1. /\ cache[c] # 0 /\ rts' = rtfree(rts, cache[c]) /\ CacheSet(cache, cache', c, 0)
      /\ fate' = fate /\ now' = now
  BY DEF Release, CacheSet
<1>2. /\ Sane(rts) /\ RefsExact(rts, UsersOf(rts, cache)) /\ Holding(rts, fate)
      /\ cache \in [Caches -> 0 .. RtMax] /\ fate \in [Packets -> Fates] /\ now \in Nat
  BY ArpParts
<1>3. /\ cache' \in [Caches -> 0 .. RtMax] /\ Sane(rts') /\ RefsExact(rts', UsersOf(rts', cache'))
      /\ \A j \in Rt : rts'[j].hold = rts[j].hold
  BY <1>1, <1>2, DropCache
<1>4. Holding(rts', fate)
  BY <1>2, <1>3, HoldingSame
<1> QED
  BY <1>1, <1>2, <1>3, <1>4 DEF ArpInv, Fates

\* The route through the gateway uses nothing any more.
LEMMA UsersNoGw ==
    ASSUME NEW R, Sane(R), NEW C \in [Caches -> 0 .. RtMax], NEW S, S[GwRt].gwroute = 0, R[GwRt].gwroute # 0
    PROVE  LET g == R[GwRt].gwroute
               U == UsersOf(R, C)
           IN  g \in Rt /\ U[g] > 0 /\ UsersOf(S, C) = Minus(U, g)
<1> DEFINE g == R[GwRt].gwroute
           U == UsersOf(R, C)
<1>1. g \in Rt
  <2>1. R[GwRt] \in RtEntry
    BY RtIndex DEF Sane
  <2> QED BY <2>1, RtRange DEF RtEntry
<1>2. U[g] > 0
  BY <1>1, UsersGw
<1>3. \A i \in Rt : U[i] = UsersOf(S, C)[i] + (IF g = i THEN 1 ELSE 0)
  <2> TAKE i \in Rt
  <2>1. U[i] = Sockets(C, i) + (IF g = i THEN 1 ELSE 0) /\ UsersOf(S, C)[i] = Sockets(C, i) + 0
    BY RtIndex DEF UsersOf
  <2>2. UsersOf(S, C)[i] \in Nat
    BY UsersType
  <2>3. Sockets(C, i) \in Nat
    <3>1. {x \in Caches : C[x] = i} \subseteq Caches
      OBVIOUS
    <3> QED BY <3>1, ArpAssumption, FS_Subset, FS_CardinalityType DEF Sockets
  <2> QED BY <2>1, <2>3
<1>4. U \in [Rt -> Nat] /\ UsersOf(S, C) \in [Rt -> Nat]
  BY UsersType
<1> HIDE DEF U, g
<1>5. UsersOf(S, C) = Minus(U, g)
  <2>1. \A i \in Rt : UsersOf(S, C)[i] = IF g = i THEN U[i] - 1 ELSE U[i]
    BY <1>3, <1>4
  <2> QED BY <1>1, <1>4, <2>1 DEF Minus
<1> QED
  BY <1>1, <1>2, <1>5 DEF U, g

\* The route through the gateway is deleted.
LEMMA DeleteGwInv ==
    ASSUME ArpInv, DeleteGw
    PROVE  ArpInv'
<1> DEFINE U == UsersOf(rts, cache)
           g == rts[GwRt].gwroute
<1>1. rts[GwRt].where = "table" /\ rts' = rtdelete(rts, GwRt) /\ UNCHANGED <<cache, fate, now>>
  BY DEF DeleteGw
<1>2. /\ Sane(rts) /\ U \in [Rt -> Nat] /\ RefsExact(rts, U) /\ Holding(rts, fate)
      /\ cache \in [Caches -> 0 .. RtMax] /\ fate \in [Packets -> Fates] /\ now \in Nat
  BY ArpParts
<1>3. g # 0 => U[g] > 0
  BY <1>2, UsersNoGw, UsersGw, RtRange, RtIndex DEF Sane, RtEntry
<1>4. /\ Unlisted(rts, rts', GwRt)
      /\ g = 0 => RefsExact(rts', U)
      /\ g # 0 => RefsExact(rts', Minus(U, g))
  <2> HIDE DEF U
  <2> QED BY <1>1, <1>2, <1>3, RtIndex, rtdeleteOK DEF Minus
<1>5. /\ Sane(rts') /\ rts'[GwRt].gwroute = 0 /\ rts'[GwRt].hold = "none"
      /\ \A j \in Rt : j # GwRt => rts'[j].hold = rts[j].hold
  BY <1>4 DEF Unlisted
<1>6. rts[GwRt].hold = "none"
  <2>1. EntryOK(GwRt, rts[GwRt]) /\ ~ (GwRt > GwRt)
    BY <1>2, RtIndex DEF Sane, GwRt
  <2> QED BY <2>1 DEF EntryOK
<1>7. Holding(rts', fate)
  BY <1>2, <1>5, <1>6, HoldingSame
<1>8. RefsExact(rts', UsersOf(rts', cache))
  <2>1. CASE g = 0
    <3>1. UsersOf(rts', cache) = U
      BY <1>5, <2>1, UsersSame
    <3> QED BY <1>4, <2>1, <3>1
  <2>2. CASE g # 0
    <3>1. UsersOf(rts', cache) = Minus(U, g)
      BY <1>2, <1>5, <2>2, UsersNoGw
    <3> QED BY <1>4, <2>2, <3>1
  <2> QED BY <2>1, <2>2
<1> QED
  BY <1>1, <1>2, <1>5, <1>7, <1>8 DEF ArpInv, Fates

\* The route through the gateway is added again.
LEMMA AddGwInv ==
    ASSUME ArpInv, AddGw
    PROVE  ArpInv'
<1> DEFINE U == UsersOf(rts, cache)
           x == [FreeRt EXCEPT !.where = "table"]
           r == [x EXCEPT !.dst = "default"]
           R == [rts EXCEPT ![GwRt] = r]
           rep == TRUE
           a == rtalloc1(R, Gateway, rep)
           k == a[2]
<1>1. rts[GwRt].where = "free" /\ GwSet(a[1], rts', k) /\ UNCHANGED <<cache, fate, now>>
  BY DEF AddGw, GwSet
<1>2. /\ Sane(rts) /\ U \in [Rt -> Nat] /\ RefsExact(rts, U) /\ Holding(rts, fate)
      /\ cache \in [Caches -> 0 .. RtMax] /\ fate \in [Packets -> Fates] /\ now \in Nat
  BY ArpParts
<1>3. EntryOK(GwRt, rts[GwRt]) /\ rts[GwRt] = FreeRt /\ ExactAt(rts[GwRt], U[GwRt])
  BY <1>1, <1>2, RtIndex DEF Sane, EntryOK, RefsExact
<1>4. U[GwRt] = 0
  BY <1>1, <1>3 DEF ExactAt
<1>5. /\ r \in RtEntry /\ r.where = "table" /\ r.dst = "default" /\ r.ref = 0 /\ r.gwroute = 0
      /\ r.ll = FALSE /\ r.hold = "none"
  <2>1. r \in RtEntry
    <3>1. x \in RtEntry
      BY FreeRtOK, RtFields
    <3> HIDE DEF x
    <3> QED BY <3>1, RtFields
  <2> QED BY <2>1 DEF FreeRt
<1> HIDE DEF r, U
<1>6. EntryOK(GwRt, r) /\ ExactAt(r, U[GwRt])
  BY <1>4, <1>5, RtIndex DEF EntryOK, ExactAt
<1>7. Sane(R)
  <2>1. \A j \in Rt : j # GwRt /\ rts[j].where = "table" => rts[j].dst # r.dst
    BY <1>2, <1>5 DEF Sane, EntryOK
  <2> QED BY <1>2, <1>6, <2>1, RtIndex, UpdSane
<1>8. RefsExact(R, U)
  <2>1. RefsExact(R, [U EXCEPT ![GwRt] = U[GwRt]])
    BY <1>2, <1>6, RtIndex, UpdExact
  <2>2. [U EXCEPT ![GwRt] = U[GwRt]] = U
    BY <1>2
  <2> QED BY <2>1, <2>2, Zenon
<1>9. R[GwRt] = r /\ \A j \in Rt : j # GwRt => R[j] = rts[j]
  BY <1>2, RtIndex DEF Sane
<1> HIDE DEF R
<1>10. R[GwRt].gwroute = 0 /\ R[GwRt].where = "table" /\ \A j \in Rt : R[j].hold = rts[j].hold
  BY <1>3, <1>5, <1>9, FreeRtOK
<1>11. UsersOf(R, cache) = U
  BY <1>3, <1>10, FreeRtOK, UsersSame DEF U
<1>12. Gateway \in Neighbours
  BY ArpAssumption
<1> HIDE DEF rep
<1>13. k \in Rt /\ k # GwRt /\ More(R, U, a[1], k)
  BY <1>2, <1>7, <1>8, <1>12, rtalloc1OK
<1> HIDE DEF a, k
<1>14. rts'[GwRt].gwroute = k
  <2>1. a[1] \in [Rt -> RtEntry] /\ a[1][GwRt] \in RtEntry
    BY <1>13, RtIndex DEF More, Sane
  <2> QED BY <1>1, <2>1, RtIndex DEF RtEntry, GwSet
<1>15. UsersOf(rts', cache) = Plus(U, k)
  BY <1>2, <1>7, <1>10, <1>11, <1>13, <1>14, UsersGw
<1>16. Sane(rts') /\ RefsExact(rts', UsersOf(rts', cache)) /\ \A j \in Rt : rts'[j].hold = R[j].hold
  BY <1>1, <1>2, <1>7, <1>10, <1>13, <1>15, TakeGw
<1>17. Holding(rts', fate)
  BY <1>2, <1>10, <1>16, HoldingSame
<1> QED
  BY <1>1, <1>2, <1>16, <1>17 DEF ArpInv, Fates

\* The entries that are due, one by one.
LEMMA arptimerInv ==
    ASSUME ArpInv, arptimer
    PROVE  ArpInv'
<1> DEFINE U == UsersOf(rts, cache)
           E == ArpDue(rts)
<1>1. /\ rts' = [i \in DOMAIN rts |-> IF i \in E THEN arptfree(rts, i)[i] ELSE rts[i]]
      /\ fate' = [p \in Packets |-> IF \E i \in E : rts[i].hold = p /\ rts'[i].hold # p
                                    THEN "dropped" ELSE fate[p]]
      /\ UNCHANGED <<cache, now>>
  BY DEF arptimer
<1>2. /\ Sane(rts) /\ rts \in [Rt -> RtEntry] /\ U \in [Rt -> Nat] /\ RefsExact(rts, U) /\ Holding(rts, fate)
      /\ cache \in [Caches -> 0 .. RtMax] /\ fate \in [Packets -> Fates] /\ now \in Nat
  BY ArpParts
<1>3. E \subseteq Rt /\ \A i \in E : rts[i].ll
  BY <1>2 DEF ArpDue
<1> HIDE DEF U, E
<1>4. ASSUME NEW i \in E
      PROVE  /\ EntryOK(i, rts'[i]) /\ ExactAt(rts'[i], U[i])
             /\ rts'[i].hold = rts[i].hold \/ rts'[i].hold = "none"
             /\ rts'[i].where = "table" => rts[i].where = "table" /\ rts'[i].dst = rts[i].dst
  <2> DEFINE S == arptfree(rts, i)
  <2>1. i \in Rt /\ rts[i].ll /\ rts'[i] = S[i]
    BY <1>1, <1>2, <1>3
  <2>2. /\ Sane(S) /\ RefsExact(S, U)
        /\ S[i].hold = (IF rts[i].ref > 0 THEN rts[i].hold ELSE "none")
        /\ S[i].where = "table" => S[i].dst = rts[i].dst
    BY <1>2, <2>1, arptfreeOK
  <2> HIDE DEF S
  <2>3. rts[i].where = "table"
    BY <1>2, <2>1 DEF Sane, EntryOK
  <2> QED BY <2>1, <2>2, <2>3 DEF Sane, RefsExact
<1>5. ASSUME NEW i \in Rt, i \notin E
      PROVE  rts'[i] = rts[i]
  BY <1>1, <1>2, <1>5
<1>6. rts' \in [Rt -> RtEntry]
  <2>1. \A i \in Rt : rts'[i] \in RtEntry
    BY <1>2, <1>4, <1>5 DEF EntryOK
  <2>2. rts' = [i \in Rt |-> rts'[i]]
    BY <1>1, <1>2
  <2> QED BY <2>1, <2>2
<1>7. Sane(rts')
  <2>1. \A i \in Rt : EntryOK(i, rts'[i])
    BY <1>2, <1>4, <1>5 DEF Sane
  <2>2. \A i \in Rt : rts'[i].where = "table" => rts[i].where = "table" /\ rts'[i].dst = rts[i].dst
    BY <1>4, <1>5
  <2>3. OneRoute(rts')
    BY <1>2, <2>2 DEF Sane, OneRoute
  <2> QED BY <1>6, <2>1, <2>3 DEF Sane
<1>8. RefsExact(rts', U)
  BY <1>2, <1>4, <1>5 DEF RefsExact
<1>9. rts'[GwRt].gwroute = rts[GwRt].gwroute
  <2>1. EntryOK(GwRt, rts[GwRt]) /\ ~ (GwRt > GwRt)
    BY <1>2, RtIndex DEF Sane, GwRt
  <2>2. GwRt \notin E
    BY <1>3, <2>1 DEF EntryOK
  <2> QED BY <1>5, <2>2, RtIndex
<1>10. \A j \in Rt : rts'[j].hold = rts[j].hold \/ rts'[j].hold = "none"
  BY <1>4, <1>5
<1>11. Dropped(rts, rts', fate, fate')
  <2>2. fate' \in [Packets -> Fates]
    BY <1>1, <1>2 DEF Fates
  <2>3. \A p \in Packets : fate'[p] = IF \E i \in E : rts[i].hold = p /\ rts'[i].hold # p
                                      THEN "dropped" ELSE fate[p]
    BY <1>1
  <2>1. \A p \in Packets : (\E i \in E : rts[i].hold = p /\ rts'[i].hold # p)
                           <=> (\E i \in Rt : rts[i].hold = p /\ rts'[i].hold # p)
    BY <1>3, <1>5
  <2> QED BY <2>1, <2>2, <2>3 DEF Dropped
<1>12. fate' \in [Packets -> Fates] /\ Holding(rts', fate')
  BY <1>2, <1>10, <1>11, HoldingLets
<1> QED
  BY <1>1, <1>7, <1>8, <1>9, <1>12, SameUsers DEF U

\* The entry for d is replaced by one with the given address.
LEMMA SIOCSARPInv ==
    ASSUME ArpInv, NEW d \in Neighbours, NEW mac \in Macs, NEW perm \in BOOLEAN, SIOCSARP(d, mac, perm)
    PROVE  ArpInv'
<1> DEFINE U == UsersOf(rts, cache)
           old == InTable(rts, d)
           x == CHOOSE i \in old : TRUE
           R == IF old = {} THEN rts ELSE rtdelete(rts, x)
           cl == Clone(R, d)
           i == cl[2]
           L == cl[1]
           t == IF perm THEN 0 ELSE now + arpt_keep
           q == L[i]
           b == [q EXCEPT !.mac = mac]
           c == [b EXCEPT !.ref = 0]
           r == [c EXCEPT !.expire = t]
<1>1. /\ Room(rts) # {}
      /\ rts' = [L EXCEPT ![i] = r]
      /\ fate' = [p \in Packets |-> IF \E j \in old : rts[j].hold = p THEN "dropped" ELSE fate[p]]
      /\ UNCHANGED <<cache, now>>
  BY DEF SIOCSARP
<1>2. /\ Sane(rts) /\ rts \in [Rt -> RtEntry] /\ U \in [Rt -> Nat] /\ RefsExact(rts, U) /\ Holding(rts, fate)
      /\ cache \in [Caches -> 0 .. RtMax] /\ fate \in [Packets -> Fates] /\ now \in Nat
  BY ArpParts
<1>3. DOMAIN rts = Rt /\ \A j \in old : j \in Rt /\ rts[j].where = "table" /\ rts[j].dst = d /\ j = x
  <2>1. DOMAIN rts = Rt
    BY <1>2
  <2>2. \A j \in old : j \in Rt /\ rts[j].where = "table" /\ rts[j].dst = d /\ x \in old
    BY <2>1 DEF InTable
  <2> HIDE DEF x, old
  <2> QED BY <1>2, <2>1, <2>2 DEF Sane, OneRoute
<1>4. old # {} => x \in old
  OBVIOUS
<1> HIDE DEF U, old, x
<1>5. /\ Sane(R) /\ RefsExact(R, U) /\ R[GwRt].gwroute = rts[GwRt].gwroute
      /\ InTable(R, d) = {} /\ Room(R) # {} /\ DOMAIN R = Rt
      /\ \A j \in Rt : j \notin old => R[j] = rts[j]
      /\ \A j \in old : R[j].hold = "none"
  <2>1. CASE old = {}
    BY <1>1, <1>2, <1>3, <2>1 DEF old
  <2>2. CASE old # {}
    <3>1. x \in Rt /\ rts[x].where = "table" /\ rts[x].dst = d /\ R = rtdelete(rts, x)
      BY <1>3, <1>4, <2>2
    <3>2. x # NetRt /\ x # GwRt /\ rts[x].gwroute = 0
      <4>1. d # "net" /\ d # "default"
        BY ArpAssumption
      <4> QED BY <1>2, <3>1, <4>1 DEF Sane, EntryOK
    <3> HIDE DEF R
    <3>3. Unlisted(rts, R, x) /\ RefsExact(R, U) /\ \A j \in Rt : j # x => R[j] = rts[j]
      BY <1>2, <3>1, <3>2, rtdeleteOK
    <3>4. Sane(R) /\ R[x].where # "table" /\ R[x].hold = "none" /\ DOMAIN R = Rt
      BY <3>3 DEF Unlisted, Sane
    <3>5. old = {x}
      BY <1>3, <1>4, <2>2
    <3>6. InTable(R, d) = {}
      <4>1. \A j \in Rt : rts[j].where = "table" /\ rts[j].dst = d => j = x
        BY <1>2, <3>1 DEF Sane, OneRoute
      <4> QED BY <3>3, <3>4, <4>1 DEF InTable
    <3>7. Room(R) # {}
      <4>1. PICK j \in Room(rts) : TRUE
        BY <1>1
      <4>2. j \in Rt /\ j > GwRt /\ rts[j].where = "free"
        BY <1>3, <4>1 DEF Room
      <4>3. R[j].where = "free"
        BY <3>1, <3>3, <4>2
      <4> QED BY <3>4, <4>2, <4>3 DEF Room
    <3>8. R[GwRt].gwroute = rts[GwRt].gwroute
      BY <3>2, <3>3, RtIndex
    <3> QED BY <3>3, <3>4, <3>5, <3>6, <3>7, <3>8
  <2> QED BY <2>1, <2>2
<1> HIDE DEF R
<1>6. /\ i \in Rt /\ i > GwRt /\ R[i].where = "free" /\ More(R, U, L, i)
      /\ L[i].where = "table" /\ L[i].dst = d /\ L[i].hold = "none"
  BY <1>2, <1>5, CloneOK
<1> HIDE DEF cl, i, L
<1>7. Sane(L) /\ L \in [Rt -> RtEntry] /\ RefsExact(L, Plus(U, i)) /\ Keeps(R, L)
  BY <1>6 DEF More, Sane, Plus
<1>8. q \in RtEntry /\ EntryOK(i, q) /\ q.where = "table" /\ q.hold = "none" /\ i # GwRt /\ U[i] = 0
  <2>1. U[i] = 0
    BY <1>5, <1>6 DEF RefsExact, ExactAt
  <2> QED BY <1>6, <1>7, <2>1 DEF Sane, GwRt
<1>9. t \in Nat
  BY <1>2, ArpAssumption
<1> HIDE DEF q, t
<1>10. /\ r \in RtEntry /\ r.ref = 0
       /\ r.where = q.where /\ r.dst = q.dst /\ r.gwroute = q.gwroute /\ r.ll = q.ll /\ r.hold = q.hold
  <2>1. r.ref = 0 /\ r.where = q.where /\ r.dst = q.dst /\ r.gwroute = q.gwroute /\ r.ll = q.ll /\ r.hold = q.hold
    BY <1>8 DEF RtEntry
  <2>2. b \in RtEntry
    BY <1>8 DEF RtEntry
  <2> HIDE DEF b
  <2>3. c \in RtEntry
    BY <2>2 DEF RtEntry
  <2> HIDE DEF c
  <2>4. r \in RtEntry
    BY <1>9, <2>3 DEF RtEntry
  <2> QED BY <2>1, <2>4 DEF b, c
<1> HIDE DEF r
<1>11. EntryOK(i, r) /\ ExactAt(r, 0)
  BY <1>8, <1>10 DEF EntryOK, ExactAt
<1>12. Sane(rts')
  <2>1. Sane([L EXCEPT ![i] = r])
    BY <1>6, <1>7, <1>8, <1>10, <1>11, UpdSame DEF q
  <2> QED BY <1>1, <2>1, Zenon
<1>13. RefsExact(rts', U)
  <2> DEFINE V == Plus(U, i)
  <2>1. V \in [Rt -> Nat] /\ [V EXCEPT ![i] = 0] = U
    <3>1. V \in [Rt -> Nat] /\ \A j \in Rt : j # i => V[j] = U[j]
      BY <1>2, <1>6 DEF Plus
    <3> HIDE DEF V
    <3> QED BY <1>2, <1>6, <1>8, <3>1
  <2> HIDE DEF V
  <2>2. RefsExact([L EXCEPT ![i] = r], [V EXCEPT ![i] = 0])
    BY <1>6, <1>7, <1>11, <2>1, UpdExact DEF V
  <2> QED BY <1>1, <2>1, <2>2, Zenon
<1>14. rts'[i] = r /\ \A j \in Rt : j # i => rts'[j] = L[j]
  BY <1>1, <1>6, <1>7
<1>15. rts'[GwRt].gwroute = rts[GwRt].gwroute
  BY <1>5, <1>7, <1>8, <1>14, RtIndex DEF Keeps
<1>16. \A j \in Rt : rts'[j].hold = R[j].hold
  <2>1. R[i].hold = "none"
    BY <1>6, <1>7 DEF Keeps
  <2> QED BY <1>7, <1>8, <1>10, <1>14, <2>1 DEF Keeps
<1>17. \A j \in Rt : rts'[j].hold = IF j \in old THEN "none" ELSE rts[j].hold
  BY <1>5, <1>16
<1>18. Dropped(rts, rts', fate, fate')
  <2>1. fate' \in [Packets -> Fates]
    BY <1>1, <1>2 DEF Fates
  <2>2. ASSUME NEW p \in Packets
        PROVE  (\E j \in old : rts[j].hold = p) <=> (\E j \in Rt : rts[j].hold = p /\ rts'[j].hold # p)
    <3>1. p # "none"
      BY ArpAssumption
    <3> QED BY <1>3, <1>17, <3>1
  <2>3. \A p \in Packets : fate'[p] = IF \E j \in old : rts[j].hold = p THEN "dropped" ELSE fate[p]
    BY <1>1
  <2> QED BY <2>1, <2>2, <2>3 DEF Dropped
<1>19. fate' \in [Packets -> Fates] /\ Holding(rts', fate')
  BY <1>2, <1>17, <1>18, HoldingLets
<1> QED
  BY <1>1, <1>12, <1>13, <1>15, <1>19, SameUsers DEF U

-----------------------------------------------------------------------------
(***************************************************************************)
(* The theorems.                                                           *)
(***************************************************************************)
\* The host starts with the route of its network, which nobody uses.
LEMMA ArpInitInv == ArpInit => ArpInv
<1> SUFFICES ASSUME ArpInit PROVE ArpInv
  OBVIOUS
<1> DEFINE a == [FreeRt EXCEPT !.where = "table"]
           b == [a EXCEPT !.dst = "net"]
           r == [b EXCEPT !.expire = 1]
<1>1. /\ rts = [i \in Rt |-> IF i = NetRt THEN r ELSE FreeRt]
      /\ cache = [c \in Caches |-> 0] /\ fate = [p \in Packets |-> "new"] /\ now = 1
  BY DEF ArpInit, Rt
<1>2. /\ r \in RtEntry /\ r.where = "table" /\ r.dst = "net" /\ r.ref = 0 /\ r.gwroute = 0
      /\ r.ll = FALSE /\ r.hold = "none"
  <2>1. r.where = "table" /\ r.dst = "net" /\ r.ref = 0 /\ r.gwroute = 0 /\ r.ll = FALSE /\ r.hold = "none"
    BY DEF FreeRt
  <2>2. a \in RtEntry
    BY FreeRtOK, RtFields
  <2> HIDE DEF a
  <2>3. b \in RtEntry
    BY <2>2, RtFields
  <2> HIDE DEF b
  <2>4. r \in RtEntry
    BY <2>3, RtFields
  <2> QED BY <2>1, <2>4 DEF a, b
<1> HIDE DEF r
<1>3. rts \in [Rt -> RtEntry] /\ rts[NetRt] = r /\ \A i \in Rt : i # NetRt => rts[i] = FreeRt
  BY <1>1, <1>2, FreeRtOK, RtIndex
<1>4. EntryOK(NetRt, r)
  BY <1>2, RtIndex DEF EntryOK
<1>5. Sane(rts)
  BY <1>3, <1>4, FreeRtOK DEF Sane, OneRoute
<1>6. rts[GwRt].gwroute = 0 /\ cache \in [Caches -> 0 .. RtMax]
  BY <1>1, <1>3, FreeRtOK, RtIndex, RtRange
<1>7. \A i \in Rt : UsersOf(rts, cache)[i] = 0
  <2> TAKE i \in Rt
  <2>1. {c \in Caches : cache[c] = i} = {}
    BY <1>1, RtIndex
  <2>2. Sockets(cache, i) = 0
    BY <2>1, FS_EmptySet DEF Sockets
  <2>3. UsersOf(rts, cache)[i] = 0 + 0
    BY <1>6, <2>2, RtIndex DEF UsersOf
  <2> QED BY <2>3
<1>8. RefsExact(rts, UsersOf(rts, cache))
  BY <1>2, <1>3, <1>7, FreeRtOK DEF RefsExact, ExactAt
<1>9. Holding(rts, fate)
  <2>1. \A i \in Rt : rts[i].hold = "none"
    BY <1>2, <1>3, FreeRtOK
  <2> QED BY <1>1, <2>1 DEF Holding
<1> QED
  BY <1>1, <1>5, <1>6, <1>8, <1>9 DEF ArpInv

\* Every step keeps the invariant.
LEMMA ArpNextInv == ArpInv /\ [ArpNext]_arpVars => ArpInv'
<1> SUFFICES ASSUME ArpInv, [ArpNext]_arpVars PROVE ArpInv'
  OBVIOUS
<1>1. ASSUME NEW c \in Caches, NEW p \in Packets, Send(c, p) PROVE ArpInv'
  BY <1>1, SendInv
<1>2. ASSUME NEW d \in Neighbours, NEW mac \in Macs, NEW me \in BOOLEAN, in_arpinput(d, mac, me) PROVE ArpInv'
  BY <1>2, in_arpinputInv
<1>3. ASSUME NEW d \in Neighbours, SIOCDARP(d) PROVE ArpInv'
  BY <1>3, SIOCDARPInv
<1>4. ASSUME NEW d \in Neighbours, NEW mac \in Macs, NEW perm \in BOOLEAN, SIOCSARP(d, mac, perm) PROVE ArpInv'
  BY <1>4, SIOCSARPInv
<1>5. ASSUME NEW c \in Caches, Release(c) PROVE ArpInv'
  BY <1>5, ReleaseInv
<1>6. CASE arptimer
  BY <1>6, arptimerInv
<1>7. CASE DeleteGw
  BY <1>7, DeleteGwInv
<1>8. CASE AddGw
  BY <1>8, AddGwInv
<1>9. CASE Tick
  <2>1. now' \in Nat /\ UNCHANGED <<rts, cache, fate>>
    BY <1>9 DEF Tick, ArpInv
  <2> QED BY <2>1 DEF ArpInv, UsersOf, Sockets, RefsExact, Holding, Sane, OneRoute
<1>10. CASE UNCHANGED arpVars
  BY <1>10 DEF ArpInv, arpVars, UsersOf, Sockets, RefsExact, Holding, Sane, OneRoute
<1> QED
  BY <1>1, <1>2, <1>3, <1>4, <1>5, <1>6, <1>7, <1>8, <1>9, <1>10 DEF ArpNext

\* The count of every routing entry is the number of those who use it, however
\* routes are looked up, cloned, deleted, added and timed out (route.c,
\* if_ether.c, ether_output).
THEOREM RefcountsAlwaysExact == ArpSpec => []RefcountsExact
<1>1. ArpInv => RefcountsExact
  <2> SUFFICES ASSUME ArpInv, NEW i \in 1 .. RtMax
               PROVE  IF rts[i].where = "free" THEN Users(i) = 0
                      ELSE rts[i].ref = Users(i) /\ (rts[i].where = "deleted" => Users(i) > 0)
    BY DEF RefcountsExact
  <2>1. Sane(rts) /\ RefsExact(rts, UsersOf(rts, cache)) /\ i \in Rt
    BY DEF ArpInv, Rt
  <2>2. Users(i) = UsersOf(rts, cache)[i]
    BY <2>1, UsersAre DEF Users
  <2> QED BY <2>1, <2>2 DEF RefsExact, ExactAt
<1> QED
  BY <1>1, ArpInitInv, ArpNextInv, PTL DEF ArpSpec

\* A packet that waits for an address waits in exactly one entry, and one that
\* was sent or dropped is in none (arpresolve, in_arpinput, arptfree).
THEOREM PacketsHeldOnce == ArpSpec => []HeldOnce
<1>1. ArpInv => HeldOnce
  BY HeldOnceIs DEF ArpInv, Fates
<1> QED
  BY <1>1, ArpInitInv, ArpNextInv, PTL DEF ArpSpec

-----------------------------------------------------------------------------
(***************************************************************************)
(* The UDP control blocks.                                                 *)
(***************************************************************************)
Pcb == [on : BOOLEAN, laddr : Laddrs \cup {ANY}, lport : Ports \cup {0},
        faddr : Faddrs \cup {ANY}, fport : {0, Fport}]

\* The list q has exactly the blocks of P that are attached, each once.
ListOK(q, P) ==
    /\ q \in Seq(UdpSocks) /\ NoDup(q)
    /\ \A s \in UdpSocks : Member(q, s) <=> P[s].on

\* Each bucket of h has exactly the attached blocks that belong there.
Buckets == 0 .. HashSize - 1
BucketOK(q, b, P) ==
    /\ q \in Seq(UdpSocks) /\ NoDup(q)
    /\ \A s \in UdpSocks : Member(q, s) <=> P[s].on /\ BucketOf(P[s]) = b

HashOK(h, P) == DOMAIN h = Buckets /\ h = [b \in Buckets |-> h[b]] /\ \A b \in Buckets : BucketOK(h[b], b, P)

\* A block with an address has a port.
PortOK(c) == c.laddr # ANY \/ c.faddr # ANY => c.lport # 0

UdpInv ==
    /\ pcb \in [UdpSocks -> Pcb] /\ lastport \in Ports
    /\ \A s \in UdpSocks : PortOK(pcb[s])
    /\ ListOK(udb, pcb)
    /\ HashOK(hash, pcb)
    /\ last = "none" \/ last \in Attached
    /\ DatagramsRouted

-----------------------------------------------------------------------------
(***************************************************************************)
(* The hash table.                                                         *)
(***************************************************************************)
\* Every block belongs to a bucket.
LEMMA BucketIn ==
    ASSUME NEW f, NEW l \in Nat, NEW p \in Nat
    PROVE  Bucket(f, l, p) \in Buckets
<1>1. HashSize \in Nat \ {0}
  BY UdpAssumption
<1>2. \A x \in Nat : x % HashSize \in 0 .. HashSize - 1
  BY <1>1
<1>3. l + p + (IF f = ANY THEN 0 ELSE 1) \in Nat
  OBVIOUS
<1> QED
  BY <1>2, <1>3 DEF Bucket, Buckets

\* The same for the addresses of a block.
LEMMA BucketOfIn ==
    ASSUME NEW c \in Pcb
    PROVE  BucketOf(c) \in Buckets
<1>1. c.lport \in Nat /\ c.fport \in Nat
  BY UdpAssumption DEF Pcb, Ports
<1> QED
  BY <1>1, BucketIn DEF BucketOf

\* The buckets without s.
LEMMA UnhashedOK ==
    ASSUME NEW h, NEW P, HashOK(h, P), NEW s
    PROVE  LET g == Unhashed(h, s) IN
           /\ DOMAIN g = Buckets /\ g = [b \in Buckets |-> g[b]]
           /\ \A b \in Buckets : /\ g[b] \in Seq(UdpSocks) /\ NoDup(g[b])
                                 /\ \A x : Member(g[b], x) <=> Member(h[b], x) /\ x # s
<1> DEFINE g == Unhashed(h, s)
<1>1. g = [b \in Buckets |-> RemoveFirst(h[b], s)]
  BY DEF Unhashed, HashOK
<1>2. DOMAIN g = Buckets /\ g = [b \in Buckets |-> g[b]] /\ \A b \in Buckets : g[b] = RemoveFirst(h[b], s)
  BY <1>1
<1> HIDE DEF g
<1>3. \A b \in Buckets : h[b] \in Seq(UdpSocks) /\ NoDup(h[b])
  BY DEF HashOK, BucketOK
<1> QED
  BY <1>2, <1>3, RemoveOK DEF g

\* in_pcbrehash: s is in the bucket of its new addresses, and in no other.
LEMMA RehashOK ==
    ASSUME NEW h, NEW P \in [UdpSocks -> Pcb], HashOK(h, P), NEW s \in UdpSocks, NEW c \in Pcb, c.on,
           NEW Q, Q = [P EXCEPT ![s] = c], NEW k, k = in_pcbrehash(h, s, c)
    PROVE  HashOK(k, Q)
<1> DEFINE g == Unhashed(h, s)
           d == BucketOf(c)
<1>1. /\ DOMAIN g = Buckets /\ g = [b \in Buckets |-> g[b]]
      /\ \A b \in Buckets : /\ g[b] \in Seq(UdpSocks) /\ NoDup(g[b])
                            /\ \A x : Member(g[b], x) <=> Member(h[b], x) /\ x # s
  BY UnhashedOK
<1>2. d \in Buckets
  BY BucketOfIn
<1>3. k = [g EXCEPT ![d] = <<s>> \o g[d]]
  BY DEF in_pcbrehash
<1> HIDE DEF g, d
<1>4. /\ DOMAIN k = Buckets /\ k = [b \in Buckets |-> k[b]]
      /\ k[d] = <<s>> \o g[d] /\ \A b \in Buckets : b # d => k[b] = g[b]
  BY <1>1, <1>2, <1>3
<1>5. /\ Q[s] = c /\ \A t \in UdpSocks : t # s => Q[t] = P[t]
  OBVIOUS
<1>6. \A b \in Buckets : \A t \in UdpSocks : Member(h[b], t) <=> P[t].on /\ BucketOf(P[t]) = b
  BY DEF HashOK, BucketOK
<1>7. ASSUME NEW b \in Buckets PROVE BucketOK(k[b], b, Q)
  <2>1. CASE b = d
    <3>1. ~Member(g[d], s)
      BY <1>1, <1>2
    <3> DEFINE q == g[d]
    <3>4. q \in Seq(UdpSocks) /\ NoDup(q) /\ ~Member(q, s) /\ k[d] = <<s>> \o q
      BY <1>1, <1>2, <1>4, <3>1
    <3> HIDE DEF q
    <3>5. k[d] \in Seq(UdpSocks) /\ NoDup(k[d]) /\ \A x : Member(k[d], x) <=> Member(q, x) \/ x = s
      BY <3>4, PrependOK
    <3>2. k[d] \in Seq(UdpSocks) /\ NoDup(k[d]) /\ \A x : Member(k[d], x) <=> Member(g[d], x) \/ x = s
      BY <3>5 DEF q
    <3>3. ASSUME NEW t \in UdpSocks PROVE Member(k[d], t) <=> Q[t].on /\ BucketOf(Q[t]) = d
      <4>1. CASE t = s
        BY <1>5, <3>2, <4>1 DEF d
      <4>2. CASE t # s
        BY <1>1, <1>2, <1>5, <1>6, <3>2, <4>2
      <4> QED BY <4>1, <4>2
    <3> QED BY <2>1, <3>2, <3>3 DEF BucketOK
  <2>2. CASE b # d
    <3>1. k[b] \in Seq(UdpSocks) /\ NoDup(k[b]) /\ \A x : Member(k[b], x) <=> Member(h[b], x) /\ x # s
      BY <1>1, <1>4, <2>2
    <3>2. ASSUME NEW t \in UdpSocks PROVE Member(k[b], t) <=> Q[t].on /\ BucketOf(Q[t]) = b
      <4>1. CASE t = s
        BY <1>5, <2>2, <3>1, <4>1 DEF d
      <4>2. CASE t # s
        BY <1>5, <1>6, <3>1, <4>2
      <4> QED BY <4>1, <4>2
    <3> QED BY <3>1, <3>2 DEF BucketOK
  <2> QED BY <2>1, <2>2
<1> QED
  BY <1>4, <1>7 DEF HashOK

\* Moving a block to the front of its bucket: the buckets k are those of h with
\* block s in front of its bucket b.
InFront(h, b, s, k) == k = [h EXCEPT ![b] = <<s>> \o RemoveFirst(@, s)]

LEMMA FrontOK ==
    ASSUME NEW h, NEW P, HashOK(h, P), NEW b \in Buckets, NEW s \in UdpSocks, Member(h[b], s),
           NEW k, InFront(h, b, s, k)
    PROVE  HashOK(k, P)
<1> DEFINE q == RemoveFirst(h[b], s)
<1>1. h[b] \in Seq(UdpSocks) /\ NoDup(h[b])
  BY DEF HashOK, BucketOK
<1>2. q \in Seq(UdpSocks) /\ NoDup(q) /\ \A x : Member(q, x) <=> Member(h[b], x) /\ x # s
  BY <1>1, RemoveOK
<1>3. k = [h EXCEPT ![b] = <<s>> \o q]
  BY DEF InFront
<1> HIDE DEF q
<1>4. /\ DOMAIN k = Buckets /\ k = [c \in Buckets |-> k[c]]
      /\ k[b] = <<s>> \o q /\ \A c \in Buckets : c # b => k[c] = h[c]
  BY <1>3 DEF HashOK
<1>5. ~Member(q, s)
  BY <1>2
<1>6. k[b] \in Seq(UdpSocks) /\ NoDup(k[b]) /\ \A x : Member(k[b], x) <=> Member(q, x) \/ x = s
  <2>1. q \in Seq(UdpSocks) /\ NoDup(q) /\ k[b] = <<s>> \o q
    BY <1>2, <1>4
  <2> DEFINE p == <<s>> \o q
  <2>2. p \in Seq(UdpSocks) /\ NoDup(p) /\ \A x : Member(p, x) <=> Member(q, x) \/ x = s
    BY <2>1, <1>5, PrependOK
  <2> HIDE DEF p
  <2> QED BY <2>1, <2>2 DEF p
<1>7. \A x : Member(k[b], x) <=> Member(h[b], x)
  BY <1>2, <1>6
<1>8. BucketOK(k[b], b, P)
  BY <1>6, <1>7 DEF HashOK, BucketOK
<1> QED
  BY <1>4, <1>8 DEF HashOK

\* The blocks that fit a pair of addresses and ports, as Best chooses from them.
Fits(f, fp, l, lp) == {s \in Attached : Exact(pcb[s], f, fp, l, lp)}

\* The blocks that fit are those that fit in their bucket.
LEMMA InBucketIs ==
    ASSUME pcb \in [UdpSocks -> Pcb], HashOK(hash, pcb), NEW f, NEW fp \in Nat, NEW l, NEW lp \in Nat,
           NEW b, b = Bucket(f, lp, fp)
    PROVE  LET I == InBucket(hash, b, f, fp, l, lp) IN
           /\ b \in Buckets /\ I \in SUBSET (1 .. Len(hash[b])) /\ Len(hash[b]) \in Nat
           /\ \A i \in I : hash[b][i] \in Fits(f, fp, l, lp) /\ Member(hash[b], hash[b][i])
           /\ I = {} => Fits(f, fp, l, lp) = {}
<1> DEFINE I == InBucket(hash, b, f, fp, l, lp)
           q == hash[b]
<1>1. b \in Buckets
  BY BucketIn
<1>2. q \in Seq(UdpSocks) /\ \A s \in UdpSocks : Member(q, s) <=> pcb[s].on /\ BucketOf(pcb[s]) = b
  BY <1>1 DEF HashOK, BucketOK
<1> HIDE DEF q
<1>3. Len(q) \in Nat /\ DOMAIN q = 1 .. Len(q) /\ \A i \in 1 .. Len(q) : q[i] \in UdpSocks
  BY <1>2
<1>4. I = {i \in 1 .. Len(q) : Exact(pcb[q[i]], f, fp, l, lp)}
  BY <1>3 DEF InBucket, q
<1> HIDE DEF I
<1>5. ASSUME NEW i \in I PROVE q[i] \in Fits(f, fp, l, lp) /\ Member(q, q[i])
  <2>1. i \in 1 .. Len(q) /\ Exact(pcb[q[i]], f, fp, l, lp) /\ q[i] \in UdpSocks
    BY <1>3, <1>4, <1>5
  <2>2. Member(q, q[i])
    BY <2>1 DEF Member
  <2> QED BY <1>2, <2>1, <2>2 DEF Fits, Attached
<1>6. ASSUME NEW s \in Fits(f, fp, l, lp) PROVE I # {}
  <2>1. s \in UdpSocks /\ pcb[s].on /\ Exact(pcb[s], f, fp, l, lp)
    BY <1>6 DEF Fits, Attached
  <2>2. BucketOf(pcb[s]) = b
    BY <2>1 DEF BucketOf, Exact
  <2>3. PICK i \in 1 .. Len(q) : q[i] = s
    BY <1>2, <2>1, <2>2 DEF Member
  <2> QED BY <1>4, <2>1, <2>3
<1> QED
  BY <1>1, <1>3, <1>4, <1>5, <1>6 DEF I, q

\* A block that was found and moved to the front.
Found(r, b, i) ==
    r = [inp |-> hash[b][i], hash |-> [hash EXCEPT ![b] = <<hash[b][i]>> \o RemoveFirst(@, hash[b][i])]]

\* What finding a block in its bucket gives.
LEMMA FoundOK ==
    ASSUME pcb \in [UdpSocks -> Pcb], HashOK(hash, pcb), NEW f, NEW fp \in Nat, NEW l, NEW lp \in Nat,
           NEW b, b = Bucket(f, lp, fp), NEW i, i \in InBucket(hash, b, f, fp, l, lp), NEW r, Found(r, b, i)
    PROVE  HashOK(r.hash, pcb) /\ r.inp \in Fits(f, fp, l, lp)
<1> DEFINE s == hash[b][i]
<1>1. b \in Buckets /\ s \in Fits(f, fp, l, lp) /\ Member(hash[b], s)
  BY InBucketIs
<1>2. r.inp = s /\ InFront(hash, b, s, r.hash)
  BY DEF Found, InFront
<1>3. s \in UdpSocks
  BY <1>1 DEF Fits, Attached
<1> HIDE DEF s
<1>4. HashOK(r.hash, pcb)
  BY <1>1, <1>2, <1>3, FrontOK
<1> QED
  BY <1>1, <1>2, <1>4

\* in_pcblookuphash finds a block that fits best, if there is any.
LEMMA LookupOK ==
    ASSUME pcb \in [UdpSocks -> Pcb], HashOK(hash, pcb), NEW f, NEW fp \in Nat, NEW l, NEW lp \in Nat,
           NEW w, NEW r, r = in_pcblookuphash(hash, f, fp, l, lp, w)
    PROVE  /\ HashOK(r.hash, pcb) /\ r.inp \in Attached \cup {"none"}
           /\ r.inp = "none" => Fits(f, fp, l, lp) = {}
           /\ w = 1 /\ r.inp = "none" => Best(f, fp, l, lp) = {}
           /\ w = 1 /\ r.inp # "none" => r.inp \in Best(f, fp, l, lp)
<1> DEFINE b1 == Bucket(f, lp, fp)
           b2 == Bucket(ANY, lp, 0)
           ex == InBucket(hash, b1, f, fp, l, lp)
           lo == InBucket(hash, b2, ANY, 0, l, lp)
           wi == InBucket(hash, b2, ANY, 0, ANY, lp)
           F == Fits(f, fp, l, lp)
           L == Fits(ANY, 0, l, lp)
           W == Fits(ANY, 0, ANY, lp)
<1>1. Best(f, fp, l, lp) = IF F # {} THEN F ELSE IF L # {} THEN L ELSE W
  BY DEF Best, Fits
<1>2. F \subseteq Attached /\ L \subseteq Attached /\ W \subseteq Attached /\ "none" \notin Attached
  BY UdpAssumption DEF Fits, Attached
<1>3. ex \in SUBSET (1 .. Len(hash[b1])) /\ Len(hash[b1]) \in Nat /\ (ex = {} => F = {})
  BY InBucketIs
<1>4. lo \in SUBSET (1 .. Len(hash[b2])) /\ Len(hash[b2]) \in Nat /\ (lo = {} => L = {})
  BY InBucketIs
<1>5. wi \in SUBSET (1 .. Len(hash[b2])) /\ (wi = {} => W = {})
  BY InBucketIs
<1>6. /\ ex # {} => Found(r, b1, Min(ex))
      /\ ex = {} /\ w = 1 /\ lo # {} => Found(r, b2, Min(lo))
      /\ ex = {} /\ w = 1 /\ lo = {} /\ wi # {} => Found(r, b2, Max(wi))
      /\ ex = {} /\ ~ (w = 1 /\ (lo # {} \/ wi # {})) => r.inp = "none" /\ r.hash = hash
  BY DEF in_pcblookuphash, Found
<1>7. b1 = Bucket(f, lp, fp) /\ b2 = Bucket(ANY, lp, 0)
  OBVIOUS
<1>8. CASE ex # {}
  <2>1. Min(ex) \in ex
    <3> HIDE DEF ex
    <3> QED BY <1>3, <1>8, MinMaxIn
  <2>2. Found(r, b1, Min(ex))
    BY <1>6, <1>8
  <2> HIDE DEF b1
  <2>3. HashOK(r.hash, pcb) /\ r.inp \in F
    BY <1>7, <2>1, <2>2, FoundOK
  <2> HIDE DEF F
  <2> QED BY <1>1, <1>2, <2>3 DEF F
<1>9. CASE ex = {} /\ w = 1 /\ lo # {}
  <2>1. Min(lo) \in lo
    <3> HIDE DEF lo
    <3> QED BY <1>4, <1>9, MinMaxIn
  <2>2. Found(r, b2, Min(lo))
    BY <1>6, <1>9
  <2> HIDE DEF b2
  <2>3. HashOK(r.hash, pcb) /\ r.inp \in L
    BY <1>7, <2>1, <2>2, FoundOK
  <2> HIDE DEF F, L
  <2> QED BY <1>1, <1>2, <1>3, <1>9, <2>3 DEF F
<1>10. CASE ex = {} /\ w = 1 /\ lo = {} /\ wi # {}
  <2>1. Max(wi) \in wi
    <3> HIDE DEF wi
    <3> QED BY <1>4, <1>5, <1>10, MinMaxIn
  <2>2. Found(r, b2, Max(wi))
    BY <1>6, <1>10
  <2> HIDE DEF b2
  <2>3. HashOK(r.hash, pcb) /\ r.inp \in W
    BY <1>7, <2>1, <2>2, FoundOK
  <2> HIDE DEF F, L, W
  <2> QED BY <1>1, <1>2, <1>3, <1>4, <1>10, <2>3 DEF F
<1>11. CASE ex = {} /\ ~ (w = 1 /\ (lo # {} \/ wi # {}))
  <2> HIDE DEF F, L, W, ex, lo, wi
  <2> QED BY <1>1, <1>3, <1>4, <1>5, <1>6, <1>11 DEF F
<1> QED
  BY <1>8, <1>9, <1>10, <1>11
-----------------------------------------------------------------------------
(***************************************************************************)
(* What a request does to the blocks.                                      *)
(***************************************************************************)
\* UniqueConnections, of the blocks P.
Unique(P) ==
    \A s, t \in UdpSocks :
        P[s].on /\ P[t].on /\ s # t /\ s \notin Shared /\ t \notin Shared /\ P[s].faddr # ANY =>
            ~Exact(P[t], P[s].faddr, P[s].fport, P[s].laddr, P[s].lport)

\* UniqueConnections in terms of Unique, now
LEMMA UniqueIs == UniqueConnections <=> Unique(pcb)
  BY DEF UniqueConnections, Unique, Attached

\* and after a step.
LEMMA UniqueIsPrimed == UniqueConnections' <=> Unique(pcb')
  BY DEF UniqueConnections, Unique, Attached

\* The blocks P with c for s.
PcbUpd(Q, P, s, c) == Q = [P EXCEPT ![s] = c]

\* What such a change leaves alone.
LEMMA UpdIs ==
    ASSUME NEW P \in [UdpSocks -> Pcb], NEW s \in UdpSocks, NEW c \in Pcb, NEW Q, PcbUpd(Q, P, s, c)
    PROVE  Q \in [UdpSocks -> Pcb] /\ Q[s] = c /\ \A t \in UdpSocks : t # s => Q[t] = P[t]
  BY DEF PcbUpd

\* No other block of the kind that does not share has the addresses of c.
Fresh(s, c) ==
    \A t \in UdpSocks : pcb[t].on /\ t # s /\ s \notin Shared /\ t \notin Shared =>
        ~Exact(pcb[t], c.faddr, c.fport, c.laddr, c.lport)

\* Connections stay unique when a block gets no foreign address, or fresh ones.
LEMMA UniqueKept ==
    ASSUME pcb \in [UdpSocks -> Pcb], Unique(pcb), NEW s \in UdpSocks, NEW c \in Pcb,
           c.faddr = ANY \/ Fresh(s, c), NEW Q, PcbUpd(Q, pcb, s, c)
    PROVE  Unique(Q)
<1>1. Q[s] = c /\ \A t \in UdpSocks : t # s => Q[t] = pcb[t]
  BY UpdIs
<1> SUFFICES ASSUME NEW a \in UdpSocks, NEW b \in UdpSocks, Q[a].on, Q[b].on, a # b,
                    a \notin Shared, b \notin Shared, Q[a].faddr # ANY,
                    Exact(Q[b], Q[a].faddr, Q[a].fport, Q[a].laddr, Q[a].lport)
             PROVE  FALSE
  BY DEF Unique
<1>2. CASE a # s /\ b # s
  BY <1>1, <1>2 DEF Unique
<1>3. CASE a = s
  BY <1>1, <1>3 DEF Fresh
<1>4. CASE b = s
  <2>1. c.faddr # ANY /\ Exact(pcb[a], c.faddr, c.fport, c.laddr, c.lport)
    BY <1>1, <1>4 DEF Exact
  <2> QED BY <1>1, <1>4, <2>1 DEF Fresh
<1> QED
  BY <1>2, <1>3, <1>4

\* A request that gives the block of s the addresses c and hashes it again.
LEMMA UpdateOK ==
    ASSUME UdpInv, NEW s \in UdpSocks, NEW c \in Pcb, c.on, PortOK(c), c.faddr = ANY \/ Fresh(s, c),
           PcbUpd(pcb', pcb, s, c), hash' = in_pcbrehash(hash, s, c), lastport' \in Ports,
           ListOK(udb', pcb'), last' = last, delivered' = Nobody
    PROVE  UdpInv'
<1>0. pcb \in [UdpSocks -> Pcb] /\ HashOK(hash, pcb) /\ Unique(pcb)
  BY UniqueIs DEF UdpInv, DatagramsRouted
<1>1. pcb' \in [UdpSocks -> Pcb] /\ pcb'[s] = c /\ \A t \in UdpSocks : t # s => pcb'[t] = pcb[t]
  BY <1>0, UpdIs
<1>2. \A t \in UdpSocks : PortOK(pcb'[t])
  BY <1>1 DEF UdpInv
<1>3. HashOK(hash', pcb')
  BY <1>0, RehashOK DEF PcbUpd
<1>4. last' = "none" \/ last' \in Attached'
  BY <1>1 DEF UdpInv, Attached
<1>5. Unique(pcb')
  BY <1>0, UniqueKept
<1>6. DatagramsRouted'
  BY <1>5, UniqueIsPrimed DEF DatagramsRouted, DeliveredToBest, Nobody
<1> QED
  BY <1>1, <1>2, <1>3, <1>4, <1>6 DEF UdpInv

\* The list stays as it is when no block comes or goes.
LEMMA ListKept ==
    ASSUME UdpInv, NEW s \in UdpSocks, NEW c \in Pcb, c.on, pcb[s].on,
           PcbUpd(pcb', pcb, s, c), udb' = udb
    PROVE  ListOK(udb', pcb')
<1>1. pcb'[s] = c /\ \A t \in UdpSocks : t # s => pcb'[t] = pcb[t]
  BY UpdIs DEF UdpInv
<1>2. ListOK(udb, pcb)
  BY DEF UdpInv
<1> QED
  BY <1>1, <1>2 DEF ListOK

\* The port that a socket gets unasked is one that is free.
LEMMA EphemeralFree ==
    ASSUME lastport \in Ports, NEW s, NEW l, FreePorts(s, l) # {}
    PROVE  EphemeralPort(s, l) \in FreePorts(s, l)
<1> DEFINE F == FreePorts(s, l)
           tries(p) == IF p > lastport THEN p - lastport ELSE p - lastport + MaxPort - MinPort + 1
           T == {tries(p) : p \in F}
<1>1. F \subseteq Ports
  BY DEF FreePorts
<1>2. \A p \in Ports : tries(p) \in Nat
  BY UdpAssumption DEF Ports
<1> HIDE DEF F, tries
<1>3. T \in SUBSET Nat /\ T # {}
  BY <1>1, <1>2 DEF F
<1>4. PICK n \in T : \A k \in T : n <= k
  <2> HIDE DEF T
  <2> QED BY <1>3, NatMin
<1>5. \E p \in F : \A q \in F : tries(p) <= tries(q)
  BY <1>4
<1>6. (CHOOSE p \in F : \A q \in F : tries(p) <= tries(q)) \in F
  <2> HIDE DEF T
  <2> QED BY <1>5
<1> QED
  BY <1>6 DEF EphemeralPort, F, tries

\* A port that is free for a socket that does not share is no other block's.
LEMMA FreeIsFresh ==
    ASSUME UdpInv, NEW s \in UdpSocks, NEW p \in FreePorts(s, ANY), s \notin Shared,
           NEW t \in UdpSocks, pcb[t].on
    PROVE  pcb[t].lport # p
<1> SUFFICES ASSUME pcb[t].lport = p PROVE FALSE
  OBVIOUS
<1>1. udb \in Seq(UdpSocks) /\ Member(udb, t)
  BY DEF UdpInv, ListOK
<1>2. PICK i \in 1 .. Len(udb) : udb[i] = t
  BY <1>1 DEF Member
<1>3. i \in DOMAIN udb
  BY <1>1, <1>2
<1>4. Wildcards(pcb[t], ANY) <= 2
  BY DEF Wildcards
<1>5. i \in Matches(ANY, p, 2)
  BY <1>2, <1>3, <1>4 DEF Matches
<1>6. Matches(ANY, p, 2) = {}
  BY DEF FreePorts, MostWild
<1> QED
  BY <1>5, <1>6
-----------------------------------------------------------------------------
(***************************************************************************)
(* The requests.                                                           *)
(***************************************************************************)
\* in_pcballoc.
LEMMA AllocOK ==
    ASSUME UdpInv, NEW s \in UdpSocks, in_pcballoc(s)
    PROVE  UdpInv'
<1>1. NewPcb \in Pcb /\ NewPcb.on /\ PortOK(NewPcb) /\ NewPcb.faddr = ANY
  BY DEF NewPcb, Pcb, PortOK, ANY
<1>2. PcbUpd(pcb', pcb, s, NewPcb) /\ hash' = in_pcbrehash(hash, s, NewPcb) /\ udb' = <<s>> \o udb
      /\ lastport' \in Ports /\ last' = last /\ delivered' = Nobody
  BY DEF in_pcballoc, PcbUpd, Request, UdpInv
<1>3. ListOK(udb', pcb')
  <2>1. pcb'[s] = NewPcb /\ \A t \in UdpSocks : t # s => pcb'[t] = pcb[t]
    BY <1>1, <1>2, UpdIs DEF UdpInv
  <2>2. udb \in Seq(UdpSocks) /\ NoDup(udb) /\ \A t \in UdpSocks : Member(udb, t) <=> pcb[t].on
    BY DEF UdpInv, ListOK
  <2>3. ~Member(udb, s)
    BY <2>2 DEF in_pcballoc
  <2>4. udb' \in Seq(UdpSocks) /\ NoDup(udb') /\ \A x : Member(udb', x) <=> Member(udb, x) \/ x = s
    BY <1>2, <2>2, <2>3, PrependOK
  <2> QED BY <1>1, <2>1, <2>2, <2>4 DEF ListOK
<1> HIDE DEF NewPcb
<1> QED
  BY <1>1, <1>2, <1>3, UpdateOK

\* A request of a socket that stays attached.
LEMMA RequestOK ==
    ASSUME UdpInv, NEW s \in UdpSocks, NEW c \in Pcb, c.on, pcb[s].on, PortOK(c), c.faddr = ANY \/ Fresh(s, c),
           PcbUpd(pcb', pcb, s, c), hash' = in_pcbrehash(hash, s, c), lastport' \in Ports,
           udb' = udb, last' = last, delivered' = Nobody
    PROVE  UdpInv'
<1>1. ListOK(udb', pcb')
  BY ListKept
<1> QED
  BY <1>1, UpdateOK

\* The parts of a block.
LEMMA PcbIs ==
    ASSUME NEW c \in Pcb
    PROVE  /\ c.on \in BOOLEAN /\ c.laddr \in Laddrs \cup {ANY} /\ c.lport \in Ports \cup {0}
           /\ c.faddr \in Faddrs \cup {ANY} /\ c.fport \in {0, Fport}
  BY DEF Pcb

\* A block with another address or port is a block.
LEMMA LaddrSet ==
    ASSUME NEW c \in Pcb, NEW x, x \in Laddrs \cup {ANY}, NEW d, d = [c EXCEPT !.laddr = x]
    PROVE  d \in Pcb /\ d.laddr = x /\ d.on = c.on /\ d.faddr = c.faddr /\ d.fport = c.fport /\ d.lport = c.lport
  BY DEF Pcb

\* The same for its local port,
LEMMA LportSet ==
    ASSUME NEW c \in Pcb, NEW x, x \in Ports \cup {0}, NEW d, d = [c EXCEPT !.lport = x]
    PROVE  d \in Pcb /\ d.lport = x /\ d.on = c.on /\ d.laddr = c.laddr /\ d.faddr = c.faddr /\ d.fport = c.fport
  BY DEF Pcb

\* its foreign port,
LEMMA FportSet ==
    ASSUME NEW c \in Pcb, NEW x, x \in {0, Fport}, NEW d, d = [c EXCEPT !.fport = x]
    PROVE  d \in Pcb /\ d.fport = x /\ d.on = c.on /\ d.laddr = c.laddr /\ d.faddr = c.faddr /\ d.lport = c.lport
  BY DEF Pcb

\* and its foreign address.
LEMMA FaddrSet ==
    ASSUME NEW c \in Pcb, NEW x, x \in Faddrs \cup {ANY}, NEW d, d = [c EXCEPT !.faddr = x]
    PROVE  d \in Pcb /\ d.faddr = x /\ d.on = c.on /\ d.laddr = c.laddr /\ d.fport = c.fport /\ d.lport = c.lport
  BY DEF Pcb

\* in_pcbbind, to an address and to a port that is named or found.
LEMMA BindOK ==
    ASSUME UdpInv, NEW s \in UdpSocks, NEW l \in Laddrs \cup {ANY}, NEW p \in Ports \cup {0},
           in_pcbbind(s, l, p)
    PROVE  UdpInv'
<1> DEFINE port == IF p = 0 THEN EphemeralPort(s, l) ELSE p
           b == pcb[s]
           d == [b EXCEPT !.laddr = l]
           c == [d EXCEPT !.lport = port]
<1>1. pcb[s] \in Pcb /\ pcb[s].on /\ pcb[s].lport = 0 /\ PortOK(pcb[s]) /\ lastport \in Ports
  BY DEF UdpInv, in_pcbbind
<1>2. p = 0 => FreePorts(s, l) # {}
  BY DEF in_pcbbind
<1>3. port \in Ports
  BY <1>1, <1>2, EphemeralFree DEF FreePorts
<1>4. port # 0
  BY <1>3, UdpAssumption DEF Ports
<1>5. /\ pcb' = [pcb EXCEPT ![s] = [pcb[s] EXCEPT !.laddr = l, !.lport = port]]
      /\ hash' = in_pcbrehash(hash, s, [pcb[s] EXCEPT !.laddr = l, !.lport = port])
      /\ lastport' = (IF p = 0 THEN port ELSE lastport)
      /\ udb' = udb /\ last' = last /\ delivered' = Nobody
  BY DEF in_pcbbind, Request
<1> HIDE DEF port
<1>6. c = [pcb[s] EXCEPT !.laddr = l, !.lport = port]
  BY <1>1 DEF Pcb
<1>7. d \in Pcb /\ d.laddr = l /\ d.on = pcb[s].on /\ d.faddr = pcb[s].faddr
  <2>1. b \in Pcb
    BY <1>1
  <2>2. l \in Laddrs \cup {ANY}
    OBVIOUS
  <2> HIDE DEF b
  <2>3. d = [b EXCEPT !.laddr = l]
    OBVIOUS
  <2> HIDE DEF d
  <2>4. d \in Pcb /\ d.laddr = l /\ d.on = b.on /\ d.faddr = b.faddr
    BY <2>1, <2>2, <2>3, LaddrSet
  <2> QED BY <2>4 DEF b
<1> HIDE DEF d
<1>8. c \in Pcb /\ c.lport = port /\ c.on = pcb[s].on /\ c.faddr = pcb[s].faddr
  BY <1>3, <1>7, LportSet
<1> HIDE DEF c
<1>9. PortOK(c) /\ c.faddr = ANY /\ c.on
  BY <1>1, <1>4, <1>8 DEF PortOK
<1>10. PcbUpd(pcb', pcb, s, c) /\ hash' = in_pcbrehash(hash, s, c) /\ lastport' \in Ports
  BY <1>1, <1>3, <1>5, <1>6 DEF PcbUpd
<1> QED
  BY <1>1, <1>5, <1>8, <1>9, <1>10, RequestOK

\* The address and port that in_pcbconnect leaves with.
LEMMA ConnectedIs ==
    ASSUME UdpInv, NEW s \in UdpSocks, NEW f \in Faddrs, MayConnect(s, f, Fport),
           NEW c, c = Connected(s, f, Fport)
    PROVE  /\ c \in Pcb /\ c.on /\ c.faddr = f /\ c.fport = Fport
           /\ c.lport \in Ports /\ c.lport # 0
           /\ c.laddr = IF pcb[s].laddr = ANY THEN in_pcbladdr(f) ELSE pcb[s].laddr
           /\ pcb[s].lport # 0 => c.lport = pcb[s].lport
           /\ pcb[s].lport = 0 => c.lport \in FreePorts(s, ANY)
<1> DEFINE b == pcb[s]
           x == IF b.laddr = ANY THEN in_pcbladdr(f) ELSE b.laddr
           y == IF b.laddr = ANY /\ b.lport = 0 THEN EphemeralPort(s, ANY) ELSE b.lport
           c1 == [b EXCEPT !.laddr = x]
           c2 == [c1 EXCEPT !.lport = y]
           c3 == [c2 EXCEPT !.faddr = f]
           c4 == [c3 EXCEPT !.fport = Fport]
<1>1. b \in Pcb /\ PortOK(b) /\ b.on /\ b.faddr = ANY /\ (b.lport = 0 => FreePorts(s, ANY) # {}) /\ lastport \in Ports
  BY DEF UdpInv, MayConnect
<1>2. in_pcbladdr(f) \in Laddrs
  BY UdpAssumption DEF in_pcbladdr
<1>3. c = [b EXCEPT !.laddr = x, !.lport = y, !.faddr = f, !.fport = Fport]
  BY <1>1 DEF Connected, Pcb
<1> HIDE DEF b
<1>4. x \in Laddrs \cup {ANY}
  BY <1>1, <1>2, PcbIs
<1>5. b.lport = 0 => b.laddr = ANY
  BY <1>1 DEF PortOK
<1>6. b.lport = 0 => y \in FreePorts(s, ANY)
  BY <1>1, <1>5, EphemeralFree
<1>7. b.lport # 0 => y = b.lport
  OBVIOUS
<1>8. y \in Ports /\ y # 0
  <2>1. 0 \notin Ports
    BY UdpAssumption DEF Ports
  <2>2. b.lport \in Ports \cup {0}
    BY <1>1, PcbIs
  <2> QED BY <1>6, <1>7, <2>1, <2>2 DEF FreePorts
<1>9. c = c4
  BY <1>1, <1>3 DEF Pcb
<1>10. x = IF pcb[s].laddr = ANY THEN in_pcbladdr(f) ELSE pcb[s].laddr
  BY DEF b
<1> HIDE DEF x, y
<1>11. c1 \in Pcb /\ c1.laddr = x /\ c1.on = b.on
  BY <1>1, <1>4, LaddrSet
<1> HIDE DEF c1
<1>12. c2 \in Pcb /\ c2.laddr = x /\ c2.on = b.on /\ c2.lport = y
  BY <1>8, <1>11, LportSet
<1> HIDE DEF c2
<1>13. c3 \in Pcb /\ c3.laddr = x /\ c3.on = b.on /\ c3.lport = y /\ c3.faddr = f
  BY <1>12, FaddrSet
<1> HIDE DEF c3
<1>14. c4 \in Pcb /\ c4.laddr = x /\ c4.on = b.on /\ c4.lport = y /\ c4.faddr = f /\ c4.fport = Fport
  BY <1>13, FportSet
<1> HIDE DEF c4
<1> QED
  BY <1>1, <1>6, <1>7, <1>8, <1>9, <1>10, <1>14 DEF b

\* in_pcbconnect checked that nobody else has these addresses, or took a port
\* that nobody has.
LEMMA ConnectedFresh ==
    ASSUME UdpInv, NEW s \in UdpSocks, NEW f \in Faddrs, MayConnect(s, f, Fport),
           NEW c, c = Connected(s, f, Fport)
    PROVE  Fresh(s, c)
<1>1. /\ c.faddr = f /\ c.fport = Fport
      /\ c.laddr = IF pcb[s].laddr = ANY THEN in_pcbladdr(f) ELSE pcb[s].laddr
      /\ pcb[s].lport # 0 => c.lport = pcb[s].lport
      /\ pcb[s].lport = 0 => c.lport \in FreePorts(s, ANY)
  BY ConnectedIs
<1> SUFFICES ASSUME NEW t \in UdpSocks, pcb[t].on, t # s, s \notin Shared, t \notin Shared,
                    Exact(pcb[t], c.faddr, c.fport, c.laddr, c.lport)
             PROVE  FALSE
  BY DEF Fresh
<1>2. CASE pcb[s].lport = 0
  <2>1. pcb[t].lport = c.lport
    BY DEF Exact
  <2> QED BY <1>1, <1>2, <2>1, FreeIsFresh
<1>3. CASE pcb[s].lport # 0
  <2> DEFINE x == c.laddr
             y == pcb[s].lport
             r == in_pcblookuphash(hash, f, Fport, x, y, 0)
  <2>1. r.inp = "none"
    BY <1>1 DEF MayConnect, Rival
  <2>2. pcb \in [UdpSocks -> Pcb] /\ HashOK(hash, pcb) /\ Fport \in Nat /\ y \in Nat
    BY UdpAssumption DEF UdpInv, Pcb, Ports
  <2>3. r = in_pcblookuphash(hash, f, Fport, x, y, 0)
    OBVIOUS
  <2>5. t \in Fits(f, Fport, x, y)
    BY <1>1, <1>3 DEF Fits, Attached
  <2> HIDE DEF r, x, y
  <2>4. Fits(f, Fport, x, y) = {}
    BY <2>1, <2>2, <2>3, LookupOK
  <2> QED BY <2>4, <2>5
<1> QED
  BY <1>2, <1>3

\* in_pcbconnect.
LEMMA ConnectOK ==
    ASSUME UdpInv, NEW s \in UdpSocks, NEW f \in Faddrs, in_pcbconnect(s, f, Fport)
    PROVE  UdpInv'
<1> DEFINE c == Connected(s, f, Fport)
<1>1. MayConnect(s, f, Fport) /\ pcb[s].on /\ s \in DOMAIN pcb /\ lastport \in Ports
  BY DEF in_pcbconnect, MayConnect, UdpInv
<1>2. pcb' = [pcb EXCEPT ![s] = c]
  BY DEF in_pcbconnect
<1>3. c = Connected(s, f, Fport)
  OBVIOUS
<1> HIDE DEF c
<1>4. pcb'[s] = c
  BY <1>1, <1>2
<1>5. /\ hash' = in_pcbrehash(hash, s, c) /\ lastport' = (IF pcb[s].lport = 0 THEN c.lport ELSE lastport)
      /\ udb' = udb /\ last' = last /\ delivered' = Nobody
  BY <1>4 DEF in_pcbconnect, Request
<1>6. c \in Pcb /\ c.on /\ c.lport \in Ports /\ c.lport # 0
  BY <1>1, <1>3, ConnectedIs
<1>7. Fresh(s, c)
  BY <1>1, <1>3, ConnectedFresh
<1>8. PortOK(c) /\ PcbUpd(pcb', pcb, s, c) /\ lastport' \in Ports
  BY <1>1, <1>2, <1>5, <1>6 DEF PortOK, PcbUpd
<1> QED
  BY <1>1, <1>5, <1>6, <1>7, <1>8, RequestOK

\* udp_output, which keeps only the port of the connection it makes.
LEMMA OutputOK ==
    ASSUME UdpInv, NEW s \in UdpSocks, NEW f \in Faddrs, udp_output(s, f, Fport)
    PROVE  UdpInv'
<1> DEFINE p == Connected(s, f, Fport).lport
           b == pcb[s]
           c == [b EXCEPT !.lport = p]
<1>1. MayConnect(s, f, Fport) /\ pcb \in [UdpSocks -> Pcb] /\ pcb[s].on /\ pcb[s].faddr = ANY /\ lastport \in Ports
  BY DEF udp_output, MayConnect, UdpInv
<1>2. p \in Ports /\ p # 0
  BY <1>1, ConnectedIs
<1>3. pcb' = [pcb EXCEPT ![s].lport = p]
  BY DEF udp_output
<1> HIDE DEF p
<1>4. pcb' = [pcb EXCEPT ![s] = c]
  BY <1>1, <1>3
<1>5. c \in Pcb /\ c.lport = p /\ c.on = pcb[s].on /\ c.faddr = pcb[s].faddr
  <2>1. b \in Pcb
    BY <1>1
  <2> HIDE DEF b
  <2>2. c \in Pcb /\ c.lport = p /\ c.on = b.on /\ c.faddr = b.faddr
    BY <1>2, <2>1, LportSet
  <2> HIDE DEF c
  <2> QED BY <2>2 DEF b
<1> HIDE DEF c
<1>6. pcb'[s] = c
  BY <1>1, <1>4
<1>7. /\ hash' = in_pcbrehash(hash, s, c) /\ lastport' = (IF pcb[s].lport = 0 THEN c.lport ELSE lastport)
      /\ udb' = udb /\ last' = last /\ delivered' = Nobody
  <2>1. /\ hash' = in_pcbrehash(hash, s, pcb'[s])
        /\ lastport' = (IF pcb[s].lport = 0 THEN pcb'[s].lport ELSE lastport)
        /\ udb' = udb /\ last' = last /\ delivered' = Nobody
    BY DEF udp_output, Request
  <2> QED BY <1>6, <2>1
<1>8. PortOK(c) /\ c.faddr = ANY /\ c.on /\ PcbUpd(pcb', pcb, s, c) /\ lastport' \in Ports
  BY <1>1, <1>2, <1>4, <1>5, <1>7 DEF PortOK, PcbUpd
<1> QED
  BY <1>1, <1>5, <1>7, <1>8, RequestOK

\* A connection that is refused moves the block it met to the front.
LEMMA RefusedOK ==
    ASSUME UdpInv, NEW s \in UdpSocks, NEW f \in Faddrs, ConnectRefused(s, f, Fport)
    PROVE  UdpInv'
<1> DEFINE x == IF pcb[s].laddr = ANY THEN in_pcbladdr(f) ELSE pcb[s].laddr
           y == pcb[s].lport
           r == in_pcblookuphash(hash, f, Fport, x, y, 0)
<1>1. hash' = r.hash /\ pcb' = pcb /\ udb' = udb /\ last' = last /\ lastport' = lastport /\ delivered' = Nobody
  BY DEF ConnectRefused, Rival, Request
<1>2. pcb \in [UdpSocks -> Pcb] /\ HashOK(hash, pcb) /\ Fport \in Nat /\ y \in Nat
  BY UdpAssumption DEF UdpInv, Pcb, Ports
<1>3. r = in_pcblookuphash(hash, f, Fport, x, y, 0)
  OBVIOUS
<1> HIDE DEF r, x, y
<1>4. HashOK(r.hash, pcb)
  BY <1>2, <1>3, LookupOK
<1>5. DatagramsRouted'
  BY <1>1 DEF UdpInv, DatagramsRouted, DeliveredToBest, Nobody, UniqueConnections, Attached
<1>6. HashOK(hash', pcb')
  BY <1>1, <1>4
<1> QED
  BY <1>1, <1>5, <1>6 DEF UdpInv, Attached

\* PRU_DISCONNECT.
LEMMA DisconnectOK ==
    ASSUME UdpInv, NEW s \in UdpSocks, Disconnect(s)
    PROVE  UdpInv'
<1> DEFINE b == pcb[s]
           c1 == [b EXCEPT !.faddr = ANY]
           c2 == [c1 EXCEPT !.fport = 0]
           c3 == [c2 EXCEPT !.laddr = ANY]
<1>1. pcb \in [UdpSocks -> Pcb] /\ b \in Pcb /\ b.on /\ pcb[s].on /\ lastport \in Ports
  BY DEF Disconnect, UdpInv
<1>2. pcb' = [pcb EXCEPT ![s] = c3]
  <2>1. pcb' = [pcb EXCEPT ![s].faddr = ANY, ![s].fport = 0, ![s].laddr = ANY]
    BY DEF Disconnect
  <2> QED BY <1>1, <2>1
<1> HIDE DEF b
<1>0. ANY \in Faddrs \cup {ANY} /\ ANY \in Laddrs \cup {ANY}
  OBVIOUS
<1>3. c1 \in Pcb /\ c1.faddr = ANY /\ c1.on = b.on
  BY <1>0, <1>1, FaddrSet
<1> HIDE DEF c1
<1>4. c2 \in Pcb /\ c2.faddr = ANY /\ c2.on = b.on
  BY <1>3, FportSet
<1> HIDE DEF c2
<1>5. c3 \in Pcb /\ c3.faddr = ANY /\ c3.on = b.on /\ c3.laddr = ANY
  BY <1>0, <1>4, LaddrSet
<1> HIDE DEF c3
<1>6. pcb'[s] = c3
  BY <1>1, <1>2
<1>7. /\ hash' = in_pcbrehash(hash, s, c3) /\ lastport' = lastport
      /\ udb' = udb /\ last' = last /\ delivered' = Nobody
  <2>1. /\ hash' = in_pcbrehash(hash, s, pcb'[s]) /\ lastport' = lastport
        /\ udb' = udb /\ last' = last /\ delivered' = Nobody
    BY DEF Disconnect, Request
  <2> QED BY <1>6, <2>1
<1>8. PortOK(c3) /\ c3.on /\ PcbUpd(pcb', pcb, s, c3) /\ lastport' \in Ports
  BY <1>1, <1>2, <1>5, <1>7 DEF PortOK, PcbUpd
<1> QED
  BY <1>1, <1>5, <1>7, <1>8, RequestOK

\* udp_detach takes the block out of the list, its bucket and the cache.
LEMMA DetachOK ==
    ASSUME UdpInv, NEW s \in UdpSocks, udp_detach(s)
    PROVE  UdpInv'
<1> DEFINE b == pcb[s]
           c == [b EXCEPT !.on = FALSE]
<1>1. pcb \in [UdpSocks -> Pcb] /\ b \in Pcb
  BY DEF UdpInv
<1>2. pcb' = [pcb EXCEPT ![s] = c]
  <2>1. pcb' = [pcb EXCEPT ![s].on = FALSE]
    BY DEF udp_detach
  <2> QED BY <1>1, <2>1
<1>3. /\ udb' = RemoveFirst(udb, s) /\ hash' = Unhashed(hash, s) /\ last' = Forget(s)
      /\ lastport' = lastport /\ delivered' = Nobody
  BY DEF udp_detach, Request
<1>4. c \in Pcb /\ c.on = FALSE /\ (PortOK(b) => PortOK(c))
  <2> HIDE DEF b
  <2> QED BY <1>1 DEF Pcb, PortOK
<1>5. PortOK(b)
  BY DEF UdpInv
<1> HIDE DEF b, c
<1>6. pcb' \in [UdpSocks -> Pcb] /\ pcb'[s] = c /\ \A t \in UdpSocks : t # s => pcb'[t] = pcb[t]
  BY <1>1, <1>2, <1>4
<1>7. \A t \in UdpSocks : PortOK(pcb'[t])
  BY <1>4, <1>5, <1>6 DEF UdpInv
<1>8. \A t \in UdpSocks : pcb'[t].on <=> pcb[t].on /\ t # s
  BY <1>4, <1>6
<1>9. ListOK(udb', pcb')
  <2>1. udb \in Seq(UdpSocks) /\ NoDup(udb) /\ \A t \in UdpSocks : Member(udb, t) <=> pcb[t].on
    BY DEF UdpInv, ListOK
  <2>2. udb' \in Seq(UdpSocks) /\ NoDup(udb') /\ \A x : Member(udb', x) <=> Member(udb, x) /\ x # s
    BY <1>3, <2>1, RemoveOK
  <2> QED BY <1>8, <2>1, <2>2 DEF ListOK
<1>10. HashOK(hash', pcb')
  <2>1. HashOK(hash, pcb)
    BY DEF UdpInv
  <2>2. /\ DOMAIN hash' = Buckets /\ hash' = [d \in Buckets |-> hash'[d]]
        /\ \A d \in Buckets : /\ hash'[d] \in Seq(UdpSocks) /\ NoDup(hash'[d])
                              /\ \A x : Member(hash'[d], x) <=> Member(hash[d], x) /\ x # s
    BY <1>3, <2>1, UnhashedOK
  <2>3. ASSUME NEW d \in Buckets, NEW t \in UdpSocks
        PROVE  Member(hash'[d], t) <=> pcb'[t].on /\ BucketOf(pcb'[t]) = d
    <3>1. Member(hash[d], t) <=> pcb[t].on /\ BucketOf(pcb[t]) = d
      BY <2>1 DEF HashOK, BucketOK
    <3> QED BY <1>6, <1>8, <2>2, <3>1
  <2> QED BY <2>2, <2>3 DEF HashOK, BucketOK
<1>11. last' = "none" \/ last' \in Attached'
  BY <1>3, <1>8 DEF UdpInv, Attached, Forget
<1>12. Unique(pcb')
  <2>1. Unique(pcb)
    BY UniqueIs DEF UdpInv, DatagramsRouted
  <2> QED BY <1>6, <1>8, <2>1 DEF Unique
<1>13. DatagramsRouted'
  BY <1>3, <1>12, UniqueIsPrimed DEF DatagramsRouted, DeliveredToBest, Nobody
<1> QED
  BY <1>3, <1>6, <1>7, <1>9, <1>10, <1>11, <1>13 DEF UdpInv

-----------------------------------------------------------------------------
(***************************************************************************)
(* Input.                                                                  *)
(***************************************************************************)
\* A step that leaves the blocks alone and delivers to the best.
LEMMA DeliverOK ==
    ASSUME UdpInv, pcb' = pcb, udb' = udb, lastport' = lastport, HashOK(hash', pcb),
           last' = "none" \/ last' \in Attached, DeliveredToBest'
    PROVE  UdpInv'
<1>1. Attached' = Attached
  BY DEF Attached
<1>2. UniqueConnections'
  BY UniqueIs, UniqueIsPrimed DEF UdpInv, DatagramsRouted
<1>3. HashOK(hash', pcb') /\ ListOK(udb', pcb')
  BY DEF UdpInv
<1> QED
  BY <1>1, <1>2, <1>3 DEF UdpInv, DatagramsRouted

\* udp_input: the block in the cache fits exactly, so it is among the best.
LEMMA InputOK ==
    ASSUME UdpInv, NEW f \in Faddrs, NEW l \in Laddrs, NEW p \in Ports, udp_input(f, Fport, l, p)
    PROVE  UdpInv'
<1> DEFINE hit == last # "none" /\ Exact(pcb[last], f, Fport, l, p)
           r == in_pcblookuphash(hash, f, Fport, l, p, 1)
           B == Best(f, Fport, l, p)
<1>1. /\ pcb' = pcb /\ udb' = udb /\ lastport' = lastport
      /\ hit => hash' = hash /\ last' = last /\ delivered' = [to |-> {last} \ {"none"}, best |-> B]
      /\ ~hit => hash' = r.hash /\ last' = (IF r.inp = "none" THEN last ELSE r.inp)
                 /\ delivered' = [to |-> {r.inp} \ {"none"}, best |-> B]
  BY DEF udp_input
<1>2. pcb \in [UdpSocks -> Pcb] /\ HashOK(hash, pcb) /\ Fport \in Nat /\ p \in Nat
      /\ (last = "none" \/ last \in Attached)
  BY UdpAssumption DEF UdpInv, Ports
<1>3. r = in_pcblookuphash(hash, f, Fport, l, p, 1)
  OBVIOUS
<1> HIDE DEF r
<1>4. CASE hit
  <2>1. last \in Fits(f, Fport, l, p) /\ last # "none"
    BY <1>2, <1>4 DEF Fits
  <2>2. last \in B
    BY <2>1 DEF Best, Fits
  <2> HIDE DEF hit, B
  <2>3. DeliveredToBest'
    BY <1>1, <1>4, <2>1, <2>2 DEF DeliveredToBest
  <2> QED BY <1>1, <1>2, <1>4, <2>3, DeliverOK
<1>5. CASE ~hit
  <2>1. /\ HashOK(r.hash, pcb) /\ r.inp \in Attached \cup {"none"}
        /\ r.inp = "none" => B = {}
        /\ r.inp # "none" => r.inp \in B
    BY <1>2, <1>3, LookupOK
  <2> HIDE DEF hit, B
  <2>2. DeliveredToBest'
    BY <1>1, <1>5, <2>1 DEF DeliveredToBest
  <2>3. HashOK(hash', pcb) /\ (last' = "none" \/ last' \in Attached)
    BY <1>1, <1>2, <1>5, <2>1
  <2> QED BY <1>1, <2>2, <2>3, DeliverOK
<1> QED
  BY <1>4, <1>5

\* udp_ctlinput.
LEMMA CtlinputOK ==
    ASSUME UdpInv, NEW f, NEW l, NEW p, NEW w \in BOOLEAN, udp_ctlinput(f, Fport, l, p, w)
    PROVE  UdpInv'
<1>1. ToSet(udb) = Attached
  <2>1. udb \in Seq(UdpSocks) /\ \A s \in UdpSocks : Member(udb, s) <=> pcb[s].on
    BY DEF UdpInv, ListOK
  <2>2. ToSet(udb) = {s \in UdpSocks : Member(udb, s)}
    BY <2>1 DEF ToSet, Member
  <2> QED BY <2>1, <2>2 DEF Attached
<1>2. delivered'.to = delivered'.best /\ pcb' = pcb /\ udb' = udb /\ hash' = hash /\ last' = last /\ lastport' = lastport
  BY <1>1 DEF udp_ctlinput
<1>3. DeliveredToBest'
  BY <1>2 DEF DeliveredToBest
<1> QED
  BY <1>2, <1>3, DeliverOK DEF UdpInv

\* A broadcast.
LEMMA BroadcastOK ==
    ASSUME UdpInv, NEW f, NEW p, udp_input_broadcast(f, Fport, p)
    PROVE  UdpInv'
<1>1. delivered'.to = delivered'.best /\ pcb' = pcb /\ udb' = udb /\ hash' = hash /\ last' = last /\ lastport' = lastport
  BY DEF udp_input_broadcast
<1>2. DeliveredToBest'
  BY <1>1 DEF DeliveredToBest
<1> QED
  BY <1>1, <1>2, DeliverOK DEF UdpInv

-----------------------------------------------------------------------------
\* The invariant holds at the start,
LEMMA UdpInitOK == UdpInit => UdpInv
<1> SUFFICES ASSUME UdpInit PROVE UdpInv
  OBVIOUS
<1> DEFINE c == [NewPcb EXCEPT !.on = FALSE]
<1>1. c \in Pcb /\ c.on = FALSE /\ c.laddr = ANY /\ c.faddr = ANY
  BY DEF NewPcb, Pcb
<1>2. /\ pcb = [s \in UdpSocks |-> c] /\ udb = <<>> /\ hash = [b \in 0 .. HashSize - 1 |-> <<>>]
      /\ last = "none" /\ lastport = MaxPort /\ delivered = Nobody
  BY DEF UdpInit
<1> HIDE DEF c
<1>3. pcb \in [UdpSocks -> Pcb] /\ \A s \in UdpSocks : pcb[s] = c
  BY <1>1, <1>2
<1>4. lastport \in Ports
  BY <1>2, UdpAssumption DEF Ports
<1>5. ListOK(udb, pcb)
  BY <1>1, <1>2, <1>3 DEF ListOK, NoDup, Member
<1>6. HashOK(hash, pcb)
  BY <1>1, <1>2, <1>3 DEF HashOK, BucketOK, NoDup, Member, Buckets
<1>7. DatagramsRouted
  BY <1>1, <1>2, <1>3 DEF DatagramsRouted, DeliveredToBest, UniqueConnections, Attached, Nobody
<1> QED
  BY <1>1, <1>2, <1>3, <1>4, <1>5, <1>6, <1>7 DEF UdpInv, PortOK

\* and every step keeps it.
LEMMA UdpNextOK == UdpInv /\ [UdpNext]_udpVars => UdpInv'
<1> SUFFICES ASSUME UdpInv, [UdpNext]_udpVars PROVE UdpInv'
  OBVIOUS
<1>1. ASSUME NEW s \in UdpSocks, in_pcballoc(s) \/ Disconnect(s) \/ udp_detach(s) PROVE UdpInv'
  BY <1>1, AllocOK, DisconnectOK, DetachOK
<1>2. ASSUME NEW s \in UdpSocks, NEW l \in Laddrs \cup {ANY}, NEW p \in Ports \cup {0}, in_pcbbind(s, l, p) PROVE UdpInv'
  BY <1>2, BindOK
<1>3. ASSUME NEW s \in UdpSocks, NEW f \in Faddrs,
             in_pcbconnect(s, f, Fport) \/ ConnectRefused(s, f, Fport) \/ udp_output(s, f, Fport)
      PROVE  UdpInv'
  BY <1>3, ConnectOK, RefusedOK, OutputOK
<1>4. ASSUME NEW f \in Faddrs, NEW l \in Laddrs, NEW p \in Ports, udp_input(f, Fport, l, p) PROVE UdpInv'
  BY <1>4, InputOK
<1>5. ASSUME NEW f \in Faddrs, NEW p \in Ports, udp_input_broadcast(f, Fport, p) PROVE UdpInv'
  BY <1>5, BroadcastOK
<1>6. ASSUME NEW f \in Faddrs, NEW l \in Laddrs, NEW p \in Ports, NEW w \in BOOLEAN, udp_ctlinput(f, Fport, l, p, w)
      PROVE  UdpInv'
  BY <1>6, CtlinputOK
<1>7. CASE UNCHANGED udpVars
  BY <1>7 DEF udpVars, UdpInv, DatagramsRouted, DeliveredToBest, UniqueConnections, Attached, ListOK, HashOK, BucketOK
<1> QED
  BY <1>1, <1>2, <1>3, <1>4, <1>5, <1>6, <1>7 DEF UdpNext

\* A datagram goes to an open socket that it fits best, and no two sockets that
\* do not share their ports are connected with the same addresses, for any
\* number of sockets, ports, addresses and buckets (udp_input,
\* in_pcblookuphash, in_pcbrehash, in_pcbconnect, udp_detach).
THEOREM DatagramsAlwaysRouted == UdpSpec => []DatagramsRouted
<1>1. UdpInv => DatagramsRouted
  BY DEF UdpInv
<1> QED
  BY <1>1, UdpInitOK, UdpNextOK, PTL DEF UdpSpec

-----------------------------------------------------------------------------
(***************************************************************************)
(* Group membership.  A frame, a group record and a host.                  *)
(***************************************************************************)
McFrame ==
    [type : {"report"}, group : Groups] \cup [type : {"query"}, n : Nat]
        \cup [type : {"data"}, group : Groups, id : Nat]

McReport(g) == [type |-> "report", group |-> g]
McQuery(n)  == [type |-> "query", n |-> n]

InmOK(r) ==
    /\ r = [ref |-> r.ref, timer |-> r.timer, pcbs |-> r.pcbs, freed |-> r.freed]
    /\ r.timer \in Nat

\* The timers of a host only run while it looks at them.
McHostOK(hs) ==
    /\ hs = [inm |-> hs.inm, running |-> hs.running, filter |-> hs.filter]
    /\ hs.inm = [g \in DOMAIN hs.inm |-> hs.inm[g]] /\ DOMAIN hs.inm \subseteq Groups
    /\ hs.running \in BOOLEAN
    /\ \A g \in DOMAIN hs.inm : InmOK(hs.inm[g]) /\ (hs.inm[g].timer > 0 => hs.running)

(***************************************************************************)
(* What a host that has taken the last query from its queue will hear from *)
(* it has been heard; a host that has not will hear the rest behind the    *)
(* query.  n is the number of the queries to come.                         *)
(***************************************************************************)
McQueueOK(q, took, hd, n) ==
    /\ q \in Seq(McFrame)
    /\ \A i \in 1 .. Len(q) : q[i].type = "query" => q[i].n > n
    /\ \A i \in 1 .. Len(q) :
          q[i].type = "report" /\ (took \/ \E j \in 1 .. i - 1 : q[j] = McQuery(n + 1))
              => q[i].group \in hd

McQueuesOK(q, A, hd, n) ==
    /\ q = [k \in Hosts |-> q[k]]
    /\ \A k \in Hosts : McQueueOK(q[k], k \in A, hd, n)

\* The groups that a host reports are covered by what was heard or by a timer.
Answered(hs, hd) == \A g \in DOMAIN hs.inm : g \in hd \/ hs.inm[g].timer > 0

\* The options of a socket: it is a member of a group once.
McImoOK(o) ==
    /\ o = [ifp |-> o.ifp, ttl |-> o.ttl, loop |-> o.loop, mem |-> o.mem]
    /\ o.mem \in Seq(Groups) /\ NoDup(o.mem)

McInv ==
    /\ imo = [s \in Socks |-> imo[s]] /\ \A s \in Socks : McImoOK(imo[s])
    /\ host = [h \in Hosts |-> host[h]] /\ \A h \in Hosts : McHostOK(host[h])
    /\ left \in [queries : Nat, sends : Nat, groups : SUBSET Groups]
    /\ asked \subseteq Hosts /\ heard \subseteq Groups
    /\ McQueuesOK(ipintrq, asked, heard, left.queries)
    /\ \A h \in asked : Answered(host[h], heard)

-----------------------------------------------------------------------------
(***************************************************************************)
(* The queues.                                                             *)
(***************************************************************************)
LEMMA McFrameIn ==
    /\ \A g \in Groups : McReport(g) \in McFrame /\ McReport(g).type = "report" /\ McReport(g).group = g
    /\ \A n \in Nat : McQuery(n) \in McFrame /\ McQuery(n).type = "query" /\ McQuery(n).n = n
    /\ \A f \in McFrame : f.type = "report" => f.group \in Groups
    /\ \A f \in McFrame : f.type = "query" => f.n \in Nat /\ f = McQuery(f.n)
  BY DEF McFrame, McReport, McQuery

\* One more frame at the end.
LEMMA McAppend ==
    ASSUME NEW q, NEW took \in BOOLEAN, NEW hd, NEW n \in Nat, McQueueOK(q, took, hd, n),
           NEW f \in McFrame, f.type = "query" => f.n > n, f.type = "report" => f.group \in hd
    PROVE  McQueueOK(Append(q, f), took, hd, n)
<1> DEFINE p == Append(q, f)
           m == Len(q)
<1>1. /\ p \in Seq(McFrame) /\ Len(p) = m + 1 /\ m \in Nat /\ p[m + 1] = f
      /\ \A i \in 1 .. m : p[i] = q[i]
  BY DEF McQueueOK
<1> HIDE DEF p
<1>2. ASSUME NEW i \in 1 .. Len(p), p[i].type = "query" PROVE p[i].n > n
  <2>1. i \in 1 .. m \/ i = m + 1
    BY <1>1
  <2> QED BY <1>1, <1>2, <2>1 DEF McQueueOK
<1>3. ASSUME NEW i \in 1 .. Len(p), p[i].type = "report",
             took \/ \E j \in 1 .. i - 1 : p[j] = McQuery(n + 1)
      PROVE  p[i].group \in hd
  <2>1. CASE i = m + 1
    BY <1>1, <1>3, <2>1
  <2>2. CASE i \in 1 .. m
    <3>1. took \/ \E j \in 1 .. i - 1 : q[j] = McQuery(n + 1)
      BY <1>1, <1>3, <2>2
    <3> QED BY <1>1, <1>3, <2>2, <3>1 DEF McQueueOK
  <2> QED BY <1>1, <2>1, <2>2
<1> QED
  BY <1>1, <1>2, <1>3 DEF McQueueOK, p

\* The first frame is taken.
LEMMA McTail ==
    ASSUME NEW q, NEW took \in BOOLEAN, NEW hd, NEW n \in Nat, McQueueOK(q, took, hd, n), q # <<>>
    PROVE  McQueueOK(Tail(q), took \/ Head(q) = McQuery(n + 1), hd, n)
<1> DEFINE p == Tail(q)
<1>1. /\ p \in Seq(McFrame) /\ Len(p) + 1 = Len(q) /\ Len(p) \in Nat /\ Head(q) = q[1]
      /\ \A i \in 1 .. Len(p) : p[i] = q[i + 1] /\ i + 1 \in 1 .. Len(q)
  BY DEF McQueueOK
<1> HIDE DEF p
<1>2. ASSUME NEW i \in 1 .. Len(p), p[i].type = "query" PROVE p[i].n > n
  BY <1>1, <1>2 DEF McQueueOK
<1>3. ASSUME NEW i \in 1 .. Len(p), p[i].type = "report",
             took \/ Head(q) = McQuery(n + 1) \/ \E j \in 1 .. i - 1 : p[j] = McQuery(n + 1)
      PROVE  p[i].group \in hd
  <2>1. took \/ \E j \in 1 .. (i + 1) - 1 : q[j] = McQuery(n + 1)
    <3>1. CASE Head(q) = McQuery(n + 1)
      BY <1>1, <3>1
    <3>2. CASE \E j \in 1 .. i - 1 : p[j] = McQuery(n + 1)
      <4>1. PICK j \in 1 .. i - 1 : p[j] = McQuery(n + 1)
        BY <3>2
      <4>2. j + 1 \in 1 .. (i + 1) - 1 /\ q[j + 1] = McQuery(n + 1)
        BY <1>1, <4>1
      <4> QED BY <4>2
    <3> QED BY <1>3, <3>1, <3>2
  <2> QED BY <1>1, <1>3, <2>1 DEF McQueueOK
<1> QED
  BY <1>1, <1>2, <1>3 DEF McQueueOK, p

\* More was heard.
LEMMA McMore ==
    ASSUME NEW q, NEW took \in BOOLEAN, NEW hd, NEW n \in Nat, McQueueOK(q, took, hd, n), NEW x
    PROVE  McQueueOK(q, took, hd \cup x, n)
  BY DEF McQueueOK

LEMMA McMoreAll ==
    ASSUME NEW q, NEW A, NEW hd, NEW n \in Nat, McQueuesOK(q, A, hd, n), NEW x
    PROVE  McQueuesOK(q, A, hd \cup x, n)
<1>1. \A k \in Hosts : McQueueOK(q[k], k \in A, hd \cup x, n)
  <2> TAKE k \in Hosts
  <2>1. McQueueOK(q[k], k \in A, hd, n) /\ (k \in A) \in BOOLEAN
    BY DEF McQueuesOK
  <2> QED BY <2>1, McMore
<1> QED
  BY <1>1 DEF McQueuesOK

\* A frame is sent to the other hosts.
LEMMA McBroadcast ==
    ASSUME NEW q, NEW A, NEW hd, NEW n \in Nat, McQueuesOK(q, A, hd, n), NEW h,
           NEW f \in McFrame, f.type = "query" => f.n > n, f.type = "report" => f.group \in hd
    PROVE  McQueuesOK(Broadcast(q, h, f), A, hd, n)
<1>1. \A k \in Hosts : McQueueOK(Append(q[k], f), k \in A, hd, n) /\ McQueueOK(q[k], k \in A, hd, n)
  <2> TAKE k \in Hosts
  <2>1. McQueueOK(q[k], k \in A, hd, n)
    BY DEF McQueuesOK
  <2>2. (k \in A) \in BOOLEAN
    OBVIOUS
  <2> QED BY <2>1, <2>2, McAppend
<1> DEFINE p == Broadcast(q, h, f)
<1>2. p = [k \in Hosts |-> p[k]] /\ \A k \in Hosts : p[k] = Append(q[k], f) \/ p[k] = q[k]
  BY DEF Broadcast
<1> HIDE DEF p
<1>3. \A k \in Hosts : McQueueOK(p[k], k \in A, hd, n)
  BY <1>1, <1>2
<1> QED
  BY <1>2, <1>3 DEF McQueuesOK, p

\* A group is reported that is among those heard.
LEMMA McReportOK ==
    ASSUME NEW q, NEW A, NEW hd, NEW n \in Nat, McQueuesOK(q, A, hd, n), NEW r,
           r[2] \in hd, r[2] \in Groups
    PROVE  McQueuesOK(Report(q, r), A, hd, n)
<1>1. /\ McReport(r[2]) \in McFrame /\ McReport(r[2]).type = "report"
      /\ McReport(r[2]).group = r[2]
  BY McFrameIn
<1>2. McReport(r[2]).type # "query"
  BY <1>1
<1>3. McQueuesOK(Broadcast(q, r[1], McReport(r[2])), A, hd, n)
  BY <1>1, <1>2, McBroadcast
<1> QED
  BY <1>3 DEF Report, McReport

\* A finite set is listed by a sequence of its elements.
LEMMA SetToSeqIs ==
    ASSUME NEW S, IsFiniteSet(S)
    PROVE  SetToSeq(S) \in Seq(S)
<1>1. Cardinality(S) \in Nat
  BY FS_CardinalityType
<1>2. \E f \in [1 .. Cardinality(S) -> S] : IsInjective(f)
  <2>1. ExistsBijection(1 .. Cardinality(S), S)
    BY <1>1, FS_CardinalityType
  <2>2. PICK f : f \in Bijection(1 .. Cardinality(S), S)
    BY <2>1 DEF ExistsBijection
  <2> QED BY <2>2 DEF Bijection, Injection, IsInjective
<1>3. SetToSeq(S) \in [1 .. Cardinality(S) -> S]
  BY <1>2 DEF SetToSeq
<1> QED
  BY <1>1, <1>3

McAnyResult(x) == TRUE
McReports == INSTANCE SeqLemmas WITH Op <- Report, Holds <- McAnyResult

\* The groups gs are reported one after the other.
LEMMA McReportsOK ==
    ASSUME NEW q, NEW A, NEW hd, NEW n \in Nat, McQueuesOK(q, A, hd, n), NEW h,
           NEW gs, gs \subseteq hd, gs \subseteq Groups
    PROVE  McQueuesOK(FoldLeft(Report, q, SetToSeq({h} \X gs)), A, hd, n)
<1> DEFINE H == {p \in [Hosts -> Seq(McFrame)] : McQueuesOK(p, A, hd, n)}
           s == SetToSeq({h} \X gs)
<1>1. \A p : p \in H <=> McQueuesOK(p, A, hd, n)
  BY DEF McQueuesOK, McQueueOK
<1>2. IsFiniteSet({h} \X gs)
  <2>1. IsFiniteSet(gs)
    BY MulticastAssumption, FS_Subset
  <2>2. IsFiniteSet({h})
    BY FS_Singleton
  <2> QED BY <2>1, <2>2, FS_Product
<1>3. s \in Seq({h} \X gs)
  BY <1>2, SetToSeqIs
<1> HIDE DEF H, s
<1>4. \A i \in 1 .. Len(s) : \A p \in H : Report(p, s[i]) \in H
  <2> TAKE i \in 1 .. Len(s)
  <2> TAKE p \in H
  <2>1. s[i][2] \in gs
    BY <1>3
  <2>2. McQueuesOK(p, A, hd, n)
    BY <1>1
  <2> HIDE DEF McQueuesOK
  <2>3. McQueuesOK(Report(p, s[i]), A, hd, n)
    BY <2>1, <2>2, McReportOK
  <2> QED BY <1>1, <2>3
<1>5. q \in H
  BY <1>1
<1>6. McReports!Fold(q, s) \in H
  BY <1>3, <1>4, <1>5, McReports!FoldIn
<1>7. McReports!Fold(q, s) = FoldLeft(Report, q, s)
  BY Zenon DEF McReports!Fold, FoldLeft, McReports!FoldLeft, MapThenFoldSet,
               McReports!MapThenFoldSet, Max, McReports!Max
<1> QED
  BY <1>1, <1>6, <1>7 DEF s

\* The router asks.
LEMMA McQueryOK ==
    ASSUME NEW q, NEW A, NEW hd, NEW n \in Nat \ {0}, McQueuesOK(q, A, hd, n)
    PROVE  McQueuesOK([k \in Hosts |-> IF Len(q[k]) < MaxQueue THEN Append(q[k], McQuery(n)) ELSE q[k]],
                      {}, {}, n - 1)
<1>1. ASSUME NEW k \in Hosts
      PROVE  /\ McQueueOK(q[k], FALSE, {}, n - 1)
             /\ McQueueOK(Append(q[k], McQuery(n)), FALSE, {}, n - 1)
  <2> DEFINE u == q[k]
             f == McQuery(n)
             p == Append(u, f)
             m == Len(u)
  <2>1. /\ u \in Seq(McFrame) /\ m \in Nat
        /\ \A i \in 1 .. m : u[i] \in McFrame /\ (u[i].type = "query" => u[i].n > n)
    BY DEF McQueuesOK, McQueueOK
  <2>2. f \in McFrame /\ f.type = "query" /\ f.n = n
    BY McFrameIn
  <2>3. p \in Seq(McFrame) /\ Len(p) = m + 1 /\ p[m + 1] = f /\ \A i \in 1 .. m : p[i] = u[i]
    BY <2>1, <2>2
  <2>4. \A i \in 1 .. m : u[i] # f /\ (u[i].type = "query" => u[i].n > n - 1)
    <3> TAKE i \in 1 .. m
    <3>1. u[i] \in McFrame
      BY <2>1
    <3>2. u[i].type = "query" => u[i].n \in Nat
      BY <3>1, McFrameIn
    <3> QED BY <2>1, <2>2, <3>2
  <2> HIDE DEF u, f, p
  <2>5. McQueueOK(u, FALSE, {}, n - 1)
    <3>1. \A i \in 1 .. m : u[i] # McQuery((n - 1) + 1)
      BY <2>4 DEF f
    <3> QED BY <2>1, <2>4, <3>1 DEF McQueueOK
  <2>6. McQueueOK(p, FALSE, {}, n - 1)
    <3>1. \A i \in 1 .. m + 1 : i = m + 1 \/ i \in 1 .. m
      BY <2>1
    <3>2. \A i \in 1 .. m + 1 : p[i].type = "query" => p[i].n > n - 1
      BY <2>2, <2>3, <2>4, <3>1
    <3>3. ASSUME NEW i \in 1 .. m + 1, p[i].type = "report", NEW j \in 1 .. i - 1, p[j] = McQuery((n - 1) + 1)
          PROVE  FALSE
      <4>1. i \in 1 .. m
        BY <2>2, <2>3, <3>1, <3>3
      <4>2. j \in 1 .. m
        BY <2>1, <4>1
      <4> QED BY <2>3, <2>4, <3>3, <4>2 DEF f
    <3> QED BY <2>3, <3>2, <3>3 DEF McQueueOK
  <2> QED BY <2>5, <2>6 DEF u, p, f
<1> DEFINE p == [k \in Hosts |-> IF Len(q[k]) < MaxQueue THEN Append(q[k], McQuery(n)) ELSE q[k]]
<1>2. p = [k \in Hosts |-> p[k]] /\ \A k \in Hosts : p[k] = Append(q[k], McQuery(n)) \/ p[k] = q[k]
  OBVIOUS
<1> HIDE DEF p
<1>3. \A k \in Hosts : McQueueOK(p[k], FALSE, {}, n - 1)
  BY <1>1, <1>2, Zenon
<1>4. \A k \in Hosts : McQueueOK(p[k], k \in {}, {}, n - 1)
  BY <1>3 DEF McQueueOK
<1> QED
  BY <1>2, <1>4 DEF McQueuesOK, p

-----------------------------------------------------------------------------
(***************************************************************************)
(* The hosts.                                                              *)
(***************************************************************************)
\* The timers of a host that forgets some groups.
McFewer(a, b) ==
    /\ b = [inm |-> b.inm, running |-> b.running, filter |-> b.filter]
    /\ b.inm = [g \in DOMAIN b.inm |-> b.inm[g]]
    /\ b.running = a.running /\ DOMAIN b.inm \subseteq DOMAIN a.inm
    /\ \A g \in DOMAIN b.inm : InmOK(b.inm[g]) /\ b.inm[g].timer = a.inm[g].timer

LEMMA McFewerOK ==
    ASSUME NEW a, NEW b, McHostOK(a), McFewer(a, b)
    PROVE  McHostOK(b) /\ \A hd : Answered(a, hd) => Answered(b, hd)
  BY DEF McFewer, McHostOK, Answered

\* The fields of a record that change when a membership ends.
LEMMA InmFields ==
    ASSUME NEW r, InmOK(r)
    PROVE  \A x, y : [r EXCEPT !.pcbs = x, !.ref = y]
                       = [ref |-> y, timer |-> r.timer, pcbs |-> x, freed |-> r.freed]
<1> TAKE x, y
<1> DEFINE a == r.ref
           b == r.timer
           c == r.pcbs
           d == r.freed
           R == [ref |-> a, timer |-> b, pcbs |-> c, freed |-> d]
<1>1. r = R
  BY DEF InmOK
<1> HIDE DEF a, b, c, d
<1>2. [R EXCEPT !.pcbs = x] = [ref |-> a, timer |-> b, pcbs |-> x, freed |-> d]
  OBVIOUS
<1>3. [[ref |-> a, timer |-> b, pcbs |-> x, freed |-> d] EXCEPT !.ref = y]
        = [ref |-> y, timer |-> b, pcbs |-> x, freed |-> d]
  OBVIOUS
<1> HIDE DEF R
<1>4. [r EXCEPT !.pcbs = x, !.ref = y] = [ref |-> y, timer |-> b, pcbs |-> x, freed |-> d]
  BY <1>1, <1>2, <1>3
<1> QED
  BY <1>4 DEF b, d

\* A membership ends.
LEMMA McLeave ==
    ASSUME NEW hs, McHostOK(hs), NEW g, NEW s
    PROVE  McFewer(hs, in_delmulti(hs, g, s))
<1> DEFINE r == [hs.inm[g] EXCEPT !.pcbs = RemoveFirst(@, s), !.ref = @ - 1]
           i == hs.inm
<1>1. CASE r.ref = 0
  <2>1. in_delmulti(hs, g, s) = [hs EXCEPT !.inm = Without(@, g), !.filter = @ \ {g}]
    BY <1>1 DEF in_delmulti
  <2> DEFINE j == Without(i, g)
             b == [inm |-> j, running |-> hs.running, filter |-> hs.filter \ {g}]
  <2>2. DOMAIN j = DOMAIN i \ {g} /\ j = [x \in DOMAIN j |-> j[x]] /\ \A x \in DOMAIN j : j[x] = i[x]
    BY DEF Without
  <2> HIDE DEF j
  <2>3. in_delmulti(hs, g, s) = b
    BY <2>1 DEF McHostOK, j
  <2>4. b = [inm |-> b.inm, running |-> b.running, filter |-> b.filter]
        /\ b.inm = j /\ b.running = hs.running
    OBVIOUS
  <2> HIDE DEF b
  <2>5. McFewer(hs, b)
    BY <2>2, <2>4 DEF McFewer, McHostOK
  <2> QED BY <2>3, <2>5
<1>2. CASE r.ref # 0
  <2> DEFINE u == [r EXCEPT !.freed = TRUE]
  <2>1. in_delmulti(hs, g, s) = [hs EXCEPT !.inm[g] = u]
    BY <1>2 DEF in_delmulti
  <2>2. g \in DOMAIN i => InmOK(u) /\ u.timer = i[g].timer
    <3> SUFFICES ASSUME g \in DOMAIN i PROVE InmOK(u) /\ u.timer = i[g].timer
      OBVIOUS
    <3>1. InmOK(i[g])
      BY DEF McHostOK
    <3> DEFINE v == i[g]
    <3> HIDE DEF v
    <3>2. r = [ref |-> v.ref - 1, timer |-> v.timer, pcbs |-> RemoveFirst(v.pcbs, s), freed |-> v.freed]
      BY <3>1, InmFields DEF v
    <3> HIDE DEF r, v
    <3>3. \A w : [r EXCEPT !.freed = w]
                  = [ref |-> v.ref - 1, timer |-> v.timer, pcbs |-> RemoveFirst(v.pcbs, s), freed |-> w]
      BY <3>2
    <3>4. u = [ref |-> v.ref - 1, timer |-> v.timer, pcbs |-> RemoveFirst(v.pcbs, s), freed |-> TRUE]
      BY <3>3, Zenon
    <3> HIDE DEF u
    <3> QED BY <3>1, <3>4 DEF InmOK, v
  <2> HIDE DEF u
  <2>3. [hs EXCEPT !.inm[g] = u] = [hs EXCEPT !.inm = [i EXCEPT ![g] = u]]
    OBVIOUS
  <2>4. [i EXCEPT ![g] = u] = [x \in DOMAIN i |-> IF x = g THEN u ELSE i[x]]
    OBVIOUS
  <2> DEFINE j == [i EXCEPT ![g] = u]
             b == [hs EXCEPT !.inm = j]
  <2>5. DOMAIN j = DOMAIN i /\ \A x \in DOMAIN i : j[x] = IF x = g THEN u ELSE i[x]
    BY <2>4
  <2>6. b = [inm |-> j, running |-> hs.running, filter |-> hs.filter]
    BY DEF McHostOK
  <2>7. j = [x \in DOMAIN j |-> j[x]]
    BY <2>4
  <2> HIDE DEF j
  <2>8. b.inm = j /\ b.running = hs.running /\ b.filter = hs.filter
    BY <2>6
  <2>9. \A x \in DOMAIN j : InmOK(j[x]) /\ j[x].timer = i[x].timer
    BY <2>2, <2>5 DEF McHostOK
  <2> HIDE DEF b
  <2>10. McFewer(hs, b)
    BY <2>5, <2>6, <2>7, <2>8, <2>9 DEF McFewer
  <2> QED BY <2>1, <2>3, <2>10 DEF b, j
<1> QED
  BY <1>1, <1>2

\* The record of a group is replaced, or a new one is made.
LEMMA McPut ==
    ASSUME NEW hs, McHostOK(hs), NEW g \in Groups, NEW r, InmOK(r),
           NEW run \in BOOLEAN, hs.running => run, r.timer > 0 => run, NEW flt,
           NEW b, b = [inm |-> With(hs.inm, g, r), running |-> run, filter |-> flt]
    PROVE  McHostOK(b) /\ \A hd : Answered(hs, hd) /\ (g \in hd \/ r.timer > 0) => Answered(b, hd)
<1> DEFINE i == hs.inm
           j == With(i, g, r)
<1>1. /\ DOMAIN j = DOMAIN i \cup {g} /\ j = [x \in DOMAIN j |-> j[x]] /\ j[g] = r
      /\ \A x \in DOMAIN j : x # g => x \in DOMAIN i /\ j[x] = i[x]
  BY DEF With
<1> HIDE DEF j
<1>2. b.inm = j /\ b.running = run /\ b.filter = flt
      /\ b = [inm |-> b.inm, running |-> b.running, filter |-> b.filter]
  BY DEF j
<1>3. \A x \in DOMAIN j : InmOK(j[x]) /\ (j[x].timer > 0 => run)
  <2> TAKE x \in DOMAIN j
  <2>1. CASE x = g
    BY <1>1, <2>1
  <2>2. CASE x # g
    BY <1>1, <2>2 DEF McHostOK
  <2> QED BY <2>1, <2>2
<1>4. McHostOK(b)
  BY <1>1, <1>2, <1>3 DEF McHostOK
<1>5. ASSUME NEW hd, Answered(hs, hd), g \in hd \/ r.timer > 0 PROVE Answered(b, hd)
  BY <1>1, <1>2, <1>5 DEF Answered
<1> QED
  BY <1>4, <1>5

\* A part of the record of a group is replaced.
LEMMA McRecord ==
    ASSUME NEW hs, McHostOK(hs), NEW g \in DOMAIN hs.inm, NEW f
    PROVE  [hs EXCEPT !.inm[g] = f]
             = [inm |-> With(hs.inm, g, f), running |-> hs.running, filter |-> hs.filter]
<1> DEFINE i == hs.inm
<1>1. [i EXCEPT ![g] = f] = With(i, g, f)
  <2>1. DOMAIN i \cup {g} = DOMAIN i
    OBVIOUS
  <2>2. [i EXCEPT ![g] = f] = [x \in DOMAIN i |-> IF x = g THEN f ELSE i[x]]
    OBVIOUS
  <2> QED BY <2>1, <2>2 DEF With
<1>2. [hs EXCEPT !.inm[g] = f] = [hs EXCEPT !.inm = [i EXCEPT ![g] = f]]
  OBVIOUS
<1>3. \A j : [hs EXCEPT !.inm = j] = [inm |-> j, running |-> hs.running, filter |-> hs.filter]
  BY DEF McHostOK
<1> QED
  BY <1>1, <1>2, <1>3, Zenon

\* The other fields of a record that change.
LEMMA InmSets ==
    ASSUME NEW r, InmOK(r)
    PROVE  \A x : LET u == [r EXCEPT !.ref = x]
                      v == [r EXCEPT !.pcbs = x]
                      w == [r EXCEPT !.freed = x]
                  IN  /\ u = [ref |-> x, timer |-> r.timer, pcbs |-> r.pcbs, freed |-> r.freed]
                      /\ v = [ref |-> r.ref, timer |-> r.timer, pcbs |-> x, freed |-> r.freed]
                      /\ w = [ref |-> r.ref, timer |-> r.timer, pcbs |-> r.pcbs, freed |-> x]
                      /\ InmOK(u) /\ InmOK(v) /\ InmOK(w)
                      /\ u.timer = r.timer /\ v.timer = r.timer /\ w.timer = r.timer
<1> TAKE x
<1> DEFINE a == r.ref
           b == r.timer
           c == r.pcbs
           d == r.freed
           R == [ref |-> a, timer |-> b, pcbs |-> c, freed |-> d]
           u == [R EXCEPT !.ref = x]
           v == [R EXCEPT !.pcbs = x]
           w == [R EXCEPT !.freed = x]
<1>1. r = R /\ b \in Nat
  BY DEF InmOK
<1> HIDE DEF a, b, c, d
<1>2. /\ u = [ref |-> x, timer |-> b, pcbs |-> c, freed |-> d]
      /\ v = [ref |-> a, timer |-> b, pcbs |-> x, freed |-> d]
      /\ w = [ref |-> a, timer |-> b, pcbs |-> c, freed |-> x]
  OBVIOUS
<1> HIDE DEF u, v, w
<1>3. InmOK(u) /\ InmOK(v) /\ InmOK(w) /\ u.timer = b /\ v.timer = b /\ w.timer = b
  BY <1>1, <1>2 DEF InmOK
<1>4. u = [r EXCEPT !.ref = x] /\ v = [r EXCEPT !.pcbs = x] /\ w = [r EXCEPT !.freed = x]
  BY <1>1, Zenon DEF u, v, w
<1> HIDE DEF R
<1> QED
  BY <1>2, <1>3, <1>4, Zenon DEF a, b, c, d

LEMMA McNewInm ==
    ASSUME NEW d \in 1 .. MaxDelay
    PROVE  /\ InmOK(NewInm(d)) /\ NewInm(d).timer = d /\ d \in Nat /\ d > 0
           /\ NewInm(d) = [ref |-> 1, timer |-> d, pcbs |-> <<>>, freed |-> FALSE]
<1>1. d \in Nat /\ d > 0
  BY MulticastAssumption
<1> QED
  BY <1>1 DEF NewInm, InmOK

McBetter(a, b) == McHostOK(b) /\ \A hd : Answered(a, hd) => Answered(b, hd)

LEMMA McBetterTrans ==
    ASSUME NEW a, NEW b, NEW c, McBetter(a, b), McBetter(b, c)
    PROVE  McBetter(a, c)
  BY DEF McBetter

\* A field of a record is replaced, its timer is not.
LEMMA McSame ==
    ASSUME NEW hs, McHostOK(hs), NEW g \in DOMAIN hs.inm,
           NEW r, InmOK(r), r.timer = hs.inm[g].timer, NEW b, b = [hs EXCEPT !.inm[g] = r]
    PROVE  /\ McBetter(hs, b) /\ b.inm[g] = r /\ DOMAIN b.inm = DOMAIN hs.inm
           /\ b = [inm |-> With(hs.inm, g, r), running |-> hs.running, filter |-> hs.filter]
<1>1. b = [inm |-> With(hs.inm, g, r), running |-> hs.running, filter |-> hs.filter]
  BY McRecord
<1>2. g \in Groups /\ hs.running \in BOOLEAN /\ (r.timer > 0 => hs.running)
  BY DEF McHostOK
<1>3. McHostOK(b) /\ \A hd : Answered(hs, hd) /\ (g \in hd \/ r.timer > 0) => Answered(b, hd)
  BY <1>1, <1>2, McPut
<1>4. \A hd : Answered(hs, hd) => g \in hd \/ r.timer > 0
  BY DEF Answered
<1>5. b.inm[g] = r /\ DOMAIN b.inm = DOMAIN hs.inm
  BY <1>1 DEF With
<1> QED
  BY <1>1, <1>3, <1>4, <1>5 DEF McBetter

\* A group is joined that the host listens to.
LEMMA McJoinMore ==
    ASSUME NEW hs, McHostOK(hs), NEW g \in DOMAIN hs.inm, NEW s,
           NEW c, c = [hs EXCEPT !.inm[g].ref = @ + 1]
    PROVE  McBetter(hs, c) /\ McBetter(hs, [c EXCEPT !.inm[g].pcbs = <<s>> \o @])
<1> DEFINE v == hs.inm[g]
           r == [v EXCEPT !.ref = v.ref + 1]
           e == [c EXCEPT !.inm[g].pcbs = <<s>> \o @]
           x == <<s>> \o r.pcbs
           u == [r EXCEPT !.pcbs = x]
<1>1. InmOK(v)
  BY DEF McHostOK
<1>2. InmOK(r) /\ r.timer = v.timer
  <2> HIDE DEF v
  <2> QED BY <1>1, InmSets
<1>3. c = [hs EXCEPT !.inm[g] = r]
  OBVIOUS
<1> HIDE DEF r
<1>4. McBetter(hs, c) /\ c.inm[g] = r /\ DOMAIN c.inm = DOMAIN hs.inm
  BY <1>2, <1>3, McSame
<1>5. InmOK(u) /\ u.timer = r.timer
  BY <1>2, InmSets
<1>6. e = [c EXCEPT !.inm[g] = u]
  BY <1>4
<1>7. McHostOK(c) /\ g \in DOMAIN c.inm /\ u.timer = c.inm[g].timer
  BY <1>4, <1>5 DEF McBetter
<1> HIDE DEF u, e
<1>8. McBetter(c, e)
  BY <1>5, <1>6, <1>7, McSame
<1> QED
  BY <1>4, <1>8, McBetterTrans DEF e

\* A group is joined that it did not listen to.
LEMMA McJoinNew ==
    ASSUME NEW hs, McHostOK(hs), NEW g \in Groups, NEW s, NEW d \in 1 .. MaxDelay,
           NEW n, n = [hs EXCEPT !.inm = With(@, g, NewInm(d)), !.filter = @ \cup {g}, !.running = TRUE]
    PROVE  McBetter(hs, [n EXCEPT !.inm[g].freed = TRUE]) /\ McBetter(hs, [n EXCEPT !.inm[g].pcbs = <<s>>])
<1> DEFINE N == NewInm(d)
           e1 == [n EXCEPT !.inm[g].freed = TRUE]
           e2 == [n EXCEPT !.inm[g].pcbs = <<s>>]
           u1 == [N EXCEPT !.freed = TRUE]
           u2 == [N EXCEPT !.pcbs = <<s>>]
           flt == hs.filter \cup {g}
           T == TRUE
<1>1. n = [inm |-> With(hs.inm, g, N), running |-> T, filter |-> flt] /\ n.inm = With(hs.inm, g, N)
  <2> DEFINE i == hs.inm
             b == hs.running
             f == hs.filter
             j == With(i, g, N)
  <2>1. hs = [inm |-> i, running |-> b, filter |-> f]
    BY DEF McHostOK
  <2>2. n = [hs EXCEPT !.inm = j, !.filter = f \cup {g}, !.running = TRUE]
    OBVIOUS
  <2> HIDE DEF i, b, f, j, N
  <2> DEFINE z == f \cup {g}
             q1 == [hs EXCEPT !.inm = j]
             q2 == [q1 EXCEPT !.filter = z]
             q3 == [q2 EXCEPT !.running = T]
  <2>3. n = q3
    BY <2>2
  <2> HIDE DEF T, z
  <2>4. q1 = [inm |-> j, running |-> b, filter |-> f]
    BY <2>1
  <2> HIDE DEF q1
  <2>5. q2 = [inm |-> j, running |-> b, filter |-> z]
    BY <2>4
  <2> HIDE DEF q2
  <2>6. q3 = [inm |-> j, running |-> T, filter |-> z] /\ q3.inm = j
    BY <2>5
  <2> HIDE DEF q3
  <2> QED BY <2>3, <2>6, Zenon DEF j, i, f, T, z
<1>2. InmOK(N) /\ N.timer > 0
  BY McNewInm
<1>0. (hs.running => T) /\ (N.timer > 0 => T) /\ T \in BOOLEAN
  OBVIOUS
<1> HIDE DEF N, flt, T
<1>3. McHostOK(n) /\ \A hd : Answered(hs, hd) /\ (g \in hd \/ N.timer > 0) => Answered(n, hd)
  BY <1>0, <1>1, <1>2, McPut
<1>4. McBetter(hs, n)
  BY <1>2, <1>3 DEF McBetter
<1>5. g \in DOMAIN n.inm /\ n.inm[g] = N
  <2> DEFINE j == With(hs.inm, g, N)
  <2>1. g \in DOMAIN j /\ j[g] = N
    BY DEF With
  <2> HIDE DEF j
  <2>2. n.inm = j
    BY <1>1, Zenon DEF j
  <2> QED BY <2>1, <2>2, Zenon
<1>6. InmOK(u1) /\ u1.timer = N.timer /\ InmOK(u2) /\ u2.timer = N.timer
  BY <1>2, InmSets
<1>7. e1 = [n EXCEPT !.inm[g] = u1] /\ e2 = [n EXCEPT !.inm[g] = u2]
  BY <1>5
<1> HIDE DEF u1, u2, e1, e2
<1>8. McBetter(n, e1) /\ McBetter(n, e2)
  BY <1>3, <1>5, <1>6, <1>7, McSame
<1> QED
  BY <1>4, <1>8, McBetterTrans DEF e1, e2

\* A group is joined.
LEMMA McJoin ==
    ASSUME NEW hs, McHostOK(hs), NEW g \in Groups, NEW s, NEW d \in 1 .. MaxDelay, NEW short
    PROVE  McBetter(hs, in_addmulti(hs, g, s, d, short).h)
<1> DEFINE a == in_addmulti(hs, g, s, d, short)
<1>0. \A h, ok, rep : Added(h, ok, rep).h = h
  BY DEF Added
<1>1. McBetter(hs, hs)
  BY DEF McBetter
<1>2. CASE g \in DOMAIN hs.inm
  <2> DEFINE c == [hs EXCEPT !.inm[g].ref = @ + 1]
             e == [c EXCEPT !.inm[g].pcbs = <<s>> \o @]
  <2>1. a = Added(IF short = "pcb" THEN c ELSE e, FALSE, FALSE)
    BY <1>2 DEF in_addmulti
  <2>2. McBetter(hs, c) /\ McBetter(hs, e)
    BY <1>2, McJoinMore
  <2> HIDE DEF c, e, a
  <2>3. a.h = c \/ a.h = e
    BY <1>0, <2>1
  <2> QED BY <2>2, <2>3 DEF a
<1>3. CASE g \notin DOMAIN hs.inm
  <2> DEFINE n == [hs EXCEPT !.inm = With(@, g, NewInm(d)), !.filter = @ \cup {g}, !.running = TRUE]
             e1 == [n EXCEPT !.inm[g].freed = TRUE]
             e2 == [n EXCEPT !.inm[g].pcbs = <<s>>]
  <2>1. \/ a = Added(hs, FALSE, FALSE)
        \/ a = Added(e1, FALSE, TRUE)
        \/ a = Added(e2, TRUE, TRUE)
    BY <1>3 DEF in_addmulti
  <2>2. McBetter(hs, e1) /\ McBetter(hs, e2)
    BY McJoinNew
  <2> HIDE DEF e1, e2, a
  <2>3. a.h = hs \/ a.h = e1 \/ a.h = e2
    <3>1. CASE a = Added(hs, FALSE, FALSE)
      BY <1>0, <3>1, Zenon
    <3>2. CASE a = Added(e1, FALSE, TRUE)
      BY <1>0, <3>2, Zenon
    <3>3. CASE a = Added(e2, TRUE, TRUE)
      BY <1>0, <3>3, Zenon
    <3> QED BY <2>1, <3>1, <3>2, <3>3
  <2> QED BY <1>1, <2>2, <2>3 DEF a
<1> QED
  BY <1>2, <1>3

\* The timer of a record is set.
LEMMA InmTimer ==
    ASSUME NEW r, InmOK(r), NEW x \in Nat
    PROVE  InmOK([r EXCEPT !.timer = x]) /\ [r EXCEPT !.timer = x].timer = x
<1> DEFINE a == r.ref
           b == r.timer
           c == r.pcbs
           d == r.freed
           R == [ref |-> a, timer |-> b, pcbs |-> c, freed |-> d]
           u == [r EXCEPT !.timer = x]
<1>1. r = R
  BY DEF InmOK
<1> HIDE DEF a, b, c, d
<1>2. u = [ref |-> a, timer |-> x, pcbs |-> c, freed |-> d]
  BY <1>1
<1> HIDE DEF u
<1>3. InmOK(u) /\ u.timer = x
  BY <1>2 DEF InmOK
<1> QED
  BY <1>3 DEF u

\* The table and the flag of a host are replaced.
McSet(hs, j, run) == [hs EXCEPT !.inm = j, !.running = run]

LEMMA McTimers ==
    ASSUME NEW hs, McHostOK(hs), NEW j, NEW run,
           NEW b, b = McSet(hs, j, run)
    PROVE  b = [inm |-> j, running |-> run, filter |-> hs.filter]
           /\ b.inm = j /\ b.running = run /\ b.filter = hs.filter
<1> DEFINE i == hs.inm
           r == hs.running
           f == hs.filter
           q1 == [hs EXCEPT !.inm = j]
           q2 == [q1 EXCEPT !.running = run]
<1>1. hs = [inm |-> i, running |-> r, filter |-> f]
  BY DEF McHostOK
<1>2. b = q2
  BY DEF McSet
<1> HIDE DEF i, r, f
<1>3. q1 = [inm |-> j, running |-> r, filter |-> f]
  BY <1>1
<1> HIDE DEF q1
<1>4. q2 = [inm |-> j, running |-> run, filter |-> f]
  BY <1>3
<1> HIDE DEF q2
<1>5. q2.inm = j /\ q2.running = run /\ q2.filter = f
  BY <1>4
<1> QED
  BY <1>2, <1>4, <1>5, Zenon DEF f

\* A host takes a query.
LEMMA McAsked ==
    ASSUME NEW hs, McHostOK(hs), NEW f, f.type = "query", NEW delay \in [Groups -> 1 .. MaxDelay]
    PROVE  McHostOK(igmp_input(hs, f, delay)) /\ \A hd : Answered(igmp_input(hs, f, delay), hd)
<1> DEFINE i == hs.inm
           j == [g \in DOMAIN i |-> IF i[g].timer = 0 THEN [i[g] EXCEPT !.timer = delay[g]] ELSE i[g]]
           run == hs.running \/ \E g \in DOMAIN i : i[g].timer = 0
           b == igmp_input(hs, f, delay)
<1>1. b = McSet(hs, j, run)
  BY DEF igmp_input, McSet
<1>2. ASSUME NEW g \in DOMAIN i
      PROVE  InmOK(j[g]) /\ j[g].timer > 0 /\ run
  <2>1. InmOK(i[g]) /\ i[g].timer \in Nat /\ (i[g].timer > 0 => hs.running) /\ g \in Groups
    BY DEF McHostOK, InmOK
  <2>2. delay[g] \in Nat /\ delay[g] > 0
    BY <2>1, MulticastAssumption
  <2>3. InmOK([i[g] EXCEPT !.timer = delay[g]]) /\ [i[g] EXCEPT !.timer = delay[g]].timer = delay[g]
    BY <2>1, <2>2, InmTimer
  <2>4. CASE i[g].timer = 0
    BY <2>2, <2>3, <2>4
  <2>5. CASE i[g].timer # 0
    BY <2>1, <2>5
  <2> QED BY <2>4, <2>5
<1>3. DOMAIN j = DOMAIN i /\ j = [g \in DOMAIN j |-> j[g]] /\ DOMAIN i \subseteq Groups /\ run \in BOOLEAN
  BY DEF McHostOK
<1> HIDE DEF j, run, b
<1>4. b = [inm |-> j, running |-> run, filter |-> hs.filter]
      /\ b.inm = j /\ b.running = run /\ b.filter = hs.filter
  BY <1>1, McTimers
<1>5. McHostOK(b)
  BY <1>2, <1>3, <1>4 DEF McHostOK
<1>6. \A hd : Answered(b, hd)
  BY <1>2, <1>3, <1>4 DEF Answered
<1> QED
  BY <1>5, <1>6 DEF b

\* A host hears the report of another one.
LEMMA McHears ==
    ASSUME NEW hs, McHostOK(hs), NEW f, f.type = "report", NEW delay
    PROVE  /\ McHostOK(igmp_input(hs, f, delay))
           /\ \A hd : Answered(hs, hd) /\ f.group \in hd => Answered(igmp_input(hs, f, delay), hd)
<1> DEFINE g == f.group
           r == [hs.inm[g] EXCEPT !.timer = 0]
           b == igmp_input(hs, f, delay)
<1>1. CASE g \in DOMAIN hs.inm
  <2>1. b = [hs EXCEPT !.inm[g] = r]
    BY <1>1 DEF igmp_input
  <2>2. InmOK(r) /\ r.timer = 0
    <3>1. InmOK(hs.inm[g])
      BY <1>1 DEF McHostOK
    <3> QED BY <3>1, InmTimer
  <2> HIDE DEF r, b, g
  <2>3. b = [inm |-> With(hs.inm, g, r), running |-> hs.running, filter |-> hs.filter]
    BY <1>1, <2>1, McRecord
  <2>4. g \in Groups /\ hs.running \in BOOLEAN /\ ~(r.timer > 0)
    BY <1>1, <2>2 DEF McHostOK
  <2>5. McHostOK(b) /\ \A hd : Answered(hs, hd) /\ (g \in hd \/ r.timer > 0) => Answered(b, hd)
    BY <2>2, <2>3, <2>4, McPut
  <2> QED BY <2>5 DEF b, g
<1>2. CASE g \notin DOMAIN hs.inm
  <2>1. b = hs
    BY <1>2 DEF igmp_input
  <2> QED BY <2>1
<1> QED
  BY <1>1, <1>2

\* The timers of a host run once.
LEMMA McRuns ==
    ASSUME NEW hs, McHostOK(hs), NEW b,
           b = [hs EXCEPT !.inm = Ticked(@), !.running = Running(hs.inm)]
    PROVE  McHostOK(b) /\ \A hd : Answered(hs, hd)
             => Answered(b, hd \cup {g \in DOMAIN hs.inm : hs.inm[g].timer = 1})
<1> DEFINE i == hs.inm
           j == [g \in DOMAIN i |-> [i[g] EXCEPT !.timer = IF i[g].timer = 0 THEN 0 ELSE i[g].timer - 1]]
           run == Running(i)
<1>1. b = McSet(hs, j, run)
  BY DEF McSet, Ticked
<1>2. ASSUME NEW g \in DOMAIN i
      PROVE  /\ InmOK(j[g]) /\ i[g].timer \in Nat
             /\ j[g].timer = IF i[g].timer = 0 THEN 0 ELSE i[g].timer - 1
             /\ j[g].timer > 0 => run
  <2> DEFINE t == IF i[g].timer = 0 THEN 0 ELSE i[g].timer - 1
  <2>1. InmOK(i[g]) /\ i[g].timer \in Nat /\ t \in Nat
    BY DEF McHostOK, InmOK
  <2>2. InmOK([i[g] EXCEPT !.timer = t]) /\ [i[g] EXCEPT !.timer = t].timer = t
    <3> HIDE DEF t
    <3> QED BY <2>1, InmTimer
  <2>3. j[g] = [i[g] EXCEPT !.timer = t]
    OBVIOUS
  <2>4. t > 0 => run
    BY <2>1 DEF Running
  <2> QED BY <2>1, <2>2, <2>3, <2>4
<1>3. DOMAIN j = DOMAIN i /\ j = [g \in DOMAIN j |-> j[g]] /\ DOMAIN i \subseteq Groups /\ run \in BOOLEAN
  BY DEF McHostOK, Running
<1> HIDE DEF j, run
<1>4. b = [inm |-> j, running |-> run, filter |-> hs.filter]
      /\ b.inm = j /\ b.running = run /\ b.filter = hs.filter
  BY ONLY McHostOK(hs), <1>1, McTimers
<1>5. McHostOK(b)
  BY <1>2, <1>3, <1>4 DEF McHostOK
<1>6. ASSUME NEW hd, Answered(hs, hd) PROVE Answered(b, hd \cup {g \in DOMAIN i : i[g].timer = 1})
  <2> SUFFICES ASSUME NEW g \in DOMAIN j PROVE g \in hd \/ i[g].timer = 1 \/ j[g].timer > 0
    BY <1>3, <1>4 DEF Answered
  <2>1. g \in hd \/ i[g].timer > 0
    BY <1>3, <1>6 DEF Answered
  <2> QED BY <1>2, <1>3, <2>1
<1> QED
  BY <1>5, <1>6

-----------------------------------------------------------------------------
(***************************************************************************)
(* The actions.                                                            *)
(***************************************************************************)
LEMMA McOptions ==
    ASSUME NEW o, McImoOK(o), NEW x
    PROVE  /\ McImoOK([o EXCEPT !.ifp = x]) /\ [o EXCEPT !.ifp = x].mem = o.mem
           /\ McImoOK([o EXCEPT !.ttl = x]) /\ [o EXCEPT !.ttl = x].mem = o.mem
           /\ McImoOK([o EXCEPT !.loop = x]) /\ [o EXCEPT !.loop = x].mem = o.mem
           /\ x \in Seq(Groups) /\ NoDup(x) => McImoOK([o EXCEPT !.mem = x])
           /\ [o EXCEPT !.mem = x].mem = x
<1> DEFINE a == o.ifp
           b == o.ttl
           c == o.loop
           d == o.mem
           R == [ifp |-> a, ttl |-> b, loop |-> c, mem |-> d]
           u1 == [R EXCEPT !.ifp = x]
           u2 == [R EXCEPT !.ttl = x]
           u3 == [R EXCEPT !.loop = x]
           u4 == [R EXCEPT !.mem = x]
<1>1. o = R /\ d \in Seq(Groups) /\ NoDup(d)
  BY DEF McImoOK
<1> HIDE DEF a, b, c, d
<1>2. /\ u1 = [ifp |-> x, ttl |-> b, loop |-> c, mem |-> d]
      /\ u2 = [ifp |-> a, ttl |-> x, loop |-> c, mem |-> d]
      /\ u3 = [ifp |-> a, ttl |-> b, loop |-> x, mem |-> d]
      /\ u4 = [ifp |-> a, ttl |-> b, loop |-> c, mem |-> x]
  OBVIOUS
<1> HIDE DEF u1, u2, u3, u4
<1>3. /\ McImoOK(u1) /\ McImoOK(u2) /\ McImoOK(u3) /\ u1.mem = d /\ u2.mem = d /\ u3.mem = d
      /\ (x \in Seq(Groups) /\ NoDup(x) => McImoOK(u4)) /\ u4.mem = x
  BY <1>1, <1>2 DEF McImoOK
<1>4. u1 = [o EXCEPT !.ifp = x] /\ u2 = [o EXCEPT !.ttl = x] /\ u3 = [o EXCEPT !.loop = x]
      /\ u4 = [o EXCEPT !.mem = x]
  BY <1>1, Zenon DEF u1, u2, u3, u4
<1> HIDE DEF R
<1> QED
  BY <1>3, <1>4, Zenon DEF d

\* One host changes for the better while nothing else does.
McHostsOK(H, hd, A) ==
    /\ H = [h \in Hosts |-> H[h]] /\ \A h \in Hosts : McHostOK(H[h])
    /\ \A h \in A : Answered(H[h], hd)

LEMMA McOneBetter ==
    ASSUME NEW H, NEW hd, NEW A \in SUBSET Hosts, McHostsOK(H, hd, A),
           NEW h \in Hosts, NEW b, McHostOK(b), Answered(H[h], hd) => Answered(b, hd)
    PROVE  McHostsOK([H EXCEPT ![h] = b], hd, A)
<1> DEFINE G == [H EXCEPT ![h] = b]
<1>1. G = [k \in Hosts |-> G[k]] /\ \A k \in Hosts : G[k] = IF k = h THEN b ELSE H[k]
  BY DEF McHostsOK
<1> HIDE DEF G
<1> QED
  BY <1>1 DEF McHostsOK, G

LEMMA McHeardMore ==
    ASSUME NEW H, NEW hd, NEW A, McHostsOK(H, hd, A), NEW x
    PROVE  McHostsOK(H, hd \cup x, A)
  BY DEF McHostsOK, Answered

LEMMA McInvIs ==
    McInv <=> /\ imo = [s \in Socks |-> imo[s]] /\ \A s \in Socks : McImoOK(imo[s])
              /\ left \in [queries : Nat, sends : Nat, groups : SUBSET Groups]
              /\ asked \subseteq Hosts /\ heard \subseteq Groups
              /\ McQueuesOK(ipintrq, asked, heard, left.queries)
              /\ McHostsOK(host, heard, asked)
  BY DEF McInv, McHostsOK

LEMMA McInvIsPrimed ==
    McInv' <=> /\ imo' = [s \in Socks |-> imo'[s]] /\ \A s \in Socks : McImoOK(imo'[s])
               /\ left' \in [queries : Nat, sends : Nat, groups : SUBSET Groups]
               /\ asked' \subseteq Hosts /\ heard' \subseteq Groups
               /\ McQueuesOK(ipintrq', asked', heard', left'.queries)
               /\ McHostsOK(host', heard', asked')
  BY DEF McInv, McHostsOK

\* The options of one socket change.
LEMMA McImoOne ==
    ASSUME imo = [s \in Socks |-> imo[s]], \A s \in Socks : McImoOK(imo[s]),
           NEW s \in Socks, NEW o, McImoOK(o), imo' = [imo EXCEPT ![s] = o]
    PROVE  imo' = [t \in Socks |-> imo'[t]] /\ \A t \in Socks : McImoOK(imo'[t])
<1>1. imo' = [t \in Socks |-> IF t = s THEN o ELSE imo[t]]
  OBVIOUS
<1> QED
  BY <1>1

LEMMA McSetOption ==
    ASSUME McInv, NEW s \in Socks, NEW o, McImoOK(o), SetOption(s, o)
    PROVE  McInv'
<1>1. imo' = [t \in Socks |-> imo'[t]] /\ \A t \in Socks : McImoOK(imo'[t])
  BY McImoOne DEF McInv, SetOption
<1> QED
  BY <1>1, McInvIs, McInvIsPrimed DEF SetOption

LEMMA McAddInv ==
    ASSUME McInv, NEW s \in Socks, NEW g \in Groups, NEW d \in 1 .. MaxDelay, NEW short,
           ADD_MEMBERSHIP(s, g, d, short)
    PROVE  McInv'
<1> DEFINE h == HostOf[s]
           a == in_addmulti(host[h], g, s, d, short)
           o == imo[s]
<1>1. h \in Hosts
  BY MulticastAssumption
<1>2. McHostOK(host[h]) /\ McHostsOK(host, heard, asked) /\ asked \in SUBSET Hosts
  BY <1>1, McInvIs DEF McHostsOK
<1>3. McBetter(host[h], a.h)
  BY <1>2, McJoin
<1>4. host' = [host EXCEPT ![h] = a.h] /\ UNCHANGED <<left, asked, got>> /\ ~Contains(o.mem, g)
      /\ ipintrq' = (IF a.report THEN Report(ipintrq, <<h, g>>) ELSE ipintrq)
      /\ heard' = (IF a.report THEN heard \cup {g} ELSE heard)
      /\ imo' = [imo EXCEPT ![s].mem = IF a.ok THEN Append(@, g) ELSE @]
  BY DEF ADD_MEMBERSHIP
<1> HIDE DEF a, h
<1>5. McHostsOK(host', heard, asked)
  BY <1>1, <1>2, <1>3, <1>4, McOneBetter DEF McBetter
<1>6. McHostsOK(host', heard', asked)
  BY <1>4, <1>5, McHeardMore
<1>7. McQueuesOK(ipintrq', asked, heard', left.queries) /\ heard' \subseteq Groups
  <2>1. McQueuesOK(ipintrq, asked, heard, left.queries) /\ left.queries \in Nat /\ heard \subseteq Groups
    BY McInvIs
  <2>2. CASE a.report
    <3>1. McQueuesOK(ipintrq, asked, heard', left.queries) /\ g \in heard' /\ heard' = heard \cup {g}
      BY <2>1, <2>2, <1>4, McMoreAll
    <3>2. <<h, g>>[2] = g
      OBVIOUS
    <3>3. McQueuesOK(Report(ipintrq, <<h, g>>), asked, heard', left.queries)
      BY <2>1, <3>1, <3>2, McReportOK
    <3> QED BY <2>1, <2>2, <1>4, <3>1, <3>3
  <2>3. CASE ~a.report
    BY <2>1, <2>3, <1>4
  <2> QED BY <2>2, <2>3
<1>8. imo' = [t \in Socks |-> imo'[t]] /\ \A t \in Socks : McImoOK(imo'[t])
  <2>1. McImoOK(o)
    BY McInvIs
  <2> DEFINE m == IF a.ok THEN Append(o.mem, g) ELSE o.mem
             u == [o EXCEPT !.mem = m]
  <2>2. o.mem \in Seq(Groups) /\ NoDup(o.mem) /\ ~Member(o.mem, g)
    BY <2>1, <1>4 DEF McImoOK, Contains, Member
  <2>3. m \in Seq(Groups) /\ NoDup(m)
    BY <2>2, AppendOK
  <2>4. imo' = [imo EXCEPT ![s] = u]
    BY <1>4
  <2> HIDE DEF m, o
  <2>5. McImoOK(u)
    BY <2>1, <2>3, McOptions
  <2> HIDE DEF u
  <2> QED BY <2>4, <2>5, McInvIs, McImoOne
<1>9. left' = left /\ asked' = asked
  BY <1>4
<1> QED
  BY <1>6, <1>7, <1>8, <1>9, McInvIs, McInvIsPrimed

LEMMA McDropInv ==
    ASSUME McInv, NEW s \in Socks, NEW g \in Groups, DROP_MEMBERSHIP(s, g)
    PROVE  McInv'
<1> DEFINE h == HostOf[s]
           b == in_delmulti(host[h], g, s)
           o == imo[s]
           m == RemoveFirst(o.mem, g)
           u == [o EXCEPT !.mem = m]
<1>1. h \in Hosts
  BY MulticastAssumption
<1>2. McHostOK(host[h]) /\ McHostsOK(host, heard, asked) /\ asked \in SUBSET Hosts
  BY <1>1, McInvIs DEF McHostsOK
<1>3. McHostOK(b) /\ \A hd : Answered(host[h], hd) => Answered(b, hd)
  BY <1>2, McLeave, McFewerOK
<1>4. host' = [host EXCEPT ![h] = b] /\ UNCHANGED <<ipintrq, left, asked, heard, got>>
      /\ imo' = [imo EXCEPT ![s] = u]
  BY DEF DROP_MEMBERSHIP
<1>5. McImoOK(o)
  BY McInvIs
<1>6. m \in Seq(Groups) /\ NoDup(m)
  BY <1>5, RemoveOK DEF McImoOK
<1> HIDE DEF b, h, m, o
<1>7. McHostsOK(host', heard, asked)
  BY <1>1, <1>2, <1>3, <1>4, McOneBetter
<1>8. McImoOK(u)
  BY <1>5, <1>6, McOptions
<1> HIDE DEF u
<1>9. imo' = [t \in Socks |-> imo'[t]] /\ \A t \in Socks : McImoOK(imo'[t])
  BY <1>4, <1>8, McInvIs, McImoOne
<1> QED
  BY <1>4, <1>7, <1>9, McInvIs, McInvIsPrimed

\* All the memberships of a socket end.
McStays(hs) == McHostOK(hs)
McCovered(hs) == McHostOK(hs) /\ Answered(hs, heard)
McLeaving  == INSTANCE SeqLemmas WITH Op <- Leave, Holds <- McStays
McLeaving2 == INSTANCE SeqLemmas WITH Op <- Leave, Holds <- McCovered

LEMMA McFreeInv ==
    ASSUME McInv, NEW s \in Socks, ip_freemoptions(s)
    PROVE  McInv'
<1> DEFINE h == HostOf[s]
           o == imo[s]
           q == [i \in DOMAIN o.mem |-> <<o.mem[i], s>>]
           b == FoldLeft(Leave, host[h], q)
<1>1. h \in Hosts
  BY MulticastAssumption
<1>2. McHostOK(host[h]) /\ McHostsOK(host, heard, asked) /\ asked \in SUBSET Hosts
  BY <1>1, McInvIs DEF McHostsOK
<1>3. host' = [host EXCEPT ![h] = b] /\ UNCHANGED <<ipintrq, left, asked, heard, got>>
      /\ imo' = [imo EXCEPT ![s] = DefaultImo]
  BY DEF ip_freemoptions
<1>4. q \in Seq(Groups \X {s})
  <2>1. o.mem \in Seq(Groups)
    BY McInvIs DEF McImoOK
  <2>2. /\ DOMAIN o.mem = 1 .. Len(o.mem) /\ Len(o.mem) \in Nat
        /\ \A i \in 1 .. Len(o.mem) : o.mem[i] \in Groups
    BY <2>1
  <2> HIDE DEF o
  <2> QED BY <2>2
<1> HIDE DEF q, h
<1>5. \A x, m : McStays(x) => McStays(Leave(x, m))
  BY McLeave, McFewerOK DEF McStays, Leave
<1>6. \A x, m : McCovered(x) => McCovered(Leave(x, m))
  BY McLeave, McFewerOK DEF McCovered, Leave
<1>7. b = McLeaving!Fold(host[h], q)
  BY Zenon DEF McLeaving!Fold, FoldLeft, McLeaving!FoldLeft, MapThenFoldSet,
               McLeaving!MapThenFoldSet, Max, McLeaving!Max
<1>8. b = McLeaving2!Fold(host[h], q)
  BY Zenon DEF McLeaving2!Fold, FoldLeft, McLeaving2!FoldLeft, MapThenFoldSet,
               McLeaving2!MapThenFoldSet, Max, McLeaving2!Max
<1>9. McHostOK(b)
  <2>1. McStays(host[h])
    BY <1>2 DEF McStays
  <2>2. McStays(McLeaving!Fold(host[h], q))
    BY <1>4, <1>5, <2>1, McLeaving!FoldHolds
  <2> QED BY <1>7, <2>2 DEF McStays
<1>10. Answered(host[h], heard) => Answered(b, heard)
  <2> SUFFICES ASSUME Answered(host[h], heard) PROVE Answered(b, heard)
    OBVIOUS
  <2>1. McCovered(host[h])
    BY <1>2 DEF McCovered
  <2>2. McCovered(McLeaving2!Fold(host[h], q))
    BY <1>4, <1>6, <2>1, McLeaving2!FoldHolds
  <2> QED BY <1>8, <2>2 DEF McCovered
<1> HIDE DEF b
<1>11. McHostsOK(host', heard, asked)
  BY <1>1, <1>2, <1>3, <1>9, <1>10, McOneBetter
<1>12. McImoOK(DefaultImo)
  BY DEF McImoOK, DefaultImo, NoDup
<1>13. imo' = [t \in Socks |-> imo'[t]] /\ \A t \in Socks : McImoOK(imo'[t])
  BY <1>3, <1>12, McInvIs, McImoOne
<1> QED
  BY <1>3, <1>11, <1>13, McInvIs, McInvIsPrimed

LEMMA McFasttimoInv ==
    ASSUME McInv, NEW h \in Hosts, igmp_fasttimo(h)
    PROVE  McInv'
<1> DEFINE gs == Due(h)
           b == [host[h] EXCEPT !.inm = Ticked(@), !.running = Running(host[h].inm)]
           hd == heard \cup gs
<1>1. McHostOK(host[h]) /\ McHostsOK(host, heard, asked) /\ asked \in SUBSET Hosts
  BY McInvIs DEF McHostsOK
<1>2. host' = [host EXCEPT ![h] = b] /\ UNCHANGED <<imo, left, asked, got>>
      /\ ipintrq' = FoldLeft(Report, ipintrq, SetToSeq({h} \X gs)) /\ heard' = hd
  BY DEF igmp_fasttimo, igmp_sendreport
<1>3. gs = {g \in DOMAIN host[h].inm : host[h].inm[g].timer = 1} /\ gs \subseteq Groups
  BY <1>1 DEF Due, McHostOK
<1>4. McHostOK(b) /\ (Answered(host[h], heard) => Answered(b, hd))
  BY <1>1, <1>3, McRuns
<1> HIDE DEF gs, b
<1>5. McHostsOK(host, hd, asked)
  BY <1>1, McHeardMore
<1>6. McHostsOK(host', hd, asked)
  <2>1. host' = [k \in Hosts |-> host'[k]] /\ \A k \in Hosts : host'[k] = IF k = h THEN b ELSE host[k]
    BY <1>1, <1>2 DEF McHostsOK
  <2>2. \A k \in Hosts : McHostOK(host'[k])
    BY <1>1, <1>4, <2>1 DEF McHostsOK
  <2>3. \A k \in asked : Answered(host'[k], hd)
    <3> TAKE k \in asked
    <3>1. k \in Hosts /\ Answered(host[k], heard) /\ Answered(host[k], hd)
      BY <1>1, <1>5 DEF McHostsOK
    <3> HIDE DEF hd
    <3> QED BY <1>4, <2>1, <3>1
  <2> QED BY <2>1, <2>2, <2>3 DEF McHostsOK
<1>7. McQueuesOK(ipintrq', asked, hd, left.queries)
  <2>1. McQueuesOK(ipintrq, asked, hd, left.queries) /\ left.queries \in Nat
    BY McInvIs, McMoreAll
  <2> QED BY <1>2, <1>3, <2>1, McReportsOK
<1>8. hd \subseteq Groups
  BY <1>3, McInvIs
<1> HIDE DEF hd
<1> QED
  BY <1>2, <1>6, <1>7, <1>8, McInvIs, McInvIsPrimed

LEMMA McLeft ==
    ASSUME NEW l \in [queries : Nat, sends : Nat, groups : SUBSET Groups]
    PROVE  /\ l.queries \in Nat /\ l.sends \in Nat
           /\ \A x \in Nat : [l EXCEPT !.queries = x] \in [queries : Nat, sends : Nat, groups : SUBSET Groups]
                              /\ [l EXCEPT !.queries = x].queries = x
                              /\ [l EXCEPT !.queries = x].sends = l.sends
           /\ \A x \in Nat : [l EXCEPT !.sends = x] \in [queries : Nat, sends : Nat, groups : SUBSET Groups]
                              /\ [l EXCEPT !.sends = x].queries = l.queries
                              /\ [l EXCEPT !.sends = x].sends = x
  OBVIOUS

LEMMA McQueryInv ==
    ASSUME McInv, Query
    PROVE  McInv'
<1> DEFINE n == left.queries
<1>1. /\ n > 0 /\ left' = [left EXCEPT !.queries = n - 1] /\ heard' = {} /\ asked' = {}
      /\ ipintrq' = [k \in Hosts |-> IF Len(ipintrq[k]) < MaxQueue
                                     THEN Append(ipintrq[k], McQuery(n)) ELSE ipintrq[k]]
      /\ UNCHANGED <<host, imo, got>>
  BY DEF Query, McQuery
<1>2. n \in Nat \ {0} /\ left \in [queries : Nat, sends : Nat, groups : SUBSET Groups]
      /\ McQueuesOK(ipintrq, asked, heard, n)
  BY <1>1, McInvIs
<1> HIDE DEF n
<1>3. left' \in [queries : Nat, sends : Nat, groups : SUBSET Groups] /\ left'.queries = n - 1
  BY <1>1, <1>2, McLeft
<1>4. McQueuesOK(ipintrq', {}, {}, n - 1)
  BY <1>1, <1>2, McQueryOK
<1>5. McHostsOK(host, {}, {})
  BY McInvIs DEF McHostsOK
<1> QED
  BY <1>1, <1>3, <1>4, <1>5, McInvIs, McInvIsPrimed

LEMMA McSendInv ==
    ASSUME McInv, NEW s \in Socks, NEW g \in Groups, SendTo(s, g)
    PROVE  McInv'
<1> DEFINE h == HostOf[s]
           f == [type |-> "data", group |-> g, id |-> left.sends]
           o == imo[s]
           out == IF o.ttl = 0 THEN ipintrq ELSE Broadcast(ipintrq, h, f)
           n == left.queries
<1>1. /\ left.sends > 0 /\ left' = [left EXCEPT !.sends = @ - 1]
      /\ ipintrq' = (IF g \in DOMAIN host[h].inm /\ o.loop /\ Len(out[h]) < MaxQueue
                     THEN [out EXCEPT ![h] = Append(@, f)] ELSE out)
      /\ UNCHANGED <<host, imo, asked, heard, got>>
  BY DEF SendTo
<1>2. h \in Hosts /\ left \in [queries : Nat, sends : Nat, groups : SUBSET Groups]
  BY McInvIs, MulticastAssumption
<1>3. f \in McFrame /\ f.type = "data"
  BY <1>2, McLeft DEF McFrame
<1>4. McQueuesOK(ipintrq, asked, heard, n) /\ n \in Nat
  BY McInvIs
<1> HIDE DEF h, f, n
<1>5. McQueuesOK(out, asked, heard, n)
  <2>1. McQueuesOK(Broadcast(ipintrq, h, f), asked, heard, n)
    BY <1>3, <1>4, McBroadcast
  <2> QED BY <1>4, <2>1
<1> HIDE DEF out
<1>6. McQueuesOK([out EXCEPT ![h] = Append(@, f)], asked, heard, n)
  <2> DEFINE p == [out EXCEPT ![h] = Append(@, f)]
  <2>1. out = [k \in Hosts |-> out[k]] /\ \A k \in Hosts : McQueueOK(out[k], k \in asked, heard, n)
    BY <1>5 DEF McQueuesOK
  <2>2. p = [k \in Hosts |-> p[k]] /\ \A k \in Hosts : p[k] = IF k = h THEN Append(out[h], f) ELSE out[k]
    BY <1>2, <2>1
  <2>3. McQueueOK(Append(out[h], f), h \in asked, heard, n)
    <3>1. McQueueOK(out[h], h \in asked, heard, n) /\ (h \in asked) \in BOOLEAN
      BY <1>2, <2>1
    <3>2. (f.type = "query" => f.n > n) /\ (f.type = "report" => f.group \in heard)
      BY <1>3
    <3> QED BY <1>3, <1>4, <3>1, <3>2, McAppend
  <2> HIDE DEF p
  <2>4. \A k \in Hosts : McQueueOK(p[k], k \in asked, heard, n)
    BY <2>1, <2>2, <2>3
  <2> QED BY <2>2, <2>4 DEF McQueuesOK, p
<1>7. McQueuesOK(ipintrq', asked, heard, n)
  BY <1>1, <1>5, <1>6
<1>8. left' \in [queries : Nat, sends : Nat, groups : SUBSET Groups] /\ left'.queries = n
  BY <1>1, <1>2, McLeft DEF n
<1> QED
  BY <1>1, <1>7, <1>8, McInvIs, McInvIsPrimed

LEMMA McInputInv ==
    ASSUME McInv, NEW h \in Hosts, ipintrq[h] # <<>>,
           NEW d \in Delays(Head(ipintrq[h])), Input(h, d)
    PROVE  McInv'
<1> DEFINE q == ipintrq[h]
           f == Head(q)
           n == left.queries
           b == igmp_input(host[h], f, d)
<1>1. McHostOK(host[h]) /\ McHostsOK(host, heard, asked) /\ asked \in SUBSET Hosts
      /\ McQueuesOK(ipintrq, asked, heard, n) /\ n \in Nat
  BY McInvIs DEF McHostsOK
<1>2. /\ ipintrq' = [ipintrq EXCEPT ![h] = Tail(@)]
      /\ (IF f.type = "data" THEN host' = host ELSE host' = [host EXCEPT ![h] = b])
      /\ asked' = (IF f = McQuery(n + 1) THEN asked \cup {h} ELSE asked)
      /\ UNCHANGED <<imo, left, heard>>
  BY DEF Input, McQuery
<1>3. McQueueOK(q, h \in asked, heard, n) /\ f = q[1] /\ f \in McFrame /\ 1 \in 1 .. Len(q)
  BY <1>1 DEF McQueuesOK, McQueueOK
<1>4. f.type \in {"query", "report", "data"} /\ asked' \subseteq Hosts
      /\ \A k \in Hosts : k \in asked' <=> k \in asked \/ (k = h /\ f = McQuery(n + 1))
  BY <1>1, <1>2, <1>3 DEF McFrame
<1>5. McQueuesOK(ipintrq', asked', heard, n)
  <2>1. ipintrq' = [k \in Hosts |-> ipintrq'[k]]
        /\ \A k \in Hosts : ipintrq'[k] = IF k = h THEN Tail(q) ELSE ipintrq[k]
    BY <1>1, <1>2 DEF McQueuesOK
  <2>2. McQueueOK(Tail(q), h \in asked \/ f = McQuery(n + 1), heard, n)
    <3>1. (h \in asked) \in BOOLEAN
      OBVIOUS
    <3> HIDE DEF q, n
    <3> QED BY <1>1, <1>3, <3>1, McTail DEF q
  <2>3. ASSUME NEW k \in Hosts PROVE McQueueOK(ipintrq'[k], k \in asked', heard, n)
    <3>1. CASE k = h
      <4>1. (k \in asked') = (h \in asked \/ f = McQuery(n + 1))
        BY <1>4, <3>1
      <4> QED BY <2>1, <2>2, <3>1, <4>1
    <3>2. CASE k # h
      <4>1. (k \in asked') = (k \in asked)
        BY <1>4, <3>2
      <4>2. McQueueOK(ipintrq[k], k \in asked, heard, n)
        BY <1>1 DEF McQueuesOK
      <4> QED BY <2>1, <3>2, <4>1, <4>2
    <3> QED BY <3>1, <3>2
  <2> QED BY <2>1, <2>3 DEF McQueuesOK
<1>6. CASE f.type = "query"
  <2>1. d \in [Groups -> 1 .. MaxDelay]
    BY <1>6 DEF Delays
  <2>2. McHostOK(b) /\ Answered(b, heard)
    BY <1>1, <1>6, <2>1, McAsked
  <2> HIDE DEF b, f
  <2>3. host' = [host EXCEPT ![h] = b]
    BY <1>2, <1>6
  <2>4. host' = [k \in Hosts |-> host'[k]] /\ \A k \in Hosts : host'[k] = IF k = h THEN b ELSE host[k]
    BY <1>1, <2>3 DEF McHostsOK
  <2>5. McHostsOK(host', heard, asked')
    BY <1>1, <1>4, <2>2, <2>4 DEF McHostsOK
  <2> QED BY <1>2, <1>4, <1>5, <2>5, McInvIs, McInvIsPrimed
<1>7. CASE f.type = "report"
  <2>1. McHostOK(b) /\ (Answered(host[h], heard) /\ f.group \in heard => Answered(b, heard))
    BY <1>1, <1>7, McHears
  <2>2. h \in asked => f.group \in heard
    BY <1>3, <1>7 DEF McQueueOK
  <2>3. f # McQuery(n + 1)
    BY <1>1, <1>7, McFrameIn
  <2> HIDE DEF b, f
  <2>4. host' = [host EXCEPT ![h] = b] /\ asked' = asked
    BY <1>2, <1>7, <2>3
  <2>5. host' = [k \in Hosts |-> host'[k]] /\ \A k \in Hosts : host'[k] = IF k = h THEN b ELSE host[k]
    BY <1>1, <2>4 DEF McHostsOK
  <2>6. McHostsOK(host', heard, asked')
    BY <1>1, <2>1, <2>2, <2>4, <2>5 DEF McHostsOK
  <2> QED BY <1>2, <1>4, <1>5, <2>6, McInvIs, McInvIsPrimed
<1>8. CASE f.type = "data"
  <2>1. f # McQuery(n + 1)
    BY <1>1, <1>8, McFrameIn
  <2> HIDE DEF b, f
  <2>2. host' = host /\ asked' = asked
    BY <1>2, <1>8, <2>1
  <2> QED BY <1>1, <1>2, <1>5, <2>2, McInvIs, McInvIsPrimed
<1> QED
  BY <1>4, <1>6, <1>7, <1>8

LEMMA McInitInv == McInit => McInv
<1> SUFFICES ASSUME McInit PROVE McInv
  OBVIOUS
<1>1. /\ host = [h \in Hosts |-> [inm |-> <<>>, running |-> FALSE, filter |-> {}]]
      /\ imo = [s \in Socks |-> DefaultImo] /\ ipintrq = [h \in Hosts |-> <<>>]
      /\ left \in Limits /\ asked = {} /\ heard = {}
  BY DEF McInit
<1>2. McImoOK(DefaultImo)
  BY DEF McImoOK, DefaultImo, NoDup
<1>3. \A n : McQueueOK(<<>>, FALSE, {}, n)
  BY DEF McQueueOK
<1>4. McQueuesOK(ipintrq, {}, {}, left.queries)
  <2>1. \A k \in Hosts : McQueueOK(ipintrq[k], k \in {}, {}, left.queries)
    <3> TAKE k \in Hosts
    <3>1. ipintrq[k] = <<>> /\ (k \in {}) = FALSE
      BY <1>1
    <3> QED BY <1>3, <3>1
  <2> QED BY <1>1, <2>1 DEF McQueuesOK
<1>5. McHostsOK(host, {}, {})
  <2> DEFINE b == [inm |-> <<>>, running |-> FALSE, filter |-> {}]
  <2>1. McHostOK(b)
    <3>1. DOMAIN <<>> = {} /\ <<>> = [g \in DOMAIN <<>> |-> <<>>[g]]
      OBVIOUS
    <3> QED BY <3>1 DEF McHostOK
  <2> HIDE DEF b
  <2> QED BY <1>1, <2>1 DEF McHostsOK, b
<1>6. left \in [queries : Nat, sends : Nat, groups : SUBSET Groups]
  BY <1>1, MulticastAssumption
<1> QED
  BY <1>1, <1>2, <1>4, <1>5, <1>6, McInvIs

LEMMA McNextInv == McInv /\ [McNext]_mcVars => McInv'
<1> SUFFICES ASSUME McInv, [McNext]_mcVars PROVE McInv'
  OBVIOUS
<1>1. \A s \in Socks : Joins[s] \subseteq Groups
  BY MulticastAssumption
<1>2. \A s \in Socks : McImoOK(imo[s])
  BY McInvIs
<1>3. ASSUME NEW s \in Tuned, NEW x, MULTICAST_IF(s, x) \/ MULTICAST_TTL(s, x) \/ MULTICAST_LOOP(s, x)
      PROVE  McInv'
  <2>1. s \in Socks
    BY MulticastAssumption
  <2>2. PICK o : McImoOK(o) /\ SetOption(s, o)
    BY <1>2, <1>3, <2>1, McOptions DEF MULTICAST_IF, MULTICAST_TTL, MULTICAST_LOOP
  <2> QED BY <2>1, <2>2, McSetOption
<1>4. ASSUME NEW s \in Socks, NEW g \in Joins[s] \cap left.groups, NEW d \in 1 .. MaxDelay, NEW short,
             ADD_MEMBERSHIP(s, g, d, short)
      PROVE  McInv'
  BY <1>1, <1>4, McAddInv
<1>5. ASSUME NEW s \in Socks, NEW g \in Joins[s] \cap left.groups, DROP_MEMBERSHIP(s, g) \/ SendTo(s, g)
      PROVE  McInv'
  BY <1>1, <1>5, McDropInv, McSendInv
<1>6. ASSUME NEW s \in Socks, ip_freemoptions(s) PROVE McInv'
  BY <1>6, McFreeInv
<1>7. ASSUME NEW h \in Hosts, igmp_fasttimo(h) PROVE McInv'
  BY <1>7, McFasttimoInv
<1>8. ASSUME NEW h \in Hosts, ipintrq[h] # <<>>, NEW d \in Delays(Head(ipintrq[h])), Input(h, d)
      PROVE  McInv'
  BY <1>8, McInputInv
<1>9. ASSUME Query PROVE McInv'
  BY <1>9, McQueryInv
<1>10. CASE UNCHANGED mcVars
  BY <1>10, McInvIs, McInvIsPrimed DEF mcVars
<1> QED
  BY <1>3, <1>4, <1>5, <1>6, <1>7, <1>8, <1>9, <1>10 DEF McNext

\* As long as nobody has answered for a group since the last query, each
\* member that took the query will, whatever is lost, however many hosts,
\* sockets, groups and queries there are (igmp_input, igmp_fasttimo).
THEOREM QueriesAlwaysAnswered == McSpec => []QueryAnswered
<1>1. McInv => QueryAnswered
  <2> SUFFICES ASSUME McInv, NEW h \in asked, NEW g \in DOMAIN host[h].inm
               PROVE  g \in heard \/ (host[h].inm[g].timer > 0 /\ host[h].running)
    BY DEF QueryAnswered
  <2>1. h \in Hosts /\ McHostOK(host[h]) /\ Answered(host[h], heard)
    BY DEF McInv
  <2> QED BY <2>1 DEF McHostOK, Answered
<1> QED
  BY <1>1, McInitInv, McNextInv, PTL DEF McSpec
-----------------------------------------------------------------------------
(***************************************************************************)
(* The memberships.  The records agree with the sockets only where no two  *)
(* sockets of a host may join the same group, and no record is made        *)
(* without room for its first socket: in_addmulti and in_delmulti lose     *)
(* track of a record otherwise.                                            *)
(***************************************************************************)
OneSocketPerGroup ==
    \A s, t \in Socks : HostOf[s] = HostOf[t] /\ Joins[s] \cap Joins[t] # {} => s = t

Tidy == OneSocketPerGroup /\ "pcb" \notin Shortages

RecordOf(r, s) == r.ref = 1 /\ r.pcbs = <<s>> /\ ~r.freed

MembersOK(H, I) ==
    /\ \A h \in Hosts :
          /\ H[h].filter = DOMAIN H[h].inm
          /\ \A g \in DOMAIN H[h].inm : \E s \in Socks :
                HostOf[s] = h /\ Contains(I[s].mem, g) /\ RecordOf(H[h].inm[g], s)
    /\ \A s \in Socks : \A g : Contains(I[s].mem, g) => g \in Joins[s] /\ g \in DOMAIN H[HostOf[s]].inm

(***************************************************************************)
(* A datagram is in a queue once, and in none of the queues of the sockets *)
(* that have it.  n is the number of the datagrams to come, whose numbers  *)
(* count down.                                                             *)
(***************************************************************************)
NoData(q, id) == \A i \in 1 .. Len(q) : q[i].type = "data" => q[i].id # id

DataOnce(q, n) ==
    /\ q \in Seq(McFrame)
    /\ \A i \in 1 .. Len(q) : q[i].type = "data" => q[i].id > n
    /\ \A i, j \in 1 .. Len(q) :
          q[i].type = "data" /\ q[j].type = "data" /\ q[i].id = q[j].id => i = j

DataOK(Q, n, G) ==
    /\ Q = [h \in Hosts |-> Q[h]] /\ \A h \in Hosts : DataOnce(Q[h], n)
    /\ G = [x \in DOMAIN G |-> G[x]] /\ DOMAIN G \subseteq Socks \X Nat
    /\ \A x \in DOMAIN G :
          G[x] = 0 \/ (G[x] = 1 /\ x[2] > n /\ NoData(Q[HostOf[x[1]]], x[2]))

GroupsInv == McInv /\ MembersOK(host, imo) /\ DataOK(ipintrq, left.sends, got)

\* The sockets of a record.
LEMMA OneMember ==
    ASSUME Tidy, MembersOK(host, imo), NEW h \in Hosts, NEW g,
           NEW s \in Socks, HostOf[s] = h, Contains(imo[s].mem, g)
    PROVE  Members(h, g) = {s}
  BY DEF Members, MembersOK, Tidy, OneSocketPerGroup

LEMMA GroupsInvSound == Tidy /\ GroupsInv => GroupsSound
<1> SUFFICES ASSUME Tidy, GroupsInv PROVE GroupsSound
  OBVIOUS
<1>1. GotOnce
  BY DEF GroupsInv, DataOK, GotOnce
<1>2. ASSUME NEW h \in Hosts, NEW g \in DOMAIN host[h].inm
      PROVE  /\ g \in Groups /\ Members(h, g) # {}
             /\ ~host[h].inm[g].freed
             /\ host[h].inm[g].ref = Cardinality(Members(h, g))
             /\ ToSet(host[h].inm[g].pcbs) = Members(h, g)
  <2> DEFINE r == host[h].inm[g]
  <2>1. PICK s \in Socks : HostOf[s] = h /\ Contains(imo[s].mem, g) /\ RecordOf(r, s)
    BY DEF GroupsInv, MembersOK
  <2>2. Members(h, g) = {s}
    BY <2>1, OneMember DEF GroupsInv
  <2>3. g \in Groups
    BY DEF GroupsInv, McInv, McHostOK
  <2>4. Cardinality({s}) = 1
    BY FS_Singleton
  <2> HIDE DEF r
  <2>5. ToSet(r.pcbs) = {s}
    <3>1. r.pcbs = <<s>>
      BY <2>1 DEF RecordOf
    <3>2. ToSet(<<s>>) = {s}
      BY DEF ToSet
    <3> QED BY <3>1, <3>2
  <2>6. r.ref = 1 /\ ~r.freed
    BY <2>1 DEF RecordOf
  <2> QED BY <2>2, <2>3, <2>4, <2>5, <2>6 DEF r
<1>3. ASSUME NEW h \in Hosts, NEW g \in Groups, Members(h, g) # {}
      PROVE  g \in DOMAIN host[h].inm
  BY <1>3 DEF Members, GroupsInv, MembersOK
<1>4. \A h \in Hosts : host[h].filter = DOMAIN host[h].inm
  BY DEF GroupsInv, MembersOK
<1>5. \A h \in Hosts : DOMAIN host[h].inm = {g \in Groups : Members(h, g) # {}}
  BY <1>2, <1>3
<1>6. MembershipsMatch
  BY <1>2, <1>4, <1>5 DEF MembershipsMatch
<1> QED
  BY <1>1, <1>6 DEF GroupsSound

-----------------------------------------------------------------------------
(***************************************************************************)
(* The queues and the datagrams.                                           *)
(***************************************************************************)
\* A frame that is not a datagram, or the next datagram, is put in a queue.
LEMMA DataAppend ==
    ASSUME NEW q, NEW n \in Nat, DataOnce(q, n), NEW f \in McFrame
    PROVE  /\ f.type # "data" => DataOnce(Append(q, f), n)
                                 /\ \A id : NoData(q, id) => NoData(Append(q, f), id)
           /\ f.type = "data" /\ f.id = n /\ n > 0
                => DataOnce(Append(q, f), n - 1)
                   /\ \A id : NoData(q, id) /\ id # n => NoData(Append(q, f), id)
<1> DEFINE p == Append(q, f)
           m == Len(q)
<1>1. /\ p \in Seq(McFrame) /\ Len(p) = m + 1 /\ m \in Nat /\ p[m + 1] = f
      /\ \A i \in 1 .. m : p[i] = q[i]
      /\ \A i \in 1 .. m + 1 : i \in 1 .. m \/ i = m + 1
  BY DEF DataOnce
<1> HIDE DEF p
<1>2. ASSUME NEW k \in Nat, k <= n, f.type = "data" => f.id > k /\ f.id <= n
      PROVE  DataOnce(p, k)
  <2>1. \A i \in 1 .. m : q[i] \in McFrame /\ (q[i].type = "data" => q[i].id \in Nat /\ q[i].id > n)
    <3>1. \A x \in McFrame : x.type = "data" => x.id \in Nat
      BY DEF McFrame
    <3> QED BY <3>1 DEF DataOnce
  <2>2. f.type = "data" => f.id \in Nat
    BY DEF McFrame
  <2>3. \A i \in 1 .. m + 1 : p[i].type = "data" => p[i].id > k
    BY <1>1, <1>2, <2>1
  <2>4. ASSUME NEW i \in 1 .. m + 1, NEW j \in 1 .. m + 1,
               p[i].type = "data", p[j].type = "data", p[i].id = p[j].id
        PROVE  i = j
    <3>1. CASE i \in 1 .. m /\ j \in 1 .. m
      BY <1>1, <2>4, <3>1 DEF DataOnce
    <3>2. CASE i \in 1 .. m /\ j = m + 1
      BY <1>1, <1>2, <2>1, <2>2, <2>4, <3>2
    <3>3. CASE i = m + 1 /\ j \in 1 .. m
      BY <1>1, <1>2, <2>1, <2>2, <2>4, <3>3
    <3> QED BY <1>1, <3>1, <3>2, <3>3
  <2> QED BY <1>1, <2>3, <2>4 DEF DataOnce
<1>3. ASSUME NEW id, NoData(q, id), f.type = "data" => f.id # id
      PROVE  NoData(p, id)
  BY <1>1, <1>3 DEF NoData
<1>4. n - 1 \in Nat \/ n = 0
  OBVIOUS
<1> QED
  BY <1>2, <1>3, <1>4 DEF p

\* The first frame is taken from a queue.
LEMMA DataTail ==
    ASSUME NEW q, NEW n \in Nat, DataOnce(q, n), q # <<>>
    PROVE  /\ DataOnce(Tail(q), n)
           /\ \A id : NoData(q, id) => NoData(Tail(q), id)
           /\ Head(q).type = "data" => NoData(Tail(q), Head(q).id) /\ Head(q).id > n
<1> DEFINE p == Tail(q)
<1>1. /\ p \in Seq(McFrame) /\ Len(p) + 1 = Len(q) /\ Len(p) \in Nat /\ Head(q) = q[1] /\ 1 \in 1 .. Len(q)
      /\ \A i \in 1 .. Len(p) : p[i] = q[i + 1] /\ i + 1 \in 1 .. Len(q) /\ i + 1 # 1
  BY DEF DataOnce
<1> HIDE DEF p
<1>2. DataOnce(p, n)
  <2>1. \A i \in 1 .. Len(p) : p[i].type = "data" => p[i].id > n
    BY <1>1 DEF DataOnce
  <2>2. ASSUME NEW i \in 1 .. Len(p), NEW j \in 1 .. Len(p),
               p[i].type = "data", p[j].type = "data", p[i].id = p[j].id
        PROVE  i = j
    <3>1. i + 1 = j + 1
      BY <1>1, <2>2 DEF DataOnce
    <3> QED BY <3>1
  <2> QED BY <1>1, <2>1, <2>2 DEF DataOnce
<1>3. \A id : NoData(q, id) => NoData(p, id)
  BY <1>1 DEF NoData
<1>4. Head(q).type = "data" => NoData(p, Head(q).id) /\ Head(q).id > n
  BY <1>1 DEF NoData, DataOnce
<1> QED
  BY <1>2, <1>3, <1>4 DEF p
\* Frames that are not datagrams reach some of the queues.
LEMMA DataMore ==
    ASSUME NEW Q, NEW n \in Nat, NEW G, DataOK(Q, n, G), NEW f \in McFrame, f.type # "data",
           NEW P, P = [h \in Hosts |-> P[h]], \A h \in Hosts : P[h] = Q[h] \/ P[h] = Append(Q[h], f)
    PROVE  DataOK(P, n, G)
<1>1. ASSUME NEW h \in Hosts
      PROVE  DataOnce(P[h], n) /\ \A id : NoData(Q[h], id) => NoData(P[h], id)
  <2>1. DataOnce(Q[h], n)
    BY DEF DataOK
  <2>2. DataOnce(Append(Q[h], f), n) /\ \A id : NoData(Q[h], id) => NoData(Append(Q[h], f), id)
    BY <2>1, DataAppend
  <2> QED BY <2>1, <2>2
<1>2. \A x \in DOMAIN G : HostOf[x[1]] \in Hosts
  <2> TAKE x \in DOMAIN G
  <2>1. x[1] \in Socks
    BY DEF DataOK
  <2> QED BY <2>1, MulticastAssumption
<1> QED
  BY <1>1, <1>2 DEF DataOK

LEMMA DataBroadcast ==
    ASSUME NEW Q, NEW n \in Nat, NEW G, DataOK(Q, n, G), NEW h, NEW f \in McFrame, f.type # "data"
    PROVE  DataOK(Broadcast(Q, h, f), n, G)
<1> DEFINE P == Broadcast(Q, h, f)
<1>1. P = [k \in Hosts |-> P[k]] /\ \A k \in Hosts : P[k] = Q[k] \/ P[k] = Append(Q[k], f)
  BY DEF Broadcast
<1> HIDE DEF P
<1> QED
  BY <1>1, DataMore DEF P

LEMMA DataReport ==
    ASSUME NEW Q, NEW n \in Nat, NEW G, DataOK(Q, n, G), NEW r, r[2] \in Groups
    PROVE  DataOK(Report(Q, r), n, G)
<1>1. McReport(r[2]) \in McFrame /\ McReport(r[2]).type = "report"
  BY McFrameIn
<1>2. McReport(r[2]).type # "data"
  BY <1>1
<1>3. DataOK(Broadcast(Q, r[1], McReport(r[2])), n, G)
  BY <1>1, <1>2, DataBroadcast
<1> QED
  BY <1>3 DEF Report, McReport

LEMMA DataReports ==
    ASSUME NEW Q, NEW n \in Nat, NEW G, DataOK(Q, n, G), NEW h, NEW gs, gs \subseteq Groups
    PROVE  DataOK(FoldLeft(Report, Q, SetToSeq({h} \X gs)), n, G)
<1> DEFINE H == {P \in [Hosts -> Seq(McFrame)] : DataOK(P, n, G)}
           s == SetToSeq({h} \X gs)
<1>1. \A P : P \in H <=> DataOK(P, n, G)
  BY DEF DataOK, DataOnce
<1>2. s \in Seq({h} \X gs)
  <2>1. IsFiniteSet(gs)
    BY MulticastAssumption, FS_Subset
  <2>2. IsFiniteSet({h})
    BY FS_Singleton
  <2>3. IsFiniteSet({h} \X gs)
    BY <2>1, <2>2, FS_Product
  <2> QED BY <2>3, SetToSeqIs
<1> HIDE DEF H, s
<1>3. \A i \in 1 .. Len(s) : \A P \in H : Report(P, s[i]) \in H
  <2> TAKE i \in 1 .. Len(s)
  <2> TAKE P \in H
  <2>1. s[i][2] \in Groups
    BY <1>2
  <2>2. DataOK(P, n, G)
    BY <1>1
  <2>3. DataOK(Report(P, s[i]), n, G)
    BY <2>1, <2>2, DataReport
  <2> QED BY <1>1, <2>3
<1>4. Q \in H
  BY <1>1
<1>5. McReports!Fold(Q, s) \in H
  BY <1>2, <1>3, <1>4, McReports!FoldIn
<1>6. McReports!Fold(Q, s) = FoldLeft(Report, Q, s)
  BY Zenon DEF McReports!Fold, FoldLeft, McReports!FoldLeft, MapThenFoldSet,
               McReports!MapThenFoldSet, Max, McReports!Max
<1> QED
  BY <1>1, <1>5, <1>6 DEF s

\* A datagram is sent.
LEMMA DataSend ==
    ASSUME NEW Q, NEW n \in Nat \ {0}, NEW G, DataOK(Q, n, G), NEW f \in McFrame,
           f.type = "data", f.id = n,
           NEW P, P = [h \in Hosts |-> P[h]], \A h \in Hosts : P[h] = Q[h] \/ P[h] = Append(Q[h], f)
    PROVE  DataOK(P, n - 1, G)
<1>1. ASSUME NEW h \in Hosts
      PROVE  DataOnce(P[h], n - 1) /\ \A id : NoData(Q[h], id) /\ id # n => NoData(P[h], id)
  <2>1. DataOnce(Q[h], n)
    BY DEF DataOK
  <2>2. /\ DataOnce(Append(Q[h], f), n - 1)
        /\ \A id : NoData(Q[h], id) /\ id # n => NoData(Append(Q[h], f), id)
    BY <2>1, DataAppend
  <2>3. DataOnce(Q[h], n - 1)
    <3>1. \A x \in McFrame : x.type = "data" => x.id \in Nat
      BY DEF McFrame
    <3>2. \A i \in 1 .. Len(Q[h]) : Q[h][i] \in McFrame
      BY <2>1 DEF DataOnce
    <3>3. \A i \in 1 .. Len(Q[h]) : Q[h][i].type = "data" => Q[h][i].id > n - 1
      BY <2>1, <3>1, <3>2 DEF DataOnce
    <3> QED BY <2>1, <3>3 DEF DataOnce
  <2> QED BY <2>2, <2>3
<1>2. \A x \in DOMAIN G : HostOf[x[1]] \in Hosts /\ x[2] \in Nat
  <2> TAKE x \in DOMAIN G
  <2>1. x[1] \in Socks /\ x[2] \in Nat
    BY DEF DataOK
  <2> QED BY <2>1, MulticastAssumption
<1>3. ASSUME NEW x \in DOMAIN G, G[x] = 1, x[2] > n, NoData(Q[HostOf[x[1]]], x[2])
      PROVE  x[2] > n - 1 /\ NoData(P[HostOf[x[1]]], x[2])
  BY <1>1, <1>2, <1>3
<1> QED
  BY <1>1, <1>3 DEF DataOK

\* The sockets R get the datagram f, if it is one.
Delivered(G, F, R, f) ==
    \/ F = G
    \/ /\ f.type = "data"
       /\ F = [x \in DOMAIN G |-> IF x[1] \in R /\ x[2] = f.id THEN G[x] + 1 ELSE G[x]]

\* A host takes a frame, and for each socket at most one that had the
\* datagram in its queue gets it.
LEMMA DataTake ==
    ASSUME NEW Q, NEW n \in Nat, NEW G, DataOK(Q, n, G), NEW h \in Hosts, Q[h] # <<>>,
           NEW P, P = [Q EXCEPT ![h] = Tail(@)],
           NEW R, \A s \in Socks : s \in R => HostOf[s] = h,
           NEW F, Delivered(G, F, R, Head(Q[h]))
    PROVE  DataOK(P, n, F)
<1>1. P = [k \in Hosts |-> P[k]] /\ \A k \in Hosts : P[k] = IF k = h THEN Tail(Q[h]) ELSE Q[k]
  BY DEF DataOK
<1>2. DataOnce(Q[h], n)
  BY DEF DataOK
<1>3. ASSUME NEW k \in Hosts
      PROVE  DataOnce(P[k], n) /\ \A id : NoData(Q[k], id) => NoData(P[k], id)
  <2>1. DataOnce(Q[k], n)
    BY DEF DataOK
  <2> QED BY <1>1, <1>2, <2>1, DataTail
<1>4. \A x \in DOMAIN G : x[1] \in Socks /\ HostOf[x[1]] \in Hosts
  <2> TAKE x \in DOMAIN G
  <2>1. x[1] \in Socks
    BY DEF DataOK
  <2> QED BY <2>1, MulticastAssumption
<1>5. CASE F = G
  <2>1. \A x \in DOMAIN G :
           G[x] = 0 \/ (G[x] = 1 /\ x[2] > n /\ NoData(P[HostOf[x[1]]], x[2]))
    BY <1>3, <1>4 DEF DataOK
  <2>2. G = [x \in DOMAIN G |-> G[x]] /\ DOMAIN G \subseteq Socks \X Nat
    BY DEF DataOK
  <2>3. \A k \in Hosts : DataOnce(P[k], n)
    BY <1>3
  <2>4. P = [k \in Hosts |-> P[k]]
    BY <1>1
  <2>5. DataOK(P, n, G)
    BY ONLY <2>1, <2>2, <2>3, <2>4, Zenon DEF DataOK
  <2> QED BY <1>5, <2>5
<1>6. CASE F # G
  <2> DEFINE id == Head(Q[h]).id
  <2>1. Head(Q[h]).type = "data"
        /\ F = [x \in DOMAIN G |-> IF x[1] \in R /\ x[2] = id THEN G[x] + 1 ELSE G[x]]
    BY <1>6 DEF Delivered
  <2>2. NoData(P[h], id) /\ id > n
    BY <1>1, <1>2, <2>1, DataTail
  <2>3. ~ NoData(Q[h], id)
    <3>1. Head(Q[h]) = Q[h][1] /\ 1 \in 1 .. Len(Q[h])
      BY <1>2 DEF DataOnce
    <3> QED BY <2>1, <3>1 DEF NoData
  <2> HIDE DEF id
  <2>4. ASSUME NEW x \in DOMAIN G
        PROVE  F[x] = 0 \/ (F[x] = 1 /\ x[2] > n /\ NoData(P[HostOf[x[1]]], x[2]))
    <3>1. G[x] = 0 \/ (G[x] = 1 /\ x[2] > n /\ NoData(Q[HostOf[x[1]]], x[2]))
      BY DEF DataOK
    <3>2. CASE x[1] \in R /\ x[2] = id
      <4>1. HostOf[x[1]] = h
        BY <1>4, <3>2
      <4>2. G[x] = 0
        BY <2>3, <3>1, <3>2, <4>1
      <4>3. F[x] = 1
        BY <2>1, <3>2, <4>2
      <4> QED BY <2>2, <3>2, <4>1, <4>3
    <3>3. CASE ~(x[1] \in R /\ x[2] = id)
      BY <1>3, <1>4, <2>1, <3>1, <3>3
    <3> QED BY <3>2, <3>3
  <2>5. F = [x \in DOMAIN F |-> F[x]] /\ DOMAIN F = DOMAIN G
    BY <2>1
  <2> QED BY <1>1, <1>3, <2>4, <2>5 DEF DataOK
<1> QED
  BY <1>5, <1>6
-----------------------------------------------------------------------------
(***************************************************************************)
(* The memberships and the records.                                        *)
(***************************************************************************)
\* What a host's records say of the memberships.
SameRecords(a, b) ==
    /\ DOMAIN b.inm = DOMAIN a.inm /\ b.filter = a.filter
    /\ \A g \in DOMAIN a.inm :
          b.inm[g].ref = a.inm[g].ref /\ b.inm[g].pcbs = a.inm[g].pcbs /\ b.inm[g].freed = a.inm[g].freed

LEMMA MembersSame ==
    ASSUME NEW H, NEW I, MembersOK(H, I), NEW G, \A h \in Hosts : SameRecords(H[h], G[h]),
           NEW J, \A s \in Socks : J[s].mem = I[s].mem
    PROVE  MembersOK(G, J)
<1>1. ASSUME NEW h \in Hosts
      PROVE  /\ G[h].filter = DOMAIN G[h].inm
             /\ \A g \in DOMAIN G[h].inm : \E s \in Socks :
                   HostOf[s] = h /\ Contains(J[s].mem, g) /\ RecordOf(G[h].inm[g], s)
  <2>1. SameRecords(H[h], G[h])
    OBVIOUS
  <2>2. G[h].filter = DOMAIN G[h].inm
    BY <2>1 DEF SameRecords, MembersOK
  <2>3. ASSUME NEW g \in DOMAIN G[h].inm
        PROVE  \E s \in Socks : HostOf[s] = h /\ Contains(J[s].mem, g) /\ RecordOf(G[h].inm[g], s)
    <3>1. g \in DOMAIN H[h].inm
      BY <2>1 DEF SameRecords
    <3>2. PICK s \in Socks : HostOf[s] = h /\ Contains(I[s].mem, g) /\ RecordOf(H[h].inm[g], s)
      BY <3>1 DEF MembersOK
    <3>3. RecordOf(G[h].inm[g], s)
      BY <2>1, <3>1, <3>2 DEF SameRecords, RecordOf
    <3>4. Contains(J[s].mem, g)
      BY <3>2
    <3> QED BY <3>2, <3>3, <3>4
  <2> QED BY <2>2, <2>3
<1>2. ASSUME NEW s \in Socks, NEW g, Contains(J[s].mem, g)
      PROVE  g \in Joins[s] /\ g \in DOMAIN G[HostOf[s]].inm
  <2>1. Contains(I[s].mem, g) /\ HostOf[s] \in Hosts
    BY <1>2, MulticastAssumption
  <2>2. g \in Joins[s] /\ g \in DOMAIN H[HostOf[s]].inm
    BY <2>1 DEF MembersOK
  <2> QED BY <2>1, <2>2 DEF SameRecords
<1> QED
  BY <1>1, <1>2 DEF MembersOK

\* The host with records a that has socket s gets the records b, and s the
\* memberships n for m: the other groups keep their records.
Changed(a, b, m, n, s) ==
    /\ b.filter = DOMAIN b.inm
    /\ \A g : Contains(n, g) => g \in Joins[s] /\ g \in DOMAIN b.inm /\ RecordOf(b.inm[g], s)
    /\ \A g \in DOMAIN b.inm :
          Contains(n, g) \/ (g \in DOMAIN a.inm /\ ~Contains(m, g) /\ b.inm[g] = a.inm[g])
    /\ \A g \in DOMAIN a.inm : ~Contains(m, g) => g \in DOMAIN b.inm

ChangedIn(H, I, G, J, s, b) ==
    /\ \A h \in Hosts : G[h] = IF h = HostOf[s] THEN b ELSE H[h]
    /\ \A t \in Socks : t # s => J[t] = I[t]
    /\ Changed(H[HostOf[s]], b, I[s].mem, J[s].mem, s)

LEMMA MembersChange ==
    ASSUME Tidy, NEW H, NEW I, MembersOK(H, I), NEW s \in Socks, NEW b, NEW G, NEW J,
           ChangedIn(H, I, G, J, s, b)
    PROVE  MembersOK(G, J)
<1>0. /\ \A h \in Hosts : G[h] = IF h = HostOf[s] THEN b ELSE H[h]
      /\ \A t \in Socks : t # s => J[t] = I[t]
      /\ Changed(H[HostOf[s]], b, I[s].mem, J[s].mem, s)
  BY DEF ChangedIn
<1> DEFINE k == HostOf[s]
<1>1. k \in Hosts
  BY MulticastAssumption
<1>2. ASSUME NEW h \in Hosts
      PROVE  /\ G[h].filter = DOMAIN G[h].inm
             /\ \A g \in DOMAIN G[h].inm : \E t \in Socks :
                   HostOf[t] = h /\ Contains(J[t].mem, g) /\ RecordOf(G[h].inm[g], t)
  <2>1. CASE h # k
    <3>1. G[h] = H[h]
      BY <1>0, <2>1
    <3>2. \A t \in Socks : HostOf[t] = h => J[t] = I[t]
      BY <1>0, <2>1
    <3> QED BY <3>1, <3>2 DEF MembersOK
  <2>2. CASE h = k
    <3>1. G[h] = b /\ b.filter = DOMAIN b.inm
      BY <1>0, <2>2 DEF Changed
    <3>2. ASSUME NEW g \in DOMAIN b.inm
          PROVE  \E t \in Socks : HostOf[t] = h /\ Contains(J[t].mem, g) /\ RecordOf(b.inm[g], t)
      <4>1. CASE Contains(J[s].mem, g)
        BY <1>0, <2>2, <4>1 DEF Changed
      <4>2. CASE ~Contains(J[s].mem, g)
        <5>1. g \in DOMAIN H[k].inm /\ ~Contains(I[s].mem, g) /\ b.inm[g] = H[k].inm[g]
          BY <1>0, <4>2 DEF Changed
        <5>2. PICK t \in Socks : HostOf[t] = k /\ Contains(I[t].mem, g) /\ RecordOf(H[k].inm[g], t)
          BY <1>1, <5>1 DEF MembersOK
        <5>3. t # s
          BY <5>1, <5>2
        <5> QED BY <1>0, <2>2, <5>1, <5>2, <5>3
      <4> QED BY <4>1, <4>2
    <3> QED BY <3>1, <3>2
  <2> QED BY <2>1, <2>2
<1>3. ASSUME NEW t \in Socks, NEW g, Contains(J[t].mem, g)
      PROVE  g \in Joins[t] /\ g \in DOMAIN G[HostOf[t]].inm
  <2>1. HostOf[t] \in Hosts
    BY MulticastAssumption
  <2>2. CASE t = s
    BY <1>0, <1>1, <1>3, <2>2 DEF Changed
  <2>3. CASE t # s
    <3>1. g \in Joins[t] /\ g \in DOMAIN H[HostOf[t]].inm
      BY <1>0, <1>3, <2>3 DEF MembersOK
    <3>2. HostOf[t] = k => ~Contains(I[s].mem, g)
      BY <2>3, <3>1 DEF MembersOK, Tidy, OneSocketPerGroup
    <3> QED BY <1>0, <1>1, <2>1, <3>1, <3>2 DEF Changed
  <2> QED BY <2>2, <2>3
<1> QED
  BY <1>2, <1>3 DEF MembersOK

\* What joining a group does to the records of a host that does not have it.
Joined(hs, g, s, a) ==
    \/ a.h = hs /\ ~a.ok
    \/ /\ a.ok /\ DOMAIN a.h.inm = DOMAIN hs.inm \cup {g} /\ a.h.filter = hs.filter \cup {g}
       /\ RecordOf(a.h.inm[g], s) /\ \A x \in DOMAIN hs.inm : a.h.inm[x] = hs.inm[x]

LEMMA McJoined ==
    ASSUME NEW hs, McHostOK(hs), NEW g \in Groups, g \notin DOMAIN hs.inm, NEW s,
           NEW d \in 1 .. MaxDelay, NEW short, short # "pcb",
           NEW a, a = in_addmulti(hs, g, s, d, short)
    PROVE  Joined(hs, g, s, a)
<1> DEFINE n == [hs EXCEPT !.inm = With(@, g, NewInm(d)), !.filter = @ \cup {g}, !.running = TRUE]
           e == [n EXCEPT !.inm[g].pcbs = <<s>>]
           N == NewInm(d)
<1>1. \/ short \in {"inm", "ioctl"} /\ a = Added(hs, FALSE, FALSE)
      \/ short \notin {"inm", "ioctl"} /\ a = Added(e, TRUE, TRUE)
  BY DEF in_addmulti
<1>2. CASE short \in {"inm", "ioctl"}
  <2>1. a = Added(hs, FALSE, FALSE)
    BY <1>1, <1>2
  <2>2. a.h = hs /\ ~a.ok
    BY <2>1 DEF Added
  <2> QED BY <2>2 DEF Joined
<1>3. CASE short \notin {"inm", "ioctl"}
  <2>1. a = Added(e, TRUE, TRUE)
    BY <1>1, <1>3
  <2>2. a.ok /\ a.h = e
    <3> HIDE DEF e
    <3> QED BY <2>1 DEF Added
  <2> DEFINE j == With(hs.inm, g, N)
             u == [N EXCEPT !.pcbs = <<s>>]
             F == hs.filter \cup {g}
  <2>3. /\ DOMAIN j = DOMAIN hs.inm \cup {g} /\ j[g] = N
        /\ \A x \in DOMAIN hs.inm : j[x] = hs.inm[x]
    BY DEF With
  <2>4. n.inm = j /\ n.filter = F /\ n = [inm |-> n.inm, running |-> n.running, filter |-> n.filter]
    <3> DEFINE q1 == [hs EXCEPT !.inm = j]
               q2 == [q1 EXCEPT !.filter = F]
               T == TRUE
               q3 == [q2 EXCEPT !.running = T]
               x == hs.running
               y == hs.filter
    <3>1. n = q3
      OBVIOUS
    <3>2. hs = [inm |-> hs.inm, running |-> x, filter |-> y]
      BY DEF McHostOK
    <3> HIDE DEF j, F, T, x, y, n
    <3>3. q1 = [inm |-> j, running |-> x, filter |-> y]
      BY <3>2
    <3> HIDE DEF q1
    <3>4. q2 = [inm |-> j, running |-> x, filter |-> F]
      BY <3>3
    <3> HIDE DEF q2
    <3>5. q3.inm = j /\ q3.filter = F /\ q3 = [inm |-> q3.inm, running |-> q3.running, filter |-> q3.filter]
      BY <3>4
    <3> HIDE DEF q3
    <3> QED BY <3>1, <3>5
  <2>6. InmOK(N) /\ N.ref = 1 /\ ~N.freed
    <3>1. N = [ref |-> 1, timer |-> d, pcbs |-> <<>>, freed |-> FALSE] /\ InmOK(N)
      BY McNewInm
    <3> QED BY <3>1
  <2> HIDE DEF n, N, j, F
  <2>7. u = [ref |-> N.ref, timer |-> N.timer, pcbs |-> <<s>>, freed |-> N.freed]
    BY <2>6, InmSets
  <2>8. e.filter = F /\ e.inm = [j EXCEPT ![g] = u]
    BY <2>3, <2>4
  <2> HIDE DEF e, u
  <2>9. DOMAIN e.inm = DOMAIN j /\ e.inm[g] = u /\ \A x \in DOMAIN hs.inm : e.inm[x] = j[x]
    BY <2>3, <2>8
  <2>10. RecordOf(u, s)
    BY <2>6, <2>7 DEF RecordOf
  <2> QED BY <2>2, <2>3, <2>8, <2>9, <2>10 DEF F, Joined
<1> QED
  BY <1>2, <1>3

\* A membership that has the record for itself ends with it.
LEMMA McLeft1 ==
    ASSUME NEW hs, McHostOK(hs), hs.filter = DOMAIN hs.inm,
           NEW g \in DOMAIN hs.inm, NEW s, RecordOf(hs.inm[g], s), NEW b, b = in_delmulti(hs, g, s)
    PROVE  /\ DOMAIN b.inm = DOMAIN hs.inm \ {g} /\ b.filter = DOMAIN b.inm
           /\ \A x \in DOMAIN b.inm : b.inm[x] = hs.inm[x]
<1> DEFINE v == hs.inm[g]
           r == [v EXCEPT !.pcbs = RemoveFirst(@, s), !.ref = @ - 1]
           j == Without(hs.inm, g)
<1>1. r.ref = 0
  <2>1. InmOK(v) /\ v.ref = 1
    BY DEF McHostOK, RecordOf
  <2> HIDE DEF v
  <2>2. r = [ref |-> 0, timer |-> v.timer, pcbs |-> RemoveFirst(v.pcbs, s), freed |-> v.freed]
    <3>1. v.ref - 1 = 0
      BY <2>1
    <3> QED BY <2>1, <3>1, InmFields
  <2> HIDE DEF r
  <2> QED BY <2>2
<1>2. b = [hs EXCEPT !.inm = j, !.filter = @ \ {g}]
  BY <1>1 DEF in_delmulti
<1>3. DOMAIN j = DOMAIN hs.inm \ {g} /\ \A x \in DOMAIN j : j[x] = hs.inm[x]
  BY DEF Without
<1> HIDE DEF j
<1>4. b.inm = j /\ b.filter = hs.filter \ {g}
  BY <1>2 DEF McHostOK
<1> QED
  BY <1>3, <1>4
\* The records after the first k memberships of a socket have ended.
LeftBehind(hs, x, mem, k) ==
    /\ McHostOK(x) /\ x.filter = DOMAIN x.inm
    /\ DOMAIN x.inm = {g \in DOMAIN hs.inm : \A j \in 1 .. k : mem[j] # g}
    /\ \A g \in DOMAIN x.inm : x.inm[g] = hs.inm[g]

LEMMA McFreed ==
    ASSUME NEW hs, McHostOK(hs), hs.filter = DOMAIN hs.inm, NEW s,
           NEW mem \in Seq(Groups), NoDup(mem),
           \A j \in 1 .. Len(mem) : mem[j] \in DOMAIN hs.inm /\ RecordOf(hs.inm[mem[j]], s),
           NEW q \in Seq(Groups \X {s}), Len(q) = Len(mem), \A j \in 1 .. Len(mem) : q[j] = <<mem[j], s>>
    PROVE  LeftBehind(hs, FoldLeft(Leave, hs, q), mem, Len(mem))
<1> DEFINE n == Len(mem)
           x(k) == McLeaving!Fold(hs, SubSeq(q, 1, k))
           Bad == {k \in 0 .. n : ~LeftBehind(hs, x(k), mem, k)}
<1>1. n \in Nat /\ SubSeq(q, 1, n) = q /\ SubSeq(q, 1, 0) = <<>> /\ n \in 0 .. n
  OBVIOUS
<1>2. FoldLeft(Leave, hs, q) = McLeaving!Fold(hs, q)
  BY Zenon DEF McLeaving!Fold, FoldLeft, McLeaving!FoldLeft, MapThenFoldSet,
               McLeaving!MapThenFoldSet, Max, McLeaving!Max
<1> SUFFICES ASSUME Bad # {} PROVE FALSE
  <2>1. ASSUME Bad = {} PROVE LeftBehind(hs, FoldLeft(Leave, hs, q), mem, n)
    <3>1. n \notin Bad
      BY <2>1
    <3>2. LeftBehind(hs, x(n), mem, n)
      BY <3>1, <1>1
    <3> QED BY <3>2, <1>1, <1>2
  <2> QED BY <2>1
<1>3. Bad \in SUBSET Nat
  OBVIOUS
<1>4. PICK k \in Bad : \A j \in Bad : k <= j
  <2> HIDE DEF Bad
  <2> QED BY <1>3, NatMin
<1>5. k \in 0 .. n /\ ~LeftBehind(hs, x(k), mem, k)
  BY <1>4
<1>6. k # 0
  <2>1. x(0) = hs
    BY <1>1, McLeaving!FoldEmpty
  <2>2. LeftBehind(hs, hs, mem, 0)
    <3>1. 1 .. 0 = {}
      OBVIOUS
    <3> QED BY <3>1 DEF LeftBehind
  <2> QED BY <1>5, <2>1, <2>2
<1>7. k - 1 \in 0 .. Len(q) - 1 /\ k - 1 \in 0 .. n /\ k - 1 \notin Bad /\ (k - 1) + 1 = k /\ k \in 1 .. n
  <2> HIDE DEF Bad
  <2> QED BY <1>1, <1>4, <1>5, <1>6
<1> DEFINE y == x(k - 1)
<1>8. LeftBehind(hs, y, mem, k - 1)
  BY <1>7
<1>9. x(k) = Leave(y, q[k])
  <2>1. McLeaving!Fold(hs, SubSeq(q, 1, (k - 1) + 1))
          = Leave(McLeaving!Fold(hs, SubSeq(q, 1, k - 1)), q[(k - 1) + 1])
    BY <1>7, McLeaving!FoldPrefix
  <2> QED BY <1>7, <2>1
<1> HIDE DEF x, y, Bad
<1> DEFINE g == mem[k]
           b == in_delmulti(y, g, s)
<1>10. x(k) = b
  <2>1. q[k] = <<g, s>>
    BY <1>7
  <2> QED BY <1>9, <2>1 DEF Leave
<1>11. g \in DOMAIN y.inm /\ RecordOf(y.inm[g], s)
  <2>1. \A j \in 1 .. k - 1 : mem[j] # g
    BY <1>7 DEF NoDup
  <2>2. g \in DOMAIN hs.inm /\ RecordOf(hs.inm[g], s)
    BY <1>7
  <2> QED BY <1>8, <2>1, <2>2 DEF LeftBehind
<1>13. McHostOK(b)
  BY <1>8, McLeave, McFewerOK DEF LeftBehind
<1>15. b = in_delmulti(y, g, s)
  OBVIOUS
<1> HIDE DEF b, g
<1>12. /\ DOMAIN b.inm = DOMAIN y.inm \ {g} /\ b.filter = DOMAIN b.inm
       /\ \A z \in DOMAIN b.inm : b.inm[z] = y.inm[z]
  <2>1. McHostOK(y) /\ y.filter = DOMAIN y.inm
    BY <1>8 DEF LeftBehind
  <2> QED BY <2>1, <1>11, <1>15, McLeft1
<1> USE DEF g
<1>14. LeftBehind(hs, b, mem, k)
  <2>1. \A j \in 1 .. k : j \in 1 .. k - 1 \/ j = k
    BY <1>7
  <2>2. 1 .. k - 1 \subseteq 1 .. k /\ k \in 1 .. k
    BY <1>7
  <2>3. DOMAIN b.inm = {z \in DOMAIN hs.inm : \A j \in 1 .. k : mem[j] # z}
    BY <1>8, <1>12, <2>1, <2>2 DEF LeftBehind
  <2>4. \A z \in DOMAIN b.inm : b.inm[z] = hs.inm[z]
    BY <1>8, <1>12 DEF LeftBehind
  <2> QED BY <1>12, <1>13, <2>3, <2>4 DEF LeftBehind
<1> QED
  BY <1>5, <1>10, <1>14

-----------------------------------------------------------------------------
(***************************************************************************)
(* The actions keep the memberships and the datagrams.                     *)
(***************************************************************************)
LEMMA GroupsInvPrimed ==
    GroupsInv' <=> McInv' /\ MembersOK(host', imo') /\ DataOK(ipintrq', left'.sends, got')
  BY DEF GroupsInv, MembersOK, DataOK

LEMMA GSetOption ==
    ASSUME GroupsInv, McInv', NEW s \in Socks, NEW o, o.mem = imo[s].mem, SetOption(s, o)
    PROVE  GroupsInv'
<1>1. \A t \in Socks : imo'[t].mem = imo[t].mem
  BY DEF SetOption, GroupsInv, McInv
<1>2. \A h \in Hosts : SameRecords(host[h], host'[h])
  BY DEF SetOption, SameRecords
<1>3. MembersOK(host', imo')
  BY <1>1, <1>2, MembersSame DEF GroupsInv
<1> QED
  BY <1>3, GroupsInvPrimed DEF GroupsInv, SetOption

LEMMA GAdd ==
    ASSUME Tidy, GroupsInv, McInv', NEW s \in Socks, NEW g \in Joins[s], g \in Groups,
           NEW d \in 1 .. MaxDelay, NEW short, short # "pcb", ADD_MEMBERSHIP(s, g, d, short)
    PROVE  GroupsInv'
<1> DEFINE h == HostOf[s]
           hs == host[h]
           a == in_addmulti(hs, g, s, d, short)
           m == imo[s].mem
<1>1. /\ ~Contains(m, g) /\ host' = [host EXCEPT ![h] = a.h]
      /\ imo' = [imo EXCEPT ![s].mem = IF a.ok THEN Append(@, g) ELSE @]
      /\ ipintrq' = (IF a.report THEN Report(ipintrq, <<h, g>>) ELSE ipintrq)
      /\ UNCHANGED <<left, got>>
  BY DEF ADD_MEMBERSHIP
<1>2. h \in Hosts /\ McHostOK(hs) /\ MembersOK(host, imo) /\ host = [k \in Hosts |-> host[k]]
      /\ McImoOK(imo[s]) /\ m \in Seq(Groups) /\ imo = [t \in Socks |-> imo[t]]
      /\ DataOK(ipintrq, left.sends, got) /\ left.sends \in Nat
  BY MulticastAssumption DEF GroupsInv, McInv, McImoOK
<1>3. g \notin DOMAIN hs.inm
  <2> SUFFICES ASSUME g \in DOMAIN hs.inm PROVE FALSE
    OBVIOUS
  <2>1. PICK t \in Socks : HostOf[t] = h /\ Contains(imo[t].mem, g)
    BY <1>2 DEF MembersOK
  <2>2. g \in Joins[t]
    BY <1>2, <2>1 DEF MembersOK
  <2>3. t = s
    BY <2>1, <2>2 DEF Tidy, OneSocketPerGroup
  <2> QED BY <1>1, <2>1, <2>3
<1>4. \/ a.h = hs /\ ~a.ok
      \/ /\ a.ok /\ DOMAIN a.h.inm = DOMAIN hs.inm \cup {g} /\ a.h.filter = hs.filter \cup {g}
         /\ RecordOf(a.h.inm[g], s) /\ \A x \in DOMAIN hs.inm : a.h.inm[x] = hs.inm[x]
  <2>1. a = in_addmulti(hs, g, s, d, short) /\ McHostOK(hs)
    BY <1>2
  <2> HIDE DEF hs, a
  <2>2. Joined(hs, g, s, a)
    BY <1>3, <2>1, McJoined
  <2> QED BY <2>2 DEF Joined
<1> DEFINE b == a.h
           ok == a.ok
<1> HIDE DEF a, h
<1>5. \A k \in Hosts : host'[k] = IF k = h THEN b ELSE host[k]
  BY <1>1, <1>2
<1>6. \A t \in Socks : t # s => imo'[t] = imo[t]
  BY <1>1, <1>2
<1>7. MembersOK(host', imo')
  <2>1. CASE ~ok
    <3>1. \A t \in Socks : imo'[t].mem = imo[t].mem
      <4>1. imo' = [imo EXCEPT ![s].mem = @]
        BY <1>1, <2>1
      <4> QED BY <1>2, <4>1 DEF McImoOK
    <3>2. \A k \in Hosts : SameRecords(host[k], host'[k])
      BY <1>4, <1>5, <2>1 DEF SameRecords
    <3> QED BY <1>2, <3>1, <3>2, MembersSame
  <2>2. CASE ok
    <3>1. imo'[s].mem = Append(m, g)
      <4>1. imo' = [imo EXCEPT ![s] = [imo[s] EXCEPT !.mem = Append(m, g)]]
        BY <1>1, <2>2
      <4>2. imo'[s] = [imo[s] EXCEPT !.mem = Append(m, g)]
        BY <1>2, <4>1
      <4>3. [imo[s] EXCEPT !.mem = Append(m, g)].mem = Append(m, g)
        BY <1>2, McOptions
      <4> QED BY <4>2, <4>3
    <3>2. \A x : Contains(imo'[s].mem, x) <=> Contains(m, x) \/ x = g
      <4>1. Len(Append(m, g)) = Len(m) + 1 /\ Len(m) \in Nat /\ Append(m, g)[Len(m) + 1] = g
            /\ \A i \in 1 .. Len(m) : Append(m, g)[i] = m[i]
        BY <1>2
      <4> DEFINE p == Append(m, g)
      <4> HIDE DEF p, m
      <4>2. ASSUME NEW x, Contains(p, x) PROVE Contains(m, x) \/ x = g
        <5>1. PICK i \in 1 .. Len(p) : p[i] = x
          BY <4>2 DEF Contains
        <5>2. i \in 1 .. Len(m) \/ i = Len(m) + 1
          BY <4>1, <5>1 DEF p
        <5> QED BY <4>1, <5>1, <5>2 DEF p, Contains
      <4>3. ASSUME NEW x, Contains(m, x) \/ x = g PROVE Contains(p, x)
        <5>1. CASE x = g
          <6>1. Len(m) + 1 \in 1 .. Len(p) /\ p[Len(m) + 1] = x
            BY <4>1, <5>1 DEF p
          <6> QED BY <6>1 DEF Contains
        <5>2. CASE Contains(m, x)
          <6>1. PICK i \in 1 .. Len(m) : m[i] = x
            BY <5>2 DEF Contains
          <6>2. i \in 1 .. Len(p) /\ p[i] = x
            BY <4>1, <6>1 DEF p
          <6> QED BY <6>2 DEF Contains
        <5> QED BY <4>3, <5>1, <5>2
      <4> QED BY <3>1, <4>2, <4>3 DEF p
    <3>3. /\ DOMAIN b.inm = DOMAIN hs.inm \cup {g} /\ b.filter = hs.filter \cup {g}
          /\ RecordOf(b.inm[g], s) /\ \A x \in DOMAIN hs.inm : b.inm[x] = hs.inm[x]
      BY <1>4, <2>2
    <3>4. hs.filter = DOMAIN hs.inm
      BY <1>2 DEF MembersOK
    <3>5. \A x : Contains(m, x) => x \in Joins[s] /\ x \in DOMAIN hs.inm /\ RecordOf(hs.inm[x], s)
      <4> SUFFICES ASSUME NEW x, Contains(m, x)
                   PROVE  x \in Joins[s] /\ x \in DOMAIN hs.inm /\ RecordOf(hs.inm[x], s)
        OBVIOUS
      <4>1. x \in Joins[s] /\ x \in DOMAIN hs.inm
        BY <1>2 DEF MembersOK, h
      <4>2. PICK t \in Socks : HostOf[t] = h /\ Contains(imo[t].mem, x) /\ RecordOf(hs.inm[x], t)
        BY <1>2, <4>1 DEF MembersOK
      <4>3. x \in Joins[t]
        BY <1>2, <4>2 DEF MembersOK
      <4>4. t = s
        BY <4>1, <4>2, <4>3 DEF Tidy, OneSocketPerGroup, h
      <4> QED BY <4>1, <4>2, <4>4
    <3>6. Changed(hs, b, m, imo'[s].mem, s)
      BY <3>2, <3>3, <3>4, <3>5 DEF Changed
    <3>7. Changed(host[HostOf[s]], b, imo[s].mem, imo'[s].mem, s)
      BY <3>6 DEF h
    <3>8. \A k \in Hosts : host'[k] = IF k = HostOf[s] THEN b ELSE host[k]
      BY <1>5 DEF h
    <3> HIDE DEF b
    <3>9. ChangedIn(host, imo, host', imo', s, b)
      BY <1>6, <3>7, <3>8 DEF ChangedIn
    <3> QED BY <1>2, <3>9, MembersChange
  <2> QED BY <2>1, <2>2
<1>8. DataOK(ipintrq', left.sends, got)
  <2>1. <<h, g>>[2] = g
    OBVIOUS
  <2>2. DataOK(Report(ipintrq, <<h, g>>), left.sends, got)
    BY <1>2, <2>1, DataReport
  <2> QED BY <1>1, <1>2, <2>2
<1>9. left' = left /\ got' = got
  BY <1>1
<1> QED
  BY <1>7, <1>8, <1>9, GroupsInvPrimed

\* The record of a group that a socket joined is the socket's own.
LEMMA OwnRecord ==
    ASSUME Tidy, NEW H, NEW I, MembersOK(H, I), NEW s \in Socks, NEW x, Contains(I[s].mem, x)
    PROVE  /\ x \in Joins[s] /\ x \in DOMAIN H[HostOf[s]].inm
           /\ RecordOf(H[HostOf[s]].inm[x], s)
<1>1. HostOf[s] \in Hosts
  BY MulticastAssumption
<1>2. x \in Joins[s] /\ x \in DOMAIN H[HostOf[s]].inm
  BY DEF MembersOK
<1>3. PICK t \in Socks : /\ HostOf[t] = HostOf[s] /\ Contains(I[t].mem, x)
                         /\ RecordOf(H[HostOf[s]].inm[x], t)
  BY <1>1, <1>2 DEF MembersOK
<1>4. x \in Joins[t]
  BY <1>3 DEF MembersOK
<1>5. t = s
  BY <1>2, <1>3, <1>4 DEF Tidy, OneSocketPerGroup
<1> QED
  BY <1>2, <1>3, <1>5

LEMMA GDrop ==
    ASSUME Tidy, GroupsInv, McInv', NEW s \in Socks, NEW g, DROP_MEMBERSHIP(s, g)
    PROVE  GroupsInv'
<1> DEFINE h == HostOf[s]
           hs == host[h]
           b == in_delmulti(hs, g, s)
           o == imo[s]
           m == RemoveFirst(o.mem, g)
<1>1. /\ Contains(o.mem, g) /\ host' = [host EXCEPT ![h] = b]
      /\ imo' = [imo EXCEPT ![s] = [o EXCEPT !.mem = m]]
      /\ UNCHANGED <<ipintrq, left, got>>
  BY DEF DROP_MEMBERSHIP
<1>2. h \in Hosts /\ McHostOK(hs) /\ MembersOK(host, imo) /\ host = [k \in Hosts |-> host[k]]
      /\ McImoOK(o) /\ imo = [t \in Socks |-> imo[t]]
  BY MulticastAssumption DEF GroupsInv, McInv
<1>3. \A x : Contains(o.mem, x) => x \in Joins[s] /\ x \in DOMAIN hs.inm /\ RecordOf(hs.inm[x], s)
  BY <1>2, OwnRecord
<1>4. hs.filter = DOMAIN hs.inm
  BY <1>2 DEF MembersOK
<1>5. \A x : Contains(m, x) <=> Contains(o.mem, x) /\ x # g
  <2>1. o.mem \in Seq(Groups) /\ NoDup(o.mem)
    BY <1>2 DEF McImoOK
  <2> HIDE DEF o
  <2>2. \A x : Member(m, x) <=> Member(o.mem, x) /\ x # g
    BY <2>1, RemoveOK
  <2> QED BY <2>2 DEF Member, Contains
<1>6. b = in_delmulti(hs, g, s)
  OBVIOUS
<1> HIDE DEF b, hs, m, o
<1>7. /\ DOMAIN b.inm = DOMAIN hs.inm \ {g} /\ b.filter = DOMAIN b.inm
      /\ \A x \in DOMAIN b.inm : b.inm[x] = hs.inm[x]
  <2>1. g \in DOMAIN hs.inm /\ RecordOf(hs.inm[g], s)
    BY <1>1, <1>3
  <2> QED BY <1>2, <1>4, <1>6, <2>1, McLeft1
<1>8. Changed(hs, b, o.mem, m, s)
  BY <1>1, <1>3, <1>5, <1>7 DEF Changed
<1>9. imo'[s].mem = m
  <2>1. imo'[s] = [o EXCEPT !.mem = m]
    BY <1>1, <1>2
  <2>2. [o EXCEPT !.mem = m].mem = m
    BY <1>2, McOptions
  <2> QED BY <2>1, <2>2
<1>10. ChangedIn(host, imo, host', imo', s, b)
  <2>1. Changed(host[HostOf[s]], b, imo[s].mem, imo'[s].mem, s)
    BY <1>8, <1>9 DEF hs, o
  <2>2. \A k \in Hosts : host'[k] = IF k = HostOf[s] THEN b ELSE host[k]
    BY <1>1, <1>2
  <2>3. \A t \in Socks : t # s => imo'[t] = imo[t]
    BY <1>1, <1>2
  <2> QED BY <2>1, <2>2, <2>3 DEF ChangedIn
<1>11. MembersOK(host', imo')
  BY <1>2, <1>10, MembersChange
<1> QED
  BY <1>1, <1>11, GroupsInvPrimed DEF GroupsInv

LEMMA GFree ==
    ASSUME Tidy, GroupsInv, McInv', NEW s \in Socks, ip_freemoptions(s)
    PROVE  GroupsInv'
<1> DEFINE h == HostOf[s]
           hs == host[h]
           mem == imo[s].mem
           q == [i \in DOMAIN mem |-> <<mem[i], s>>]
           b == FoldLeft(Leave, hs, q)
<1>1. /\ host' = [host EXCEPT ![h] = b] /\ imo' = [imo EXCEPT ![s] = DefaultImo]
      /\ UNCHANGED <<ipintrq, left, got>>
  BY DEF ip_freemoptions
<1>2. h \in Hosts /\ McHostOK(hs) /\ MembersOK(host, imo) /\ host = [k \in Hosts |-> host[k]]
      /\ mem \in Seq(Groups) /\ NoDup(mem) /\ imo = [t \in Socks |-> imo[t]]
  BY MulticastAssumption DEF GroupsInv, McInv, McImoOK
<1>3. \A x : Contains(mem, x) => x \in Joins[s] /\ x \in DOMAIN hs.inm /\ RecordOf(hs.inm[x], s)
  BY <1>2, OwnRecord
<1>4. hs.filter = DOMAIN hs.inm
  BY <1>2 DEF MembersOK
<1> HIDE DEF hs, mem
<1>5. q \in Seq(Groups \X {s}) /\ Len(q) = Len(mem) /\ \A j \in 1 .. Len(mem) : q[j] = <<mem[j], s>>
  <2>1. /\ DOMAIN mem = 1 .. Len(mem) /\ Len(mem) \in Nat
        /\ \A i \in 1 .. Len(mem) : mem[i] \in Groups
    BY <1>2
  <2> QED BY <2>1
<1>6. b = FoldLeft(Leave, hs, q)
  OBVIOUS
<1> HIDE DEF b, q
<1>7. LeftBehind(hs, b, mem, Len(mem))
  <2>1. \A j \in 1 .. Len(mem) : mem[j] \in DOMAIN hs.inm /\ RecordOf(hs.inm[mem[j]], s)
    BY <1>3 DEF Contains
  <2> QED BY <1>2, <1>4, <1>5, <1>6, <2>1, McFreed
<1>8. \A x : ~Contains(DefaultImo.mem, x)
  BY DEF DefaultImo, Contains
<1>9. Changed(hs, b, mem, DefaultImo.mem, s)
  <2>1. \A x \in DOMAIN hs.inm : ~Contains(mem, x) => x \in DOMAIN b.inm
    BY <1>7 DEF LeftBehind, Contains
  <2>2. \A x \in DOMAIN b.inm : x \in DOMAIN hs.inm /\ ~Contains(mem, x) /\ b.inm[x] = hs.inm[x]
    BY <1>7 DEF LeftBehind, Contains
  <2>3. b.filter = DOMAIN b.inm
    BY <1>7 DEF LeftBehind
  <2> QED BY <1>8, <2>1, <2>2, <2>3 DEF Changed
<1>10. ChangedIn(host, imo, host', imo', s, b)
  <2>1. imo'[s] = DefaultImo
    BY <1>1, <1>2
  <2>2. Changed(host[HostOf[s]], b, imo[s].mem, imo'[s].mem, s)
    BY <1>9, <2>1 DEF hs, mem
  <2>3. \A k \in Hosts : host'[k] = IF k = HostOf[s] THEN b ELSE host[k]
    BY <1>1, <1>2
  <2>4. \A t \in Socks : t # s => imo'[t] = imo[t]
    BY <1>1, <1>2
  <2> QED BY <2>2, <2>3, <2>4 DEF ChangedIn
<1>11. MembersOK(host', imo')
  BY <1>2, <1>10, MembersChange
<1> QED
  BY <1>1, <1>11, GroupsInvPrimed DEF GroupsInv

\* A record keeps what it says of the memberships when its timer is set.
LEMMA InmTimerSame ==
    ASSUME NEW r, InmOK(r), NEW x
    PROVE  /\ [r EXCEPT !.timer = x].ref = r.ref /\ [r EXCEPT !.timer = x].pcbs = r.pcbs
           /\ [r EXCEPT !.timer = x].freed = r.freed
<1> DEFINE a == r.ref
           b == r.timer
           c == r.pcbs
           d == r.freed
           R == [ref |-> a, timer |-> b, pcbs |-> c, freed |-> d]
           u == [R EXCEPT !.timer = x]
<1>1. r = R
  BY DEF InmOK
<1> HIDE DEF a, b, c, d
<1>2. u = [ref |-> a, timer |-> x, pcbs |-> c, freed |-> d]
  OBVIOUS
<1> HIDE DEF u
<1>3. u.ref = a /\ u.pcbs = c /\ u.freed = d
  BY <1>2
<1>4. u = [r EXCEPT !.timer = x]
  BY <1>1, Zenon DEF u
<1> HIDE DEF R
<1> QED
  BY <1>3, <1>4, Zenon DEF a, c, d

\* Only timers of a host change.
LEMMA TimersSame ==
    ASSUME NEW hs, McHostOK(hs), NEW j, DOMAIN j = DOMAIN hs.inm,
           \A g \in DOMAIN hs.inm : j[g] = hs.inm[g] \/ \E x : j[g] = [hs.inm[g] EXCEPT !.timer = x],
           NEW run, NEW b, b = McSet(hs, j, run)
    PROVE  SameRecords(hs, b)
<1>1. b.inm = j /\ b.filter = hs.filter
  BY McTimers
<1>2. ASSUME NEW g \in DOMAIN hs.inm
      PROVE  j[g].ref = hs.inm[g].ref /\ j[g].pcbs = hs.inm[g].pcbs /\ j[g].freed = hs.inm[g].freed
  <2>1. InmOK(hs.inm[g])
    BY DEF McHostOK
  <2>2. CASE j[g] = hs.inm[g]
    BY <2>2
  <2>3. CASE \E x : j[g] = [hs.inm[g] EXCEPT !.timer = x]
    <3>1. PICK x : j[g] = [hs.inm[g] EXCEPT !.timer = x]
      BY <2>3
    <3> QED BY <2>1, <3>1, InmTimerSame
  <2> QED BY <2>2, <2>3
<1> QED
  BY <1>1, <1>2 DEF SameRecords

\* A host whose timers run, and one that takes a query or a report.
LEMMA TickedSame ==
    ASSUME NEW hs, McHostOK(hs), NEW b, b = [hs EXCEPT !.inm = Ticked(@), !.running = Running(hs.inm)]
    PROVE  SameRecords(hs, b)
<1> DEFINE i == hs.inm
           j == Ticked(i)
<1>1. b = McSet(hs, j, Running(i))
  BY DEF McSet
<1>2. DOMAIN j = DOMAIN i /\ \A g \in DOMAIN i : \E x : j[g] = [i[g] EXCEPT !.timer = x]
  BY DEF Ticked
<1> HIDE DEF j
<1> QED
  BY <1>1, <1>2, TimersSame

LEMMA InputSame ==
    ASSUME NEW hs, McHostOK(hs), NEW f, NEW delay, f.type \in {"query", "report"}
    PROVE  SameRecords(hs, igmp_input(hs, f, delay))
<1> DEFINE i == hs.inm
           b == igmp_input(hs, f, delay)
<1>1. CASE f.type = "query"
  <2> DEFINE j == [g \in DOMAIN i |-> IF i[g].timer = 0 THEN [i[g] EXCEPT !.timer = delay[g]] ELSE i[g]]
             run == hs.running \/ \E g \in DOMAIN i : i[g].timer = 0
  <2>1. b = McSet(hs, j, run)
    BY <1>1 DEF igmp_input, McSet
  <2>2. DOMAIN j = DOMAIN i
        /\ \A g \in DOMAIN i : j[g] = i[g] \/ \E x : j[g] = [i[g] EXCEPT !.timer = x]
    OBVIOUS
  <2> HIDE DEF j, run, b
  <2>3. SameRecords(hs, b)
    BY <2>1, <2>2, TimersSame
  <2> QED BY <2>3 DEF b
<1>2. CASE f.type = "report" /\ f.group \in DOMAIN i
  <2> DEFINE g == f.group
             r == [i[g] EXCEPT !.timer = 0]
  <2>1. b = [hs EXCEPT !.inm[g] = r]
    BY <1>2 DEF igmp_input
  <2>2. InmOK(i[g])
    BY <1>2 DEF McHostOK
  <2>3. r.ref = i[g].ref /\ r.pcbs = i[g].pcbs /\ r.freed = i[g].freed
    BY <2>2, InmTimerSame
  <2> HIDE DEF r, b, g
  <2>4. b = [inm |-> With(hs.inm, g, r), running |-> hs.running, filter |-> hs.filter]
    BY <1>2, <2>1, McRecord DEF g
  <2> DEFINE w == With(hs.inm, g, r)
  <2>5. DOMAIN w = DOMAIN i /\ w[g] = r /\ \A x \in DOMAIN i : x # g => w[x] = i[x]
    BY <1>2 DEF With, g
  <2> HIDE DEF w
  <2>6. b.inm = w /\ b.filter = hs.filter
    BY <2>4 DEF w
  <2>7. SameRecords(hs, b)
    BY <2>3, <2>5, <2>6 DEF SameRecords
  <2> QED BY <2>7 DEF b
<1>3. CASE f.type = "report" /\ f.group \notin DOMAIN i
  BY <1>3 DEF igmp_input, SameRecords
<1> QED
  BY <1>1, <1>2, <1>3

\* One host's timers change.
LEMMA OneHostSame ==
    ASSUME MembersOK(host, imo), host = [k \in Hosts |-> host[k]], NEW h \in Hosts,
           NEW b, SameRecords(host[h], b), host' = [host EXCEPT ![h] = b], imo' = imo
    PROVE  MembersOK(host', imo')
<1>1. \A k \in Hosts : SameRecords(host[k], host'[k])
  <2> TAKE k \in Hosts
  <2>1. CASE k = h
    BY <2>1
  <2>2. CASE k # h
    BY <2>2 DEF SameRecords
  <2> QED BY <2>1, <2>2
<1> QED
  BY <1>1, MembersSame

LEMMA GFasttimo ==
    ASSUME GroupsInv, McInv', NEW h \in Hosts, igmp_fasttimo(h)
    PROVE  GroupsInv'
<1> DEFINE gs == Due(h)
           b == [host[h] EXCEPT !.inm = Ticked(@), !.running = Running(host[h].inm)]
<1>1. /\ host' = [host EXCEPT ![h] = b] /\ imo' = imo /\ left' = left /\ got' = got
      /\ ipintrq' = FoldLeft(Report, ipintrq, SetToSeq({h} \X gs))
  BY DEF igmp_fasttimo, igmp_sendreport
<1>2. MembersOK(host, imo) /\ host = [k \in Hosts |-> host[k]] /\ McHostOK(host[h])
      /\ DataOK(ipintrq, left.sends, got) /\ left.sends \in Nat
  BY DEF GroupsInv, McInv
<1>3. gs \subseteq Groups
  BY <1>2 DEF Due, McHostOK
<1>4. SameRecords(host[h], b)
  BY <1>2, TickedSame
<1> HIDE DEF gs, b
<1>5. MembersOK(host', imo')
  BY <1>1, <1>2, <1>4, OneHostSame
<1>6. DataOK(ipintrq', left'.sends, got')
  BY <1>1, <1>2, <1>3, DataReports
<1> QED
  BY <1>5, <1>6, GroupsInvPrimed

LEMMA GQuery ==
    ASSUME GroupsInv, McInv', Query
    PROVE  GroupsInv'
<1> DEFINE n == left.queries
           f == McQuery(n)
<1>1. /\ n > 0 /\ left' = [left EXCEPT !.queries = n - 1] /\ UNCHANGED <<host, imo, got>>
      /\ ipintrq' = [k \in Hosts |-> IF Len(ipintrq[k]) < MaxQueue
                                     THEN Append(ipintrq[k], f) ELSE ipintrq[k]]
  BY DEF Query, McQuery
<1>2. left \in [queries : Nat, sends : Nat, groups : SUBSET Groups] /\ n \in Nat
      /\ DataOK(ipintrq, left.sends, got) /\ left.sends \in Nat
  BY DEF GroupsInv, McInv
<1>3. f \in McFrame /\ f.type # "data"
  BY <1>2, McFrameIn
<1> HIDE DEF f, n
<1>4. left'.sends = left.sends
  <2>1. n - 1 \in Nat
    BY <1>1, <1>2
  <2> QED BY <1>1, <1>2, <2>1, McLeft
<1>5. /\ ipintrq' = [k \in Hosts |-> ipintrq'[k]]
      /\ \A k \in Hosts : ipintrq'[k] = ipintrq[k] \/ ipintrq'[k] = Append(ipintrq[k], f)
  BY <1>1
<1>6. DataOK(ipintrq', left'.sends, got)
  BY <1>2, <1>3, <1>4, <1>5, DataMore
<1> QED
  BY <1>1, <1>6, GroupsInvPrimed DEF GroupsInv

LEMMA GSend ==
    ASSUME GroupsInv, McInv', NEW s \in Socks, NEW g \in Groups, SendTo(s, g)
    PROVE  GroupsInv'
<1> DEFINE h == HostOf[s]
           n == left.sends
           f == [type |-> "data", group |-> g, id |-> n]
           o == imo[s]
           out == IF o.ttl = 0 THEN ipintrq ELSE Broadcast(ipintrq, h, f)
<1>1. /\ n > 0 /\ left' = [left EXCEPT !.sends = n - 1] /\ UNCHANGED <<host, imo, got>>
      /\ ipintrq' = (IF g \in DOMAIN host[h].inm /\ o.loop /\ Len(out[h]) < MaxQueue
                     THEN [out EXCEPT ![h] = Append(out[h], f)] ELSE out)
  BY DEF SendTo
<1>2. left \in [queries : Nat, sends : Nat, groups : SUBSET Groups] /\ n \in Nat /\ h \in Hosts
      /\ DataOK(ipintrq, n, got) /\ ipintrq = [k \in Hosts |-> ipintrq[k]]
  BY MulticastAssumption DEF GroupsInv, McInv, DataOK
<1>3. f \in McFrame /\ f.type = "data" /\ f.id = n
  BY <1>2 DEF McFrame
<1> HIDE DEF f, n, h, o
<1>4. left'.sends = n - 1 /\ n \in Nat \ {0}
  <2>1. n - 1 \in Nat
    BY <1>1, <1>2
  <2> QED BY <1>1, <1>2, <2>1, McLeft
<1>5. /\ out = [k \in Hosts |-> out[k]] /\ out[h] = ipintrq[h]
      /\ \A k \in Hosts : out[k] = ipintrq[k] \/ out[k] = Append(ipintrq[k], f)
  BY <1>2 DEF Broadcast
<1> HIDE DEF out
<1>6. /\ ipintrq' = [k \in Hosts |-> ipintrq'[k]]
      /\ \A k \in Hosts : ipintrq'[k] = ipintrq[k] \/ ipintrq'[k] = Append(ipintrq[k], f)
  BY <1>1, <1>2, <1>5
<1>7. DataOK(ipintrq', n - 1, got)
  BY <1>2, <1>3, <1>4, <1>6, DataSend
<1> QED
  BY <1>1, <1>4, <1>7, GroupsInvPrimed DEF GroupsInv

\* The receivers of a datagram are sockets of the host that takes it.
LEMMA ReceiversHere ==
    ASSUME MembersOK(host, imo), NEW h \in Hosts, NEW g, NEW s \in Receivers(host[h], g)
    PROVE  s \in Socks /\ HostOf[s] = h
<1>1. g \in DOMAIN host[h].inm
  BY DEF Receivers
<1> DEFINE p == host[h].inm[g].pcbs
<1>2. PICK t \in Socks : HostOf[t] = h /\ p = <<t>>
  BY <1>1 DEF MembersOK, RecordOf
<1>3. PICK i \in 1 .. Len(p) : s = p[i]
  BY <1>1 DEF Receivers
<1> HIDE DEF p
<1>4. s = t
  BY <1>2, <1>3
<1> QED
  BY <1>2, <1>4

LEMMA GInput ==
    ASSUME GroupsInv, McInv', NEW h \in Hosts, ipintrq[h] # <<>>,
           NEW d \in Delays(Head(ipintrq[h])), Input(h, d)
    PROVE  GroupsInv'
<1> DEFINE f == Head(ipintrq[h])
           n == left.sends
           R == Receivers(host[h], f.group)
           b == igmp_input(host[h], f, d)
<1>1. /\ ipintrq' = [ipintrq EXCEPT ![h] = Tail(@)] /\ imo' = imo /\ left' = left
      /\ \/ f.type = "data" /\ McastInput(host[h], f) /\ host' = host
         \/ f.type # "data" /\ host' = [host EXCEPT ![h] = b] /\ got' = got
  BY DEF Input
<1>2. MembersOK(host, imo) /\ host = [k \in Hosts |-> host[k]] /\ McHostOK(host[h])
      /\ DataOK(ipintrq, n, got) /\ n \in Nat
  BY DEF GroupsInv, McInv
<1>3. f.type \in {"query", "report", "data"}
  <2>1. ipintrq[h] \in Seq(McFrame)
    BY <1>2 DEF DataOK, DataOnce
  <2>2. f \in McFrame
    BY <2>1
  <2> HIDE DEF f
  <2> QED BY <2>2 DEF McFrame
<1>4. MembersOK(host', imo')
  <2>1. CASE f.type = "data"
    BY <1>1, <1>2, <2>1
  <2>2. CASE f.type # "data"
    <3>1. SameRecords(host[h], b)
      BY <1>2, <1>3, <2>2, InputSame
    <3>2. host' = [host EXCEPT ![h] = b]
      BY <1>1, <2>2
    <3> HIDE DEF b
    <3> QED BY <1>1, <1>2, <3>1, <3>2, OneHostSame
  <2> QED BY <2>1, <2>2
<1>5. \A s \in Socks : s \in R => HostOf[s] = h
  BY <1>2, ReceiversHere
<1>6. Delivered(got, got', R, f)
  BY <1>1 DEF McastInput, Delivered
<1> HIDE DEF R, b, f, n
<1>7. DataOK(ipintrq', n, got')
  <2>1. Delivered(got, got', R, Head(ipintrq[h]))
    BY <1>6 DEF f
  <2> QED BY <1>1, <1>2, <1>5, <2>1, DataTake
<1> USE DEF n
<1> QED
  BY <1>1, <1>4, <1>7, GroupsInvPrimed

LEMMA GInit == McInit => GroupsInv
<1> SUFFICES ASSUME McInit PROVE GroupsInv
  OBVIOUS
<1>1. /\ host = [h \in Hosts |-> [inm |-> <<>>, running |-> FALSE, filter |-> {}]]
      /\ imo = [s \in Socks |-> DefaultImo] /\ ipintrq = [h \in Hosts |-> <<>>]
      /\ got = [x \in Socks \X (1 .. left.sends) |-> 0]
  BY DEF McInit
<1>2. McInv
  BY McInitInv
<1>3. MembersOK(host, imo)
  <2>1. \A s \in Socks : \A g : ~Contains(imo[s].mem, g)
    BY <1>1 DEF DefaultImo, Contains
  <2>2. \A h \in Hosts : host[h].filter = {} /\ DOMAIN host[h].inm = {}
    <3> DEFINE e == <<>>
    <3>1. DOMAIN e = {}
      OBVIOUS
    <3> HIDE DEF e
    <3>2. \A h \in Hosts : host[h] = [inm |-> e, running |-> FALSE, filter |-> {}]
      BY <1>1 DEF e
    <3> QED BY <3>1, <3>2
  <2> QED BY <2>1, <2>2 DEF MembersOK
<1>4. DataOK(ipintrq, left.sends, got)
  <2>1. \A n : DataOnce(<<>>, n)
    BY DEF DataOnce
  <2>2. left.sends \in Nat
    BY <1>2 DEF McInv
  <2>3. DOMAIN got \subseteq Socks \X Nat /\ \A x \in DOMAIN got : got[x] = 0
    BY <1>1, <2>2
  <2> QED BY <1>1, <2>1, <2>3 DEF DataOK
<1> QED
  BY <1>2, <1>3, <1>4 DEF GroupsInv

LEMMA GNext ==
    ASSUME Tidy, GroupsInv, McInv', [McNext]_mcVars
    PROVE  GroupsInv'
<1>1. \A s \in Socks : Joins[s] \subseteq Groups
  BY MulticastAssumption
<1>2. \A s \in Socks : McImoOK(imo[s])
  BY DEF GroupsInv, McInv
<1>3. ASSUME NEW s \in Tuned, NEW x, MULTICAST_IF(s, x) \/ MULTICAST_TTL(s, x) \/ MULTICAST_LOOP(s, x)
      PROVE  GroupsInv'
  <2>1. s \in Socks
    BY MulticastAssumption
  <2>2. PICK o : o.mem = imo[s].mem /\ SetOption(s, o)
    BY <1>2, <1>3, <2>1, McOptions DEF MULTICAST_IF, MULTICAST_TTL, MULTICAST_LOOP
  <2> QED BY <2>1, <2>2, GSetOption
<1>4. ASSUME NEW s \in Socks, NEW g \in Joins[s] \cap left.groups, NEW d \in 1 .. MaxDelay,
             NEW short \in Shortages \cup {"none"}, ADD_MEMBERSHIP(s, g, d, short)
      PROVE  GroupsInv'
  <2>1. short # "pcb"
    BY DEF Tidy
  <2> QED BY <1>1, <1>4, <2>1, GAdd
<1>5. ASSUME NEW s \in Socks, NEW g \in Joins[s] \cap left.groups, DROP_MEMBERSHIP(s, g) \/ SendTo(s, g)
      PROVE  GroupsInv'
  BY <1>1, <1>5, GDrop, GSend
<1>6. ASSUME NEW s \in Socks, ip_freemoptions(s) PROVE GroupsInv'
  BY <1>6, GFree
<1>7. ASSUME NEW h \in Hosts, igmp_fasttimo(h) PROVE GroupsInv'
  BY <1>7, GFasttimo
<1>8. ASSUME NEW h \in Hosts, ipintrq[h] # <<>>, NEW d \in Delays(Head(ipintrq[h])), Input(h, d)
      PROVE  GroupsInv'
  BY <1>8, GInput
<1>9. ASSUME Query PROVE GroupsInv'
  BY <1>9, GQuery
<1>10. CASE UNCHANGED mcVars
  BY <1>10, GroupsInvPrimed DEF mcVars, GroupsInv
<1> QED
  BY <1>3, <1>4, <1>5, <1>6, <1>7, <1>8, <1>9, <1>10 DEF McNext

\* Where no two sockets of a host join the same group and a record always has
\* room for its first socket, the records, the filter of the interface and the
\* memberships agree, and no socket gets a datagram twice, whatever else is
\* lost or refused (in_addmulti, in_delmulti, ip_setmoptions, udp_input).
THEOREM MembershipsAlwaysSound ==
    ASSUME Tidy PROVE McSpec => []GroupsSound
<1>1. GroupsInv => GroupsSound
  BY GroupsInvSound
<1>2. McInit => GroupsInv
  BY GInit
<1>3. GroupsInv /\ [McNext]_mcVars => GroupsInv'
  <2>1. GroupsInv /\ [McNext]_mcVars => McInv'
    BY McNextInv DEF GroupsInv
  <2> QED BY <2>1, GNext
<1> QED
  BY <1>1, <1>2, <1>3, PTL DEF McSpec
=============================================================================
