------------------------------- MODULE Mbuf --------------------------------
(***************************************************************************)
(* Chains of mbufs and the clusters they share (uipc_mbuf.c).              *)
(*                                                                         *)
(* An mbuf is a part of a cluster: its offset (m_data - m_extBuf) and its  *)
(* length.  A copy made by m_copym shares the clusters of the original, so *)
(* that an operation on one packet may reach the bytes of another.  The    *)
(* pool of clusters is netBufLib's; all clusters are of one size here.     *)
(***************************************************************************)
EXTENDS Integers, Sequences, SequencesExt, FiniteSets, FiniteSetsExt, Folds

CONSTANTS
    Pkts,           \* packets
    Clusters,       \* a set of numbers
    extSz,          \* m_extSize of every cluster
    max_linkhdr,    \* room that m_devget leaves at the front
    max_protohdr,   \* what m_pullup tries to make contiguous
    Totals,         \* lengths of the packets that arrive
    Lens,           \* lengths given to the other routines
    MaxMbufOps      \* bound on the operations of a behaviour

VARIABLES
    bytes,      \* bytes[c][i]: the contents of the clusters
    refs,       \* refs[c]: clRefCnt; 0 in the free pool
    chain,      \* chain[p]: the mbufs of packet p
    pktlen,     \* pktlen[p]: m_pkthdr.len
    want,       \* want[p]: what p must contain (history)
    ops         \* operations so far

mbVars == <<bytes, refs, chain, pktlen, want, ops>>

Data(B, c) == FoldLeft(LAMBDA acc, m : acc \o [i \in 1 .. m.len |-> B[m.cl][m.off + i - 1]], <<>>, c)
Free == {c \in Clusters : refs[c] = 0}
Total(c) == FoldLeft(LAMBDA n, m : n + m.len, 0, c)
Least(a, b) == IF a < b THEN a ELSE b

\* clBlkFree of every mbuf of a chain
Dropped(R, c) == [x \in Clusters |-> R[x] - Cardinality({i \in DOMAIN c : c[i].cl = x})]

\* Mutant: a copied mbuf does not count as a user of its cluster.
Shared_Uncounted(R, c) == R

\* ++ (n->m_extRefCnt)
Shared(R, c) == [x \in Clusters |-> R[x] + Cardinality({i \in DOMAIN c : c[i].cl = x})]

\* mBufClGet: a cluster, or none when the pool has none
mBufClGet == IF Free = {} THEN {} ELSE {Min(Free)}

Written(B, cl, off, data) ==
    [B EXCEPT ![cl] = [i \in DOMAIN @ |-> IF i >= off /\ i < off + Len(data) THEN data[i - off + 1] ELSE @[i]]]

Step == ops < MaxMbufOps /\ ops' = ops + 1

\* The mbufs and their cluster go back to the pool.
Emptied(p) ==
    /\ refs' = Dropped(refs, chain[p]) /\ chain' = [chain EXCEPT ![p] = <<>>]
    /\ pktlen' = [pktlen EXCEPT ![p] = 0] /\ want' = [want EXCEPT ![p] = <<>>]

m_freem(p) == Step /\ chain[p] # <<>> /\ Emptied(p) /\ UNCHANGED bytes

(***************************************************************************)
(* m_devget: a packet from a driver, room for the link header in front.    *)
(***************************************************************************)
DevLens(totlen) ==
    LET first == Least(totlen, extSz - max_linkhdr)
        rest == totlen - first
    IN  <<first>> \o [i \in 1 .. (rest + extSz - 1) \div extSz |-> Least(extSz, rest - (i - 1) * extSz)]

m_devget(p, totlen) ==
    LET lens == DevLens(totlen)
        n == Len(lens)
        cls == SetToSortSeq(Free, LAMBDA a, b : a < b)
        buf == [i \in 1 .. totlen |-> <<p, i>>]
        start(i) == FoldLeft(+, 0, SubSeq(lens, 1, i - 1))
        off(i) == IF i = 1 THEN max_linkhdr ELSE 0
    IN  /\ Step /\ chain[p] = <<>> /\ Len(cls) >= n
        /\ chain' = [chain EXCEPT ![p] = [i \in 1 .. n |-> [cl |-> cls[i], off |-> off(i), len |-> lens[i]]]]
        /\ refs' = [c \in Clusters |-> IF \E i \in 1 .. n : cls[i] = c THEN 1 ELSE refs[c]]
        /\ bytes' = FoldLeft(LAMBDA B, i : Written(B, cls[i], off(i), SubSeq(buf, start(i) + 1, start(i) + lens[i])),
                            bytes, [i \in 1 .. n |-> i])
        /\ pktlen' = [pktlen EXCEPT ![p] = totlen] /\ want' = [want EXCEPT ![p] = buf]

(***************************************************************************)
(* m_copym, m_cat, m_prepend.                                              *)
(***************************************************************************)
\* the first loop: the mbuf that has byte off, and off within it
Skip(c, off) ==
    LET before(i) == Total(SubSeq(c, 1, i - 1))
        i == IF off = 0 THEN 1 ELSE Min({j \in DOMAIN c : off < before(j) + c[j].len})
    IN  <<SubSeq(c, i, Len(c)), off - before(i)>>

\* the second: len bytes from off within the first mbuf
Part(c, off, len) ==
    LET cut == [i \in DOMAIN c |-> IF i = 1 THEN [c[i] EXCEPT !.off = @ + off, !.len = @ - off] ELSE c[i]]
        left(i) == len - Total(SubSeq(cut, 1, i - 1))
        upTo == {i \in DOMAIN c : left(i) > 0}
    IN  [i \in 1 .. Cardinality(upTo) |-> [cut[i] EXCEPT !.len = Least(@, left(i))]]

SubChain(c, off, len) == Part(Skip(c, off)[1], Skip(c, off)[2], len)

\* No mbuf to be had: what was copied is freed again, and nothing changes.
m_copym(p, to, off, len) ==
    LET c == SubChain(chain[p], off, len) IN
    /\ Step /\ chain[p] # <<>> /\ chain[to] = <<>> /\ off + len <= Total(chain[p]) /\ len > 0
    /\ chain' = [chain EXCEPT ![to] = c] /\ refs' = Shared(refs, c)
    /\ pktlen' = [pktlen EXCEPT ![to] = len]
    /\ want' = [want EXCEPT ![to] = SubSeq(want[p], off + 1, off + len)]
    /\ UNCHANGED bytes

\* m_copydata
m_copydata(c, off, len) == Data(bytes, SubChain(c, off, len))

\* The caller adds up m_pkthdr.len.
m_cat(p, n) ==
    /\ Step /\ p # n /\ chain[p] # <<>> /\ chain[n] # <<>>
    /\ chain' = [chain EXCEPT ![p] = @ \o chain[n], ![n] = <<>>]
    /\ want' = [want EXCEPT ![p] = @ \o want[n], ![n] = <<>>]
    /\ pktlen' = [pktlen EXCEPT ![p] = @ + pktlen[n], ![n] = 0]
    /\ UNCHANGED <<bytes, refs>>

\* M_PREPEND: the header is written at the end of a new cluster.
m_prepend(p, len) ==
    LET h == [i \in 1 .. len |-> <<"header", i>>] IN
    /\ Step /\ chain[p] # <<>>
    /\ IF mBufClGet = {} THEN Emptied(p) /\ UNCHANGED bytes
       ELSE LET cl == Min(mBufClGet) IN
            /\ chain' = [chain EXCEPT ![p] = <<[cl |-> cl, off |-> extSz - len, len |-> len]>> \o @]
            /\ refs' = [refs EXCEPT ![cl] = 1] /\ bytes' = Written(bytes, cl, extSz - len, h)
            /\ want' = [want EXCEPT ![p] = h \o @] /\ pktlen' = [pktlen EXCEPT ![p] = @ + len]

(***************************************************************************)
(* m_adj: bytes are cut from the front, or from the end if req_len < 0.    *)
(***************************************************************************)
CutFront(c, len) ==
    LET left(i) == len - Total(SubSeq(c, 1, i - 1)) IN
    [i \in DOMAIN c |-> IF left(i) <= 0 THEN c[i]
                        ELSE IF c[i].len <= left(i) THEN [c[i] EXCEPT !.len = 0]
                        ELSE [c[i] EXCEPT !.off = @ + left(i), !.len = @ - left(i)]]

\* The last mbuf is long enough, or the lengths are cut to count from the front.
CutEnd(c, len) ==
    LET count == IF Total(c) < len THEN 0 ELSE Total(c) - len
        left(i) == count - Total(SubSeq(c, 1, i - 1))
    IN  IF Last(c).len >= len THEN [c EXCEPT ![Len(c)].len = @ - len]
        ELSE [i \in DOMAIN c |-> [c[i] EXCEPT !.len = IF left(i) <= 0 THEN 0 ELSE Least(@, left(i))]]

m_adj(p, req_len) ==
    LET c == chain[p]
        d == IF req_len >= 0 THEN CutFront(c, req_len) ELSE CutEnd(c, -req_len)
        n == Least(Len(want[p]), IF req_len >= 0 THEN req_len ELSE -req_len)
    IN  /\ Step /\ c # <<>>
        /\ chain' = [chain EXCEPT ![p] = d]
        /\ pktlen' = [pktlen EXCEPT ![p] = IF req_len >= 0 THEN @ - n
                                           ELSE IF Last(c).len >= -req_len THEN @ + req_len
                                           ELSE IF Total(c) + req_len < 0 THEN 0 ELSE Total(c) + req_len]
        /\ want' = [want EXCEPT ![p] = IF req_len >= 0 THEN SubSeq(@, n + 1, Len(@)) ELSE SubSeq(@, 1, Len(@) - n)]
        /\ UNCHANGED <<bytes, refs>>

(***************************************************************************)
(* m_pullup: the first len bytes in one mbuf.                              *)
(***************************************************************************)
\* do ... while (len > 0 && n): m takes from the chain n; s.took is what was freed.
Pull(m, n, len) ==
    LET max(a, b) == IF a > b THEN a ELSE b
        turn(s) ==
          LET h == Head(s.n)
              count == Least(Least(max(s.len, max_protohdr), extSz - s.m.off - s.m.len), h.len)
              B == Written(s.B, s.m.cl, s.m.off + s.m.len, [i \in 1 .. count |-> s.B[h.cl][h.off + i - 1]])
          IN  [B |-> B, len |-> s.len - count, m |-> [s.m EXCEPT !.len = @ + count],
               n |-> IF h.len = count THEN Tail(s.n) ELSE <<[h EXCEPT !.off = @ + count, !.len = @ - count]>> \o Tail(s.n),
               gone |-> IF h.len = count THEN Append(s.gone, h) ELSE s.gone]
        loop[i \in 0 .. Len(n)] ==
          IF i = 0 THEN [B |-> bytes, len |-> len, m |-> m, n |-> n, gone |-> <<>>]
          ELSE IF i > 1 /\ (loop[i - 1].len <= 0 \/ loop[i - 1].n = <<>>) THEN loop[i - 1]
          ELSE turn(loop[i - 1])
    IN  loop[Len(n)]

\* The bytes after the first mbuf in its cluster are nobody's.
RoomUnshared(p) ==
    LET m == chain[p][1] IN
    \A o \in Pkts : \A i \in DOMAIN chain[o] :
        (o # p \/ i # 1) /\ chain[o][i].cl = m.cl /\ chain[o][i].len > 0 => chain[o][i].off + chain[o][i].len <= m.off + m.len

m_pullup(p, len) ==
    LET c == chain[p]
        inplace == c[1].off + len < extSz /\ Len(c) > 1
        r == IF inplace THEN Pull(c[1], Tail(c), len - c[1].len)
             ELSE Pull([cl |-> Min(mBufClGet), off |-> 0, len |-> 0], c, len)
        base == IF inplace THEN refs ELSE [refs EXCEPT ![Min(mBufClGet)] = 1]
    IN  /\ Step /\ c # <<>> /\ len <= extSz
        /\ IF inplace /\ c[1].len >= len THEN UNCHANGED <<bytes, refs, chain, pktlen, want>>
           ELSE IF ~inplace /\ mBufClGet = {} THEN Emptied(p) /\ UNCHANGED bytes
           ELSE /\ inplace => RoomUnshared(p)
                /\ bytes' = r.B
                /\ IF r.len > 0
                   THEN Emptied(p)
                   ELSE /\ chain' = [chain EXCEPT ![p] = <<r.m>> \o r.n] /\ refs' = Dropped(base, r.gone)
                        /\ UNCHANGED <<pktlen, want>>

MbufInit ==
    /\ bytes = [c \in Clusters |-> [i \in 0 .. extSz - 1 |-> <<"free", 0>>]] /\ refs = [c \in Clusters |-> 0]
    /\ chain = [p \in Pkts |-> <<>>] /\ pktlen = [p \in Pkts |-> 0] /\ want = [p \in Pkts |-> <<>>] /\ ops = 0

MbufNext ==
    \E p \in Pkts :
        \/ m_freem(p) \/ \E n \in Totals : m_devget(p, n)
        \/ \E to \in Pkts \ {p} : m_cat(p, to) \/ \E off, len \in Lens \cup {0} : m_copym(p, to, off, len)
        \/ \E len \in Lens : m_prepend(p, len) \/ m_adj(p, len) \/ m_adj(p, -len) \/ m_pullup(p, len)

\* Whatever is done to a packet, every packet has exactly the bytes that belong
\* to it, m_copydata finds them at every offset, its length is recorded right,
\* and a cluster is in use as long as some mbuf has a part of it and no longer,
\* although copies share their clusters and routines fail half way.
PacketsIntact ==
    /\ \A p \in Pkts :
         /\ Data(bytes, chain[p]) = want[p] /\ pktlen[p] = Len(want[p])
         /\ \A off \in 0 .. Len(want[p]) : \A len \in 1 .. Len(want[p]) - off :
               m_copydata(chain[p], off, len) = SubSeq(want[p], off + 1, off + len)
    /\ \A c \in Clusters :
         refs[c] = Cardinality({<<p, i>> \in UNION {{p} \X DOMAIN chain[p] : p \in Pkts} : chain[p][i].cl = c})
=============================================================================
