------------------------------ MODULE SockBuf ------------------------------
(***************************************************************************)
(* The socket buffers (uipc_sock2.c) and soreceive (uipc_sock.c).          *)
(*                                                                         *)
(* A buffer is a sequence of records, a record a sequence of mbufs with    *)
(* the bytes in them.  kind says which buffer a behaviour follows: the     *)
(* receive buffer of a stream, that of a datagram socket, or the send      *)
(* buffer of a stream, whose bytes go when they are acknowledged.          *)
(***************************************************************************)
EXTENDS Integers, Sequences, SequencesExt, FiniteSetsExt

CONSTANTS
    sb_hiwat, sb_mbmax,     \* limits of the buffer, in bytes and in mbufs
    extSize,                \* bytes in a cluster
    CL_SIZE_MIN,            \* a smaller mbuf is copied behind the last one
    Chains,                 \* the shapes of what is appended: lengths of mbufs
    Requests,               \* the reads: [resid, peek, waitall, dontwait]
    MaxBytes, MaxDgrams     \* bounds on what a behaviour appends

ASSUME SbAssumption ==
    /\ sb_hiwat \in Nat /\ sb_mbmax \in Nat
    /\ \A shape \in Chains : shape \in Seq(Nat) /\ shape # <<>>
    /\ Requests \subseteq [resid : Nat, peek : BOOLEAN, waitall : BOOLEAN, dontwait : BOOLEAN]

VARIABLES kind, sb, oobmark, cantrcvmore,
    reader,         \* the read that is under way, or NoRead
    put, taken,       \* what was appended and what was taken away, for the properties
    markAt          \* how many bytes come before the urgent byte, -1: none

sbVars == <<kind, sb, oobmark, cantrcvmore, reader, put, taken, markAt>>

Mbuf(t, d, eor) == [type |-> t, data |-> d, eor |-> eor]
EmptySb == [recs |-> <<>>, cc |-> 0, mbcnt |-> 0]
NoRead == [resid |-> 0, peek |-> FALSE, waitall |-> FALSE, dontwait |-> FALSE, data |-> <<>>]

\* the bytes of a record, and the mbufs of a sequence of records
AddData(bytes, m) == bytes \o m.data
AddMbufs(mbufs, rec) == mbufs \o rec
Bytes(rec) == FoldLeft(AddData, <<>>, rec)
Mbufs(recs) == FoldLeft(AddMbufs, <<>>, recs)
Size(rec) == Len(Bytes(rec))

sballoc(b, m) == [b EXCEPT !.cc = @ + Len(m.data), !.mbcnt = @ + 1]
sbspace(b) == Min({sb_hiwat - b.cc, sb_mbmax - b.mbcnt})

(***************************************************************************)
(* Appending.  rec is the record that grows, the last one of b.            *)
(***************************************************************************)
Copied(b, last, m) ==
    LET rec == b.recs[Len(b.recs)] IN
    [b EXCEPT !.recs[Len(b.recs)] = [rec EXCEPT ![Len(rec)].data = last.data \o m.data],
              !.cc = @ + Len(m.data)]

Linked(b, m) ==
    [sballoc(b, m) EXCEPT !.recs[Len(b.recs)] = Append(@, [m EXCEPT !.eor = FALSE])]

MarkEor(b) ==
    LET rec == b.recs[Len(b.recs)] IN
    [b EXCEPT !.recs[Len(b.recs)] = [rec EXCEPT ![Len(rec)].eor = TRUE]]

\* One turn of the loop of sbcompress
Compress(b, m, eor, lastOfChain) ==
    LET rec  == b.recs[Len(b.recs)]
        last == rec[Len(rec)]
        some == rec # <<>>
    IN  IF m.data = <<>> /\ (~eor \/ ~lastOfChain \/ (some /\ last.type = m.type)) THEN b
        ELSE IF some /\ Len(m.data) < CL_SIZE_MIN /\ Len(last.data) + Len(m.data) < extSize
                /\ ~last.eor /\ last.type = m.type
        THEN Copied(b, last, m)
        ELSE Linked(b, m)

Turn(s, x) ==
    LET e == s.eor \/ x.m.eor IN [b |-> Compress(s.b, x.m, e, x.last), eor |-> e]

sbcompress(b, chain, eor) ==
    LET s == FoldLeft(Turn, [b |-> b, eor |-> eor],
                      [i \in DOMAIN chain |-> [m |-> chain[i], last |-> i = Len(chain)]])
    IN  IF s.eor THEN MarkEor(s.b) ELSE s.b

\* sbappendrecord: the first mbuf is linked as it is.
sbappendrecord(b, chain) ==
    LET m0  == Head(chain)
        rest == Tail(chain)
        moved == m0.eor /\ rest # <<>>
        b1 == [sballoc(b, m0) EXCEPT !.recs = Append(@, <<[m0 EXCEPT !.eor = @ /\ ~moved]>>)]
    IN  sbcompress(b1, IF moved THEN [rest EXCEPT ![1].eor = TRUE] ELSE rest, FALSE)

sbappend(b, chain) ==
    LET n == Len(b.recs) IN
    IF n > 0 /\ \E i \in DOMAIN b.recs[n] : b.recs[n][i].eor THEN sbappendrecord(b, chain)
    ELSE IF n > 0 THEN sbcompress(b, chain, FALSE)
    ELSE LET b1 == sbcompress([b EXCEPT !.recs = <<<<>>>>], chain, FALSE) IN
         IF b1.recs[1] = <<>> THEN b ELSE b1

\* sbappendaddr: all of the datagram or nothing of it
sbappendaddr(b, name, chain) ==
    LET rec == <<Mbuf("name", <<name>>, FALSE)>> \o chain IN
    IF Size(rec) > sbspace(b) THEN b
    ELSE [recs |-> Append(b.recs, rec), cc |-> b.cc + Size(rec), mbcnt |-> b.mbcnt + Len(rec)]

(***************************************************************************)
(* Taking away.                                                            *)
(***************************************************************************)
\* The mbufs left of s when its first n bytes are taken; those without data
\* go with the ones before them.
Rest(s, n) ==
    LET gone == Max({j \in 0 .. Len(s) : Size(SubSeq(s, 1, j)) <= n})
        left == SubSeq(s, gone + 1, Len(s))
    IN  IF left = <<>> THEN left
        ELSE [left EXCEPT ![1].data = SubSeq(@, n - Size(SubSeq(s, 1, gone)) + 1, Len(@))]

\* The buffer b with rec, or nothing, in place of its first k records
Shrunk(b, k, rec) ==
    LET old == Mbufs(SubSeq(b.recs, 1, k)) IN
    [recs |-> (IF rec = <<>> THEN <<>> ELSE <<rec>>) \o SubSeq(b.recs, k + 1, Len(b.recs)),
     cc |-> b.cc - (Size(old) - Size(rec)), mbcnt |-> b.mbcnt - (Len(old) - Len(rec))]

\* sbdrop, across records: the record that has the n-th byte is cut.
sbdrop(b, n) ==
    LET before(j) == Mbufs(SubSeq(b.recs, 1, j))
        k == Min({Len(b.recs)} \cup {j \in 1 .. Len(b.recs) : Size(before(j)) >= n})
    IN  Shrunk(b, k, Rest(before(k), n))

\* Mutant: what was not asked for of a datagram is left in the buffer.
sbdroprecord_OneMbuf(b) == Shrunk(b, 1, Tail(b.recs[1]))

sbdroprecord(b) == Shrunk(b, 1, <<>>)

\* One sbdrop after the other, until no record is left
DropAll(b, rec) == sbdrop(b, b.cc)
sbflush(b) == FoldLeft(DropAll, b, b.recs)

(***************************************************************************)
(* soreceive.  r is the read; a stream is read from its first record.      *)
(***************************************************************************)
\* nothing, or too little, is there
Wanting(r) ==
    \/ sb.recs = <<>>
    \/ /\ kind = "stream" /\ ~r.dontwait /\ sb.cc < r.resid /\ Len(sb.recs) = 1
       /\ r.waitall /\ r.resid <= sb_hiwat

\* up to the first record mark of rec
ToEor(rec) ==
    LET ends == {i \in DOMAIN rec : rec[i].eor} IN
    IF ends = {} THEN Size(rec) ELSE Size(SubSeq(rec, 1, Min(ends)))

Amount(r, rec) == Min({r.resid, ToEor(rec)} \cup (IF oobmark > 0 THEN {oobmark} ELSE {}))

\* Line 817: more is wanted and the buffer is empty.
WaitMore(r, n, b) ==
    r.waitall /\ n > 0 /\ r.resid > n /\ b.recs = <<>> /\ ~cantrcvmore
    /\ oobmark # n /\ ~sb.recs[1][Len(sb.recs[1])].eor

ReadStream(r) ==
    LET rec == sb.recs[1]
        n == Amount(r, rec)
        b == Shrunk(sb, 1, Rest(rec, n))
        data == SubSeq(Bytes(rec), 1, n)
    IN  /\ sb' = IF r.peek THEN sb ELSE b
        /\ oobmark' = IF r.peek \/ oobmark = 0 THEN oobmark ELSE oobmark - n
        /\ taken' = IF r.peek THEN taken ELSE taken \o data
        /\ reader' = IF ~r.peek /\ WaitMore(r, n, b)
                     THEN [r EXCEPT !.resid = @ - n, !.data = @ \o data] ELSE NoRead
        /\ markAt' = IF ~r.peek /\ oobmark > 0 /\ oobmark = n THEN -1 ELSE markAt

\* A datagram: its name, as much as was asked for, and the rest is lost.
ReadDgram(r) ==
    LET rec == sb.recs[1]
        n == Min({r.resid, Size(Tail(rec))})
    IN  /\ sb' = IF r.peek THEN sb ELSE sbdroprecord(sb)
        /\ taken' = IF r.peek THEN taken ELSE Append(taken, <<rec[1].data, SubSeq(Bytes(Tail(rec)), 1, n), r.resid>>)
        /\ reader' = NoRead /\ UNCHANGED <<oobmark, markAt>>

Idle == reader = NoRead

\* The head of soreceive: the error and the end of the stream give way to data.
Attempt(r) ==
    IF Wanting(r) /\ ~(sb.recs # <<>> /\ (cantrcvmore \/ \E i \in DOMAIN sb.recs[1] : sb.recs[1][i].eor))
    THEN /\ reader' = IF cantrcvmore \/ r.dontwait THEN NoRead ELSE r
         /\ UNCHANGED <<sb, oobmark, taken, markAt>>
    ELSE IF kind = "stream" THEN ReadStream(r) ELSE ReadDgram(r)

soreceive(q) ==
    /\ Idle /\ kind # "send"
    /\ Attempt([resid |-> q.resid, peek |-> q.peek, waitall |-> q.waitall, dontwait |-> q.dontwait, data |-> <<>>])
    /\ UNCHANGED <<kind, cantrcvmore, put>>

\* sorwakeup: the reader looks again.  A read that has some bytes already is in
\* the loop of line 817 and takes what there is.
Woken == ~Idle /\ (cantrcvmore \/ sb.recs # <<>>)
Resume ==
    /\ Woken
    /\ IF reader.data = <<>> THEN Attempt(reader)
       ELSE IF sb.recs = <<>> THEN reader' = NoRead /\ UNCHANGED <<sb, oobmark, taken, markAt>>
       ELSE ReadStream(reader)
    /\ UNCHANGED <<kind, cantrcvmore, put>>

(***************************************************************************)
(* What the protocols do.                                                  *)
(***************************************************************************)
Plus(a, n) == a + n
Total(shape) == FoldLeft(Plus, 0, shape)

\* the bytes are numbered
Chain(shape, first, eor) ==
    [i \in DOMAIN shape |->
        LET before == Total(SubSeq(shape, 1, i - 1)) IN
        Mbuf("data", [k \in 1 .. shape[i] |-> first + before + k], eor /\ i = Len(shape))]

\* tcp_input and PRU_SEND; the window and sbspace keep a stream in its limits.
AppendStream(shape, eor) ==
    /\ kind # "dgram" /\ ~cantrcvmore /\ Total(shape) <= sbspace(sb) /\ Len(put) + Total(shape) <= MaxBytes
    /\ sb' = sbappend(sb, Chain(shape, Len(put), eor))
    /\ put' = put \o [k \in 1 .. Total(shape) |-> Len(put) + k]
    /\ UNCHANGED <<kind, oobmark, cantrcvmore, reader, taken, markAt>>

\* tcp_input: an urgent byte follows what is in the buffer.
Urgent ==
    /\ kind = "stream" /\ oobmark = 0 /\ sb.cc > 0
    /\ oobmark' = sb.cc /\ markAt' = Len(taken) + sb.cc
    /\ UNCHANGED <<kind, sb, cantrcvmore, reader, put, taken>>

\* udp_input and rip_input
AppendDgram(shape) ==
    /\ kind = "dgram" /\ ~cantrcvmore /\ Len(put) < MaxDgrams
    /\ LET b == sbappendaddr(sb, Len(put) + 1, Chain(shape, 0, FALSE)) IN
       /\ sb' = b
       /\ put' = IF b = sb THEN put ELSE Append(put, <<<<Len(put) + 1>>, [k \in 1 .. Total(shape) |-> k]>>)
    /\ UNCHANGED <<kind, oobmark, cantrcvmore, reader, taken, markAt>>

\* tcp_input: n bytes are acknowledged.
Acked(n) ==
    /\ kind = "send" /\ n <= sb.cc
    /\ sb' = sbdrop(sb, n) /\ taken' = taken \o SubSeq(put, Len(taken) + 1, Len(taken) + n)
    /\ UNCHANGED <<kind, oobmark, cantrcvmore, reader, put, markAt>>

\* the peer closed, or the socket was shut down (sorflush)
EndOfInput ==
    /\ ~cantrcvmore /\ cantrcvmore' = TRUE
    /\ UNCHANGED <<kind, sb, oobmark, reader, put, taken, markAt>>

sorflush ==
    /\ ~cantrcvmore /\ cantrcvmore' = TRUE
    /\ sb' = sbflush(sb) /\ put' = <<>> /\ taken' = <<>> /\ oobmark' = 0 /\ markAt' = -1
    /\ UNCHANGED <<kind, reader>>

SbInit ==
    /\ kind \in {"stream", "dgram", "send"}
    /\ sb = EmptySb /\ oobmark = 0 /\ cantrcvmore = FALSE /\ reader = NoRead
    /\ put = <<>> /\ taken = <<>> /\ markAt = -1

SbNext ==
    \/ \E shape \in Chains, eor \in BOOLEAN : AppendStream(shape, eor)
    \/ \E shape \in Chains : AppendDgram(shape)
    \/ \E q \in Requests : soreceive(q)
    \/ \E n \in 1 .. sb_hiwat : Acked(n)
    \/ Resume \/ Urgent \/ EndOfInput \/ sorflush

SbSpec == SbInit /\ [][SbNext]_sbVars

(***************************************************************************)
(* Properties.                                                             *)
(***************************************************************************)
\* sb_cc and sb_mbcnt are what is in the buffer, whatever was copied, cut or
\* dropped (sballoc, sbfree, sbcompress, sbdrop), and no record is empty.
CountsExact ==
    /\ sb.cc = Size(Mbufs(sb.recs)) /\ sb.mbcnt = Len(Mbufs(sb.recs))
    /\ \A i \in DOMAIN sb.recs : sb.recs[i] # <<>>

\* A stream gives the bytes that were put in, each once and in order; a
\* datagram comes with its own address and the beginning of its own data
\* (sbappend, sbappendaddr, soreceive, sbdrop).
NothingLostOrMixed ==
    IF kind = "dgram"
    THEN /\ Len(taken) + Len(sb.recs) = Len(put)
         /\ \A i \in DOMAIN taken :
                taken[i][1] = put[i][1] /\ taken[i][2] = SubSeq(put[i][2], 1, Min({taken[i][3], Len(put[i][2])}))
    ELSE taken \o Bytes(Mbufs(sb.recs)) = put

\* The urgent mark is where the urgent byte was, and a read stops there
\* (soreceive, so_oobmark).
MarkKept == IF oobmark > 0 THEN markAt = Len(taken) + oobmark ELSE markAt = -1

\* The buffer gives what was put in, with exact counts and the urgent mark in
\* its place, however readers and writers cut it (uipc_sock.c, uipc_sock2.c).
StreamIntact == CountsExact /\ NothingLostOrMixed /\ MarkKept
=============================================================================
