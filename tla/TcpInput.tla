------------------------------ MODULE TcpInput ------------------------------
(***************************************************************************)
(* tcp_input() (netinet/tcp_input.c).  A segment in progress is a record   *)
(* [c, s, go, needoutput]: the control block, the segment as trimmed so    *)
(* far, and where the code has gone to: "on", or one of its labels "drop", *)
(* "dropafterack", "dropwithreset", "step6" and "findpcb".                 *)
(***************************************************************************)
EXTENDS TcpCb

On(x, c, s) == [x EXCEPT !.c = c, !.s = s]
Go(x, label) == [x EXCEPT !.go = label]
Drop(x, c) == [x EXCEPT !.c = c, !.go = "drop"]

soisconnected(c) == [c EXCEPT !.connected = TRUE]

\* tcp_xmit_timer(): a timed segment has been acknowledged.
tcp_xmit_timer(c, ackno) ==
    IF c.rtt # NotTimed /\ SEQ_GT(ackno, c.rtt)
      THEN [c EXCEPT !.rtt = NotTimed, !.shift = 0] ELSE c

\* Mutant: any ACK stops the timer.
RestartRexmt_Stop(c, ackno) == [c EXCEPT !.rexmt = FALSE]

\* Stop the retransmit timer when everything is acknowledged, or restart it.
RestartRexmt(c, ackno) ==
    [c EXCEPT !.rexmt = IF ackno = c.max THEN FALSE ELSE @ \/ ~c.persist]

sbdrop(q, n) == SubSeq(q, n + 1, Len(q))

-----------------------------------------------------------------------------
(* The reassembly queue: segments [seq, data, fin] in the order of seq.    *)

TrimFront(q, i) == [q EXCEPT !.seq = Add(@, i), !.data = sbdrop(@, i)]

End(q) == Add(q.seq, Len(q.data))

\* present: the segments that continue the stream go to the user.
Present(c) ==
    LET take(r, q) ==
          IF r.done \/ q.seq # r.c.rcvnxt THEN [r EXCEPT !.done = TRUE]
          ELSE [c |-> [r.c EXCEPT !.rcvnxt = End(q), !.segs = Tail(@),
                          !.rcv = IF r.c.cantrcv THEN @ ELSE @ \o q.data],
                fin |-> q.fin, done |-> FALSE]
    IN  IF \/ ~TCPS_HAVERCVDSYN(c)
           \/ c.state = "SYN_RECEIVED" /\ c.segs # <<>> /\ Head(c.segs).data # <<>>
          THEN [c |-> c, fin |-> FALSE]
        ELSE LET r == FoldLeft(take, [c |-> c, fin |-> FALSE, done |-> FALSE], c.segs)
             IN  [c |-> r.c, fin |-> r.fin]

\* The later segments that new overlaps lose what it provides, or go.
TrimLater(new, later) ==
    LET keep(r, q) ==
          LET i == Diff(End(new), q.seq) IN
          IF i <= 0 THEN Append(r, q)
          ELSE IF i < Len(q.data) THEN Append(r, TrimFront(q, i))
          ELSE r
    IN  FoldLeft(keep, <<>>, later)

\* An earlier segment may provide some of the data already, or all of it.
tcp_reass(c, s) ==
    LET before == Len(SelectSeq(c.segs, LAMBDA q : ~SEQ_GT(q.seq, s.seq)))
        i == IF before = 0 THEN 0 ELSE Max({0, Diff(End(c.segs[before]), s.seq)})
        new == TrimFront([seq |-> s.seq, data |-> s.data, fin |-> s.fin], i)
    IN  IF i > 0 /\ i >= Len(s.data) THEN [c |-> c, fin |-> FALSE]
        ELSE Present([c EXCEPT !.segs =
                 SubSeq(@, 1, before) \o <<new>> \o TrimLater(new, sbdrop(@, before))])

\* Mutant: any segment is taken for the next one.
TCP_REASS_AnySeq(c, s) ==
    IF c.segs = <<>> /\ c.state = "ESTABLISHED"
      THEN [c |-> [c EXCEPT !.delack = TRUE, !.rcvnxt = End(s), !.rcv = @ \o s.data],
            fin |-> s.fin]
      ELSE LET r == tcp_reass(c, s) IN [r EXCEPT !.c.acknow = TRUE]

TCP_REASS(c, s) ==
    IF s.seq = c.rcvnxt /\ c.segs = <<>> /\ c.state = "ESTABLISHED"
      THEN [c |-> [c EXCEPT !.delack = TRUE, !.rcvnxt = End(s), !.rcv = @ \o s.data],
            fin |-> s.fin]
      ELSE LET r == tcp_reass(c, s) IN [r EXCEPT !.c.acknow = TRUE]

-----------------------------------------------------------------------------
(* Header prediction.                                                      *)

Predictable(c, s) ==
    /\ c.state = "ESTABLISHED"
    /\ s.ack /\ ~s.syn /\ ~s.fin /\ ~s.rst
    /\ s.seq = c.rcvnxt
    /\ s.win # 0 /\ s.win = c.wnd
    /\ c.nxt = c.max

PureAck(c, s) ==
    /\ s.data = <<>>
    /\ SEQ_GT(s.ackno, c.una) /\ SEQ_LEQ(s.ackno, c.max)
    /\ c.cwnd >= c.wnd

PureData(c, s) ==
    /\ s.data # <<>> /\ s.ackno = c.una
    /\ c.segs = <<>> /\ Len(s.data) <= sbspace(c)

Predicted(c, s) == Predictable(c, s) /\ (PureAck(c, s) \/ PureData(c, s))

HeaderPrediction(c, s) ==
    IF PureAck(c, s)
      THEN LET acked == Diff(s.ackno, c.una)
               d == [RestartRexmt(tcp_xmit_timer(c, s.ackno), s.ackno)
                       EXCEPT !.snd = sbdrop(@, acked), !.una = s.ackno]
           IN  IF d.snd # <<>> THEN tcp_output(d) ELSE d
      ELSE [c EXCEPT !.rcvnxt = End(s), !.rcv = @ \o s.data,
               !.acknow = @ \/ s.push, !.delack = @ \/ ~s.push]

-----------------------------------------------------------------------------
(* LISTEN and SYN_SENT.                                                    *)

\* trimthenstep6.  A SYN has no text: nothing can be sent on a socket before it
\* is connected.
TrimThenStep6(x, c, s) ==
    [On(x, [c EXCEPT !.wl1 = s.seq], [s EXCEPT !.seq = Add(@, 1)]) EXCEPT !.go = "step6"]

\* The socket of sonewconn() for a SYN.
AcceptSyn(s, iss) ==
    LET n == Add(s.seq, 1) IN
    [tcp_newtcpcb EXCEPT !.state = "SYN_RECEIVED", !.queued = TRUE, !.nofd = TRUE, !.acknow = TRUE,
        !.iss = iss, !.una = iss, !.nxt = iss, !.max = iss, !.rcvnxt = n, !.adv = n]

InListen(x, iss) ==
    IF x.s.syn /\ ~x.s.ack /\ ~x.s.rst
      THEN TrimThenStep6(x, AcceptSyn(x.s, iss), x.s)
      ELSE Go(x, IF x.s.ack THEN "dropwithreset" ELSE "drop")

InSynSent(x) ==
    LET c == x.c  s == x.s
        n == Add(s.seq, 1)
        heard == [c EXCEPT !.rcvnxt = n, !.adv = n, !.acknow = TRUE]
        acked == [heard EXCEPT !.una = s.ackno, !.rexmt = FALSE,
                     !.nxt = IF SEQ_LT(@, s.ackno) THEN s.ackno ELSE @]
        up == Present([soisconnected(acked) EXCEPT !.state = "ESTABLISHED"]).c
    IN  IF s.ack /\ (SEQ_LEQ(s.ackno, c.iss) \/ SEQ_GT(s.ackno, c.max))
          THEN Go(x, "dropwithreset")
        ELSE IF s.rst THEN Drop(x, IF s.ack THEN tcp_drop(c, "refused") ELSE c)
        ELSE IF ~s.syn THEN Go(x, "drop")
        ELSE TrimThenStep6(x, IF s.ack THEN [up EXCEPT !.rtt = NotTimed,
                                                !.shift = IF c.rtt # NotTimed THEN 0 ELSE @]
                              ELSE [heard EXCEPT !.state = "SYN_RECEIVED"], s)

-----------------------------------------------------------------------------
(* The other states: trim the segment to the window.                       *)

rcv_wnd(c) == Max({0, sbspace(c), Diff(c.adv, c.rcvnxt)})

\* Drop what begins before rcv_nxt.
TrimLeft(x) ==
    LET c == x.c
        old == Diff(c.rcvnxt, x.s.seq) > 0
        s == IF x.s.syn THEN [x.s EXCEPT !.syn = FALSE, !.seq = Add(@, 1)] ELSE x.s
        todrop == Diff(c.rcvnxt, s.seq)
        len == Len(s.data)
        all == todrop > len \/ (todrop = len /\ ~s.fin)
    IN  IF ~old THEN x
        ELSE IF all THEN On(x, [c EXCEPT !.acknow = TRUE],
                            TrimFront([s EXCEPT !.fin = FALSE], len))
        ELSE On(x, c, TrimFront(s, todrop))

\* New data after the user processes are gone.
Orphaned(x) ==
    IF x.c.nofd /\ Rank(x.c.state) > Rank("CLOSE_WAIT") /\ x.s.data # <<>>
      THEN [x EXCEPT !.c = tcp_close(@), !.go = "dropwithreset"]
      ELSE x

\* Drop what ends after the window.
TrimRight(x) ==
    LET c == x.c  s == x.s
        len == Len(s.data)
        todrop == Diff(End(s), Add(c.rcvnxt, rcv_wnd(c)))
        rest == [s EXCEPT !.data = SubSeq(@, 1, len - todrop), !.fin = FALSE]
    IN  IF x.go # "on" \/ todrop <= 0 THEN x
        ELSE IF todrop < len THEN On(x, c, rest)
        ELSE IF s.syn /\ c.state = "TIME_WAIT" /\ SEQ_GT(s.seq, c.rcvnxt)
          THEN Go(x, "findpcb")
        ELSE IF rcv_wnd(c) = 0 /\ s.seq = c.rcvnxt
          THEN On(x, [c EXCEPT !.acknow = TRUE], [rest EXCEPT !.data = <<>>])
        ELSE Go(x, "dropafterack")

\* RST, SYN in the window, no ACK.
CheckFlags(x) ==
    LET c == x.c  s == x.s IN
    IF x.go # "on" THEN x
    ELSE IF s.rst
      THEN Drop(x, tcp_close(IF c.state = "SYN_RECEIVED" THEN [c EXCEPT !.error = "refused"]
                             ELSE IF c.state \in {"ESTABLISHED", "FIN_WAIT_1", "FIN_WAIT_2",
                                                  "CLOSE_WAIT"}
                               THEN [c EXCEPT !.error = "reset"] ELSE c))
    ELSE IF s.syn THEN [x EXCEPT !.c = tcp_drop(c, "reset"), !.go = "dropwithreset"]
    ELSE IF ~s.ack THEN Go(x, "drop")
    ELSE x

-----------------------------------------------------------------------------
(* ACK processing.                                                         *)

\* An ACK of our SYN.
AckSyn(x) ==
    LET c == x.c  s == x.s IN
    IF x.go # "on" \/ c.state # "SYN_RECEIVED" THEN x
    ELSE IF SEQ_GT(c.una, s.ackno) \/ SEQ_GT(s.ackno, c.max) THEN Go(x, "dropwithreset")
    ELSE [x EXCEPT !.c = [Present([soisconnected(c) EXCEPT !.state = "ESTABLISHED"]).c
                            EXCEPT !.wl1 = Add(s.seq, -1)]]

\* The congestion thresholds after a loss.
HalfWindow(c) == MaxSeg * Max({2, (Min({c.wnd, c.cwnd}) \div 2) \div MaxSeg})

\* An ACK that does not advance: fast retransmit at the threshold.
DuplicateAck(x) ==
    LET c == x.c  s == x.s
        d == [c EXCEPT !.dupacks = @ + 1]
        fast == tcp_output([d EXCEPT !.ssthresh = HalfWindow(c), !.rexmt = FALSE,
                    !.rtt = NotTimed, !.nxt = s.ackno, !.cwnd = MaxSeg])
    IN  IF s.data # <<>> \/ s.win # c.wnd \/ ~c.rexmt \/ s.ackno # c.una
          THEN On(x, [c EXCEPT !.dupacks = 0], s)
        ELSE IF d.dupacks = RexmtThresh
          THEN Drop(x, [fast EXCEPT
                  !.cwnd = HalfWindow(c) + MaxSeg * d.dupacks,
                  !.nxt = IF SEQ_GT(c.nxt, @) THEN c.nxt ELSE @])
        ELSE IF d.dupacks > RexmtThresh
          THEN Drop(x, tcp_output([d EXCEPT !.cwnd = @ + MaxSeg]))
        ELSE On(x, d, s)

\* tcp_canceltimers(), and the 2MSL timer.
EnterTimeWait(c) ==
    [soisdisconnected(c) EXCEPT !.state = "TIME_WAIT", !.rexmt = FALSE,
        !.persist = FALSE, !.msl = TRUE]

\* Our FIN is acknowledged.
FinAcked(x) ==
    LET c == x.c IN
    CASE c.state = "FIN_WAIT_1" ->
           On(x, [IF c.cantrcv THEN [soisdisconnected(c) EXCEPT !.msl = TRUE] ELSE c
                  EXCEPT !.state = "FIN_WAIT_2"], x.s)
      [] c.state = "CLOSING" -> On(x, EnterTimeWait(c), x.s)
      [] c.state = "LAST_ACK" -> Drop(x, tcp_close(c))
      [] OTHER -> x

\* Mutant: an ACK of all the data counts as one of the FIN.
OurFinIsAcked_Data(acked, cc) == acked >= cc

\* ourfinisacked
OurFinIsAcked(acked, cc) == acked > cc

\* New data is acknowledged.
NewAck(x) ==
    LET c == x.c  s == x.s
        cc == Len(c.snd)
        acked == Diff(s.ackno, c.una)
        cwnd == IF c.dupacks > RexmtThresh THEN Min({c.cwnd, c.ssthresh}) ELSE c.cwnd
        incr == IF cwnd > c.ssthresh THEN (MaxSeg * MaxSeg) \div cwnd ELSE MaxSeg
        d == [RestartRexmt(tcp_xmit_timer(c, s.ackno), s.ackno) EXCEPT
                !.dupacks = 0, !.cwnd = Min({cwnd + incr, MaxWin}),
                !.snd = sbdrop(@, Min({acked, cc})), !.wnd = @ - Min({acked, cc}),
                !.una = s.ackno, !.nxt = IF SEQ_LT(@, s.ackno) THEN s.ackno ELSE @]
        y == [On(x, d, s) EXCEPT !.needoutput = (s.ackno = c.max)]
        z == IF OurFinIsAcked(acked, cc) THEN FinAcked(y) ELSE y
    IN  IF SEQ_GT(s.ackno, c.max)
          THEN [x EXCEPT !.c.dupacks = 0, !.c.cwnd = cwnd, !.go = "dropafterack"]
        ELSE IF c.state = "TIME_WAIT" THEN Go([y EXCEPT !.c.msl = TRUE], "dropafterack")
        ELSE z

Ack(x) ==
    IF x.go # "on" THEN x
    ELSE IF SEQ_LEQ(x.s.ackno, x.c.una) THEN DuplicateAck(x) ELSE NewAck(x)

-----------------------------------------------------------------------------
(* step6: the window, the text and the FIN.                                *)

UpdateWindow(x) ==
    LET c == x.c  s == x.s IN
    IF s.ack /\ (\/ SEQ_LT(c.wl1, s.seq)
                 \/ c.wl1 = s.seq /\ (\/ SEQ_LT(c.wl2, s.ackno)
                                      \/ c.wl2 = s.ackno /\ s.win > c.wnd))
      THEN [x EXCEPT !.c.wnd = s.win, !.c.wl1 = s.seq, !.c.wl2 = s.ackno,
                     !.c.maxwnd = Max({@, s.win}), !.needoutput = TRUE]
      ELSE x

ReceiveFin(c) ==
    LET d == IF TCPS_HAVERCVDFIN(c) THEN c
             ELSE [c EXCEPT !.cantrcv = TRUE, !.acknow = TRUE, !.rcvnxt = Add(@, 1)]
    IN  CASE c.state \in {"SYN_RECEIVED", "ESTABLISHED"} -> [d EXCEPT !.state = "CLOSE_WAIT"]
          [] c.state = "FIN_WAIT_1" -> [d EXCEPT !.state = "CLOSING"]
          [] c.state = "FIN_WAIT_2" -> EnterTimeWait(d)
          [] c.state = "TIME_WAIT" -> [d EXCEPT !.msl = TRUE]
          [] OTHER -> d

Text(x) ==
    LET s == x.s
        r == IF (s.data # <<>> \/ s.fin) /\ ~TCPS_HAVERCVDFIN(x.c)
               THEN TCP_REASS(x.c, s) ELSE [c |-> x.c, fin |-> FALSE]
        c == IF r.fin THEN ReceiveFin(r.c) ELSE r.c
    IN  IF x.needoutput \/ c.acknow THEN tcp_output(c) ELSE c

\* tcp_respond() with a RST.
Reset(s) ==
    [syn |-> FALSE, ack |-> ~s.ack, fin |-> FALSE, rst |-> TRUE, push |-> FALSE,
     win |-> 0, data |-> <<>>,
     seq |-> IF s.ack THEN s.ackno ELSE 0,
     ackno |-> IF s.ack THEN 0 ELSE Add(End(s), IF s.syn THEN 1 ELSE 0)]

Finish(x) ==
    CASE x.go \in {"on", "step6"} -> Text(UpdateWindow(x))
      [] x.go = "dropafterack" ->
           IF x.s.rst THEN x.c ELSE tcp_output([x.c EXCEPT !.acknow = TRUE])
      [] x.go = "dropwithreset" ->
           IF x.s.rst THEN x.c ELSE [x.c EXCEPT !.out = Append(@, Reset(x.s))]
      [] OTHER -> x.c

\* A segment for a socket that listens, or for no socket.
NewSegment(c, s, listens, iss) ==
    LET x == [c |-> c, s |-> s, go |-> "on", needoutput |-> FALSE]
    IN  Finish(IF listens THEN InListen(x, iss) ELSE Go(x, "dropwithreset"))

\* tcp_input().  listens: another socket accepts connections for this port; iss
\* is tcp_iss, and issincr what a SYN in TIME_WAIT adds.
tcp_input(c, s, listens, iss, issincr) ==
    LET x == [c |-> c, s |-> s, go |-> "on", needoutput |-> FALSE]
        y == IF c.state = "SYN_SENT" THEN InSynSent(x)
             ELSE Ack(AckSyn(CheckFlags(TrimRight(Orphaned(TrimLeft(x))))))
    IN  IF ~c.pcb THEN NewSegment(c, s, listens, iss)
        ELSE IF c.state = "CLOSED" THEN c
        ELSE IF Predicted(c, s) THEN HeaderPrediction(c, s)
        ELSE IF y.go = "findpcb"
          THEN NewSegment(tcp_close(c), y.s, listens, Add(c.nxt, issincr))
        ELSE Finish(y)
=============================================================================
