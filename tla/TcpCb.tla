------------------------------- MODULE TcpCb -------------------------------
(***************************************************************************)
(* A TCP control block and its socket, and what tcp_output(),              *)
(* tcp_input(), tcp_timers() and tcp_usrreq() do to them                   *)
(* (netinet/tcp_output.c, tcp_input.c, tcp_timer.c, tcp_usrreq.c,          *)
(* tcp_subr.c, uipc_sock.c).  Each operator maps the record to the record  *)
(* after the call; the segments that it sends are appended to out.         *)
(*                                                                         *)
(* Sequence numbers wrap at SeqSpace.  Timers are running or not; the      *)
(* round-trip estimate, the slow start after an idle time, timestamps,     *)
(* window scaling, options, urgent data, keepalives and the lookup of      *)
(* control blocks are left out, and a local failure of ip_output() counts  *)
(* as a lost segment.                                                      *)
(***************************************************************************)
EXTENDS Integers, Sequences, SequencesExt, FiniteSetsExt

CONSTANTS
    SeqSpace,        \* 2^32
    MaxSeg,        \* t_maxseg
    SndHiwat, RcvHiwat,
    MaxWin,        \* TCP_MAXWIN
    MaxRxtShift,   \* TCP_MAXRXTSHIFT
    RexmtThresh    \* tcprexmtthresh

ASSUME TcpAssumption ==
    /\ {MaxSeg, SndHiwat, RcvHiwat, MaxWin, MaxRxtShift, RexmtThresh} \subseteq Nat \ {0}
    /\ SeqSpace \in Nat /\ SeqSpace % 2 = 0 /\ SeqSpace > 4 * MaxWin

-----------------------------------------------------------------------------
(* Sequence numbers and states.                                            *)

Add(a, n) == (a + n) % SeqSpace

\* (int)(a - b)
Diff(a, b) ==
    LET d == (a - b) % SeqSpace IN IF d < SeqSpace \div 2 THEN d ELSE d - SeqSpace

SEQ_LT(a, b) == Diff(a, b) < 0
SEQ_LEQ(a, b) == Diff(a, b) <= 0
SEQ_GT(a, b) == Diff(a, b) > 0

States ==
    <<"CLOSED", "LISTEN", "SYN_SENT", "SYN_RECEIVED", "ESTABLISHED", "CLOSE_WAIT",
      "FIN_WAIT_1", "CLOSING", "LAST_ACK", "FIN_WAIT_2", "TIME_WAIT">>

\* The states are compared as numbers.
Rank(state) == CHOOSE i \in DOMAIN States : States[i] = state
Below(c, state) == Rank(c.state) < Rank(state)

TCPS_HAVERCVDSYN(c) == ~Below(c, "SYN_RECEIVED")
TCPS_HAVERCVDFIN(c) == c.state = "TIME_WAIT"

\* tcp_outflags
Syn(state) == state \in {"SYN_SENT", "SYN_RECEIVED"}
Fin(state) == state \in {"FIN_WAIT_1", "CLOSING", "LAST_ACK"}

\* rtt is t_rtseq while a segment is timed.  pcb is FALSE once tcp_close() has
\* freed the control block.  queued: on so_q0 or so_q; nofd: SS_NOFDREF.
NotTimed == -1

tcp_newtcpcb ==
    [pcb |-> TRUE, state |-> "CLOSED", iss |-> 0, una |-> 0, nxt |-> 0, max |-> 0,
     wnd |-> 0, maxwnd |-> 0, wl1 |-> 0, wl2 |-> 0,
     cwnd |-> MaxWin, ssthresh |-> MaxWin, dupacks |-> 0,
     rcvnxt |-> 0, adv |-> 0, segs |-> <<>>,
     acknow |-> FALSE, delack |-> FALSE, sentfin |-> FALSE,
     rexmt |-> FALSE, persist |-> FALSE, msl |-> FALSE, shift |-> 0, rtt |-> NotTimed,
     snd |-> <<>>, rcv |-> <<>>, connected |-> FALSE, cantsend |-> FALSE,
     cantrcv |-> FALSE, queued |-> FALSE, nofd |-> FALSE, error |-> "none", out |-> <<>>]

\* What the user still sees of a socket without a control block.
tcp_close(c) ==
    [tcp_newtcpcb EXCEPT !.pcb = FALSE, !.rcv = IF c.nofd THEN <<>> ELSE c.rcv, !.cantsend = TRUE,
        !.cantrcv = TRUE, !.nofd = c.nofd, !.error = c.error, !.out = c.out]

soisdisconnected(c) ==
    [c EXCEPT !.connected = FALSE, !.cantsend = TRUE, !.cantrcv = TRUE]

sbspace(c) == RcvHiwat - Len(c.rcv)

-----------------------------------------------------------------------------
(* tcp_output().                                                           *)

tcp_setpersist(c) ==
    [c EXCEPT !.persist = TRUE, !.shift = Min({@ + 1, MaxRxtShift})]

\* The window of a segment: avoid silly windows, but do not shrink it.
AdvertisedWindow(c) ==
    LET space == sbspace(c)
        w == IF space < RcvHiwat \div 4 /\ space < MaxSeg THEN 0 ELSE Min({space, MaxWin})
    IN  Max({w, Diff(c.adv, c.rcvnxt)})

\* A window update is worth a segment.
WindowUpdate(c) ==
    LET adv == Min({sbspace(c), MaxWin}) - Diff(c.adv, c.rcvnxt)
    IN  sbspace(c) > 0 /\ (adv >= 2 * MaxSeg \/ 2 * adv >= RcvHiwat)

\* Set the retransmit timer if it is not set, and not doing an ack.
ArmRexmt(c) ==
    IF c.rexmt \/ c.nxt = c.una THEN c
    ELSE [c EXCEPT !.rexmt = TRUE, !.persist = FALSE, !.shift = IF c.persist THEN 0 ELSE @]

\* send: the segment, and the bookkeeping for it.
SendSegment(c, force, off, len, fin) ==
    LET syn == Syn(c.state)
        n1 == IF syn THEN c.iss ELSE c.nxt
        nxt == IF fin /\ c.sentfin /\ n1 = c.max THEN Add(n1, -1) ELSE n1
        win == AdvertisedWindow(c)
        s == [syn |-> syn, ack |-> c.state # "SYN_SENT", fin |-> fin,
              rst |-> c.state = "CLOSED",
              push |-> len > 0 /\ off + len = Len(c.snd),
              seq |-> IF len > 0 \/ syn \/ fin \/ c.persist THEN nxt ELSE c.max,
              ackno |-> c.rcvnxt, win |-> win,
              data |-> SubSeq(c.snd, off + 1, off + len)]
        end == Add(nxt, len + (IF syn THEN 1 ELSE 0) + (IF fin THEN 1 ELSE 0))
        sent == IF force /\ c.persist
                  THEN [c EXCEPT !.nxt = nxt,
                           !.max = IF SEQ_GT(Add(nxt, len), @) THEN Add(nxt, len) ELSE @]
                  ELSE ArmRexmt([c EXCEPT !.nxt = end, !.sentfin = @ \/ fin,
                           !.max = IF SEQ_GT(end, @) THEN end ELSE @,
                           !.rtt = IF SEQ_GT(end, c.max) /\ @ = NotTimed THEN nxt ELSE @])
    IN  [sent EXCEPT !.out = Append(@, s),
            !.adv = IF win > 0 /\ SEQ_GT(Add(c.rcvnxt, win), @) THEN Add(c.rcvnxt, win) ELSE @,
            !.acknow = FALSE, !.delack = FALSE]

\* Mutant: the FIN goes although there is more data.
SendsFin_Early(c, probe, off, len) == Fin(c.state) /\ ~(probe /\ off < Len(c.snd))

\* The FIN goes with the last byte, and not with a probe that leaves a byte behind.
SendsFin(c, probe, off, len) ==
    /\ Fin(c.state)
    /\ ~(probe /\ off < Len(c.snd))
    /\ ~SEQ_LT(Add(c.nxt, len), Add(c.una, Len(c.snd)))

\* One round of tcp_output(); again is sendalot.
OutputRound(c0, force, idle) ==
    LET cc == Len(c0.snd)
        off == Diff(c0.nxt, c0.una)
        swin == Min({c0.wnd, c0.cwnd})
        probe == force /\ swin = 0
        win == IF probe THEN 1 ELSE swin
        c1 == IF force /\ ~probe THEN [c0 EXCEPT !.persist = FALSE, !.shift = 0] ELSE c0
        room == Min({cc, win}) - off
        c == IF room < 0 /\ win = 0 THEN [c1 EXCEPT !.rexmt = FALSE, !.nxt = c1.una] ELSE c1
        len == Max({0, Min({room, MaxSeg})})
        fin == SendsFin(c, probe, off, len)
        worth == \/ len = MaxSeg
                 \/ idle /\ len + off >= cc
                 \/ force
                 \/ len >= c.maxwnd \div 2
                 \/ SEQ_LT(c.nxt, c.max)
    IN  IF \/ len > 0 /\ worth
           \/ WindowUpdate(c) \/ c.acknow
           \/ Syn(c.state) \/ c.state = "CLOSED"
           \/ fin /\ (~c.sentfin \/ c.nxt = c.una)
          THEN [c |-> SendSegment(c, force, off, len, fin), again |-> room > MaxSeg]
        ELSE [c |-> IF cc > 0 /\ ~c.rexmt /\ ~c.persist
                      THEN tcp_setpersist([c EXCEPT !.shift = 0]) ELSE c,
              again |-> FALSE]

\* force is t_force.
TcpOutput(c, force) ==
    LET idle == c.max = c.una
        round(r, i) == IF r.again THEN OutputRound(r.c, force, idle) ELSE r
    IN  FoldLeft(round, [c |-> c, again |-> TRUE], [i \in 1 .. SndHiwat + 1 |-> i]).c

tcp_output(c) == TcpOutput(c, FALSE)

\* If the connection is synchronized, then send a RST to the peer.
tcp_drop(c, error) ==
    tcp_close([IF TCPS_HAVERCVDSYN(c) THEN tcp_output([c EXCEPT !.state = "CLOSED"]) ELSE c
               EXCEPT !.error = error])
=============================================================================
