------------------------------ MODULE TcpPair ------------------------------
(***************************************************************************)
(* Two ends of a TCP connection over a network that loses, duplicates and  *)
(* reorders segments.  Each end runs tcp_input() for what arrives, its     *)
(* timers (tcp_fasttimo(), tcp_slowtimo()) and the calls of its user       *)
(* (tcp_usrreq(), soclose(), soaccept()).  All of them run at splnet.      *)
(*                                                                         *)
(* The i-th byte that a user writes is the number i.                       *)
(***************************************************************************)
EXTENDS TcpInput

CONSTANTS
    Ends,
    ISS,        \* tcp_iss of each end
    Plans       \* what the users and the network do: [passive, impatient, data, quiet, faults]

\* passive: the ends whose user listens, the others connect; impatient: a user may
\* shut down before the connection is up; data: how many bytes each user writes;
\* quiet: the users wait while more segments than this are under way; faults:
\* losses, duplicates and timers that fire too early.
ASSUME PairAssumption ==
    /\ Cardinality(Ends) = 2
    /\ ISS \in [Ends -> 0 .. SeqSpace - 1]
    /\ \A p \in Plans :
         /\ p.passive \subseteq Ends /\ p.impatient \in BOOLEAN
         /\ p.data \in [Ends -> Nat] /\ {p.quiet, p.faults} \subseteq Nat

VARIABLES
    plan,
    conn,       \* the control block and socket of the connection at each end
    listening,  \* a listening socket exists at this end
    net,        \* the segments under way: [to, seg]
    wrote,      \* how many bytes the user of each end has written
    got,        \* the bytes that the user of each end has read
    faults

vars == <<plan, conn, listening, net, wrote, got, faults>>

Other(e) == CHOOSE o \in Ends : o # e

Init ==
    /\ plan \in Plans
    /\ conn = [e \in Ends |-> tcp_newtcpcb]
    /\ listening = [e \in Ends |-> FALSE]
    /\ net = {}
    /\ wrote = [e \in Ends |-> 0]
    /\ got = [e \in Ends |-> <<>>]
    /\ faults = 0

\* The result c of a handler at e: what it sends goes to the network.
Handled(e, c, rest) ==
    /\ conn' = [conn EXCEPT ![e] = [c EXCEPT !.out = <<>>]]
    /\ net' = rest \cup {[to |-> Other(e), seg |-> c.out[i]] : i \in DOMAIN c.out}

Call(e, c) == Cardinality(net) <= plan.quiet /\ Handled(e, c, net)

-----------------------------------------------------------------------------
(* The user.                                                               *)

\* PRU_LISTEN.  The connections are new sockets; there is none yet.
Listen(e) ==
    /\ e \in plan.passive
    /\ conn[e].pcb /\ conn[e].state = "CLOSED" /\ ~listening[e]
    /\ listening' = [listening EXCEPT ![e] = TRUE]
    /\ Call(e, [tcp_newtcpcb EXCEPT !.pcb = FALSE, !.nofd = TRUE])
    /\ UNCHANGED <<wrote, got, faults>>

\* PRU_CONNECT
Connect(e) ==
    /\ e \notin plan.passive
    /\ conn[e].pcb /\ conn[e].state = "CLOSED" /\ ~conn[e].nofd
    /\ LET i == ISS[e] IN
       Call(e, tcp_output([conn[e] EXCEPT !.state = "SYN_SENT", !.iss = i, !.una = i,
                              !.nxt = i, !.max = i]))
    /\ UNCHANGED <<listening, wrote, got, faults>>

\* soaccept(): the socket leaves so_q.
Accept(e) ==
    /\ listening[e] /\ conn[e].queued /\ conn[e].connected
    /\ Call(e, [conn[e] EXCEPT !.queued = FALSE, !.nofd = FALSE])
    /\ UNCHANGED <<listening, wrote, got, faults>>

\* sosend() and PRU_SEND
Send(e) ==
    LET c == conn[e] IN
    /\ c.connected /\ ~c.cantsend /\ ~c.nofd /\ c.error = "none" /\ c.pcb
    /\ \E n \in 1 .. Min({SndHiwat - Len(c.snd), plan.data[e] - wrote[e]}) :
         /\ wrote' = [wrote EXCEPT ![e] = @ + n]
         /\ Call(e, tcp_output([c EXCEPT !.snd = @ \o [i \in 1..n |-> wrote[e] + i]]))
    /\ UNCHANGED <<listening, got, faults>>

\* soreceive() and PRU_RCVD
Receive(e) ==
    LET c == conn[e] IN
    /\ ~c.nofd
    /\ \E n \in 1 .. Len(c.rcv) :
         LET d == [c EXCEPT !.rcv = sbdrop(@, n)] IN
         /\ got' = [got EXCEPT ![e] = @ \o SubSeq(c.rcv, 1, n)]
         /\ Call(e, IF c.pcb THEN tcp_output(d) ELSE d)
    /\ UNCHANGED <<listening, wrote, faults>>

tcp_usrclosed(c) ==
    LET d == CASE c.state \in {"CLOSED", "LISTEN", "SYN_SENT"} -> tcp_close(c)
               [] c.state \in {"SYN_RECEIVED", "ESTABLISHED"} ->
                    [c EXCEPT !.state = "FIN_WAIT_1"]
               [] c.state = "CLOSE_WAIT" -> [c EXCEPT !.state = "LAST_ACK"]
               [] OTHER -> c
    IN  IF d.state \in {"FIN_WAIT_2", "TIME_WAIT"} THEN soisdisconnected(d) ELSE d

OutputUnlessClosed(c) == IF c.pcb THEN tcp_output(c) ELSE c

\* PRU_SHUTDOWN
Shutdown(e) ==
    LET c == conn[e] IN
    /\ c.pcb /\ ~c.nofd /\ ~c.cantsend
    /\ c.state # "CLOSED" /\ (plan.impatient \/ ~Below(c, "ESTABLISHED"))
    /\ Call(e, OutputUnlessClosed(tcp_usrclosed([c EXCEPT !.cantsend = TRUE])))
    /\ UNCHANGED <<listening, wrote, got, faults>>

\* soisdisconnecting(), sbflush() and tcp_usrclosed().
tcp_disconnect(c) ==
    IF Below(c, "ESTABLISHED") THEN tcp_close(c)
    ELSE OutputUnlessClosed(tcp_usrclosed(
             [c EXCEPT !.cantsend = TRUE, !.cantrcv = TRUE, !.rcv = <<>>]))

\* soclose(): PRU_DISCONNECT when connected, and then PRU_DETACH.
Close(e) ==
    LET c == conn[e]
        d == IF c.pcb /\ c.connected THEN tcp_disconnect(c) ELSE c
        f == IF d.pcb THEN tcp_disconnect(d) ELSE d
    IN  /\ ~c.nofd
        /\ Call(e, [f EXCEPT !.nofd = TRUE, !.rcv = IF f.pcb THEN @ ELSE <<>>])
        /\ UNCHANGED <<listening, wrote, got, faults>>

\* soclose() of a listening socket aborts what has not been accepted.
CloseListener(e) ==
    /\ listening[e]
    /\ listening' = [listening EXCEPT ![e] = FALSE]
    /\ Call(e, IF conn[e].queued THEN tcp_drop(conn[e], "aborted") ELSE conn[e])
    /\ UNCHANGED <<wrote, got, faults>>

-----------------------------------------------------------------------------
(* The network.                                                            *)

\* A duplicate may stay behind.
Deliver(e, s, stays) ==
    /\ [to |-> e, seg |-> s] \in net
    /\ stays => faults < plan.faults
    /\ faults' = faults + (IF stays THEN 1 ELSE 0)
    /\ Handled(e, tcp_input(conn[e], s, listening[e], ISS[e], 2),
               IF stays THEN net ELSE net \ {[to |-> e, seg |-> s]})
    /\ UNCHANGED <<listening, wrote, got>>

Lose ==
    /\ faults < plan.faults
    /\ faults' = faults + 1
    /\ \E p \in net : net' = net \ {p}
    /\ UNCHANGED <<conn, listening, wrote, got>>

-----------------------------------------------------------------------------
(* The timers.  They are slower than the network, except for a fault.      *)

Timer(e, c) ==
    /\ IF net = {} THEN UNCHANGED faults
       ELSE faults < plan.faults /\ faults' = faults + 1
    /\ Handled(e, c, net)
    /\ UNCHANGED <<listening, wrote, got>>

\* tcp_fasttimo()
FastTimo(e) ==
    /\ conn[e].delack
    /\ Timer(e, tcp_output([conn[e] EXCEPT !.delack = FALSE, !.acknow = TRUE]))

\* TCPT_REXMT
Rexmt(e) ==
    LET c == conn[e] IN
    /\ c.rexmt
    /\ Timer(e, IF c.shift = MaxRxtShift THEN tcp_drop(c, "timedout")
                ELSE tcp_output([c EXCEPT !.shift = @ + 1, !.nxt = c.una, !.rtt = NotTimed,
                        !.ssthresh = HalfWindow(c), !.cwnd = MaxSeg, !.dupacks = 0]))

\* TCPT_PERSIST; after a full backoff without an answer the connection is dropped.
Persist(e) ==
    LET c == conn[e] IN
    /\ c.persist
    /\ \/ Timer(e, TcpOutput(tcp_setpersist(c), TRUE))
       \/ c.shift = MaxRxtShift /\ Timer(e, tcp_drop(c, "timedout"))

\* TCPT_2MSL; the connection has been idle for long or it has not.
TwoMsl(e) ==
    LET c == conn[e] IN
    /\ c.msl
    /\ Timer(e, tcp_close(c))

\* TCPT_KEEP before the connection is established.
KeepInit(e) ==
    LET c == conn[e] IN
    /\ c.pcb /\ c.state \in {"SYN_SENT", "SYN_RECEIVED"}
    /\ faults < plan.faults
    /\ Timer(e, tcp_drop(c, "timedout"))

Next ==
    /\ UNCHANGED plan
    /\ \/ \E e \in Ends :
            \/ Listen(e) \/ Connect(e) \/ Accept(e) \/ Send(e) \/ Receive(e)
            \/ Shutdown(e) \/ Close(e) \/ CloseListener(e)
            \/ FastTimo(e) \/ Rexmt(e) \/ Persist(e) \/ TwoMsl(e) \/ KeepInit(e)
       \/ \E p \in net, stays \in BOOLEAN : Deliver(p.to, p.seg, stays)
       \/ Lose

Spec == Init /\ [][Next]_vars

-----------------------------------------------------------------------------
Upto(n) == [i \in 1..n |-> i]

Received(e) == got[e] \o conn[e].rcv

(***************************************************************************)
(* The bytes that a user reads are those that the other one has written,   *)
(* in the same order and each of them once, whatever the network does to   *)
(* the segments (tcp_reass() and the trimming in tcp_input()).             *)
(***************************************************************************)
InOrder ==
    \A e \in Ends :
        /\ Received(e) = Upto(Len(Received(e)))
        /\ Len(Received(e)) <= wrote[Other(e)]

(***************************************************************************)
(* A byte leaves the send buffer (sbdrop() for an ACK) only when the other *)
(* end has it; and a FIN counts as acknowledged only when the other end    *)
(* has seen it.                                                            *)
(***************************************************************************)
AckedMeansReceived ==
    \A e \in Ends : LET c == conn[e]  o == Other(e) IN
        c.pcb /\ ~conn[o].nofd =>
            /\ wrote[e] - Len(c.snd) <= Len(Received(o))
            /\ c.state = "FIN_WAIT_2" => conn[o].cantrcv

(***************************************************************************)
(* A user that reads the end of the file, and no error, has been given     *)
(* every byte that the other one wrote.                                    *)
(***************************************************************************)
EofMeansAll ==
    \A e \in Ends : LET c == conn[e] IN
        c.cantrcv /\ ~c.nofd /\ c.error = "none" => Len(Received(e)) = wrote[Other(e)]

(***************************************************************************)
(* What has been sent and is not acknowledged is sent again: the           *)
(* retransmit or the persist timer runs (tcp_output(), tcp_input()).       *)
(***************************************************************************)
OutstandingTimed ==
    \A e \in Ends : LET c == conn[e] IN
        c.pcb /\ c.una # c.max => c.rexmt \/ c.persist

Timed(e) == conn[e].rexmt \/ conn[e].persist \/ conn[e].delack

(***************************************************************************)
(* "A polling protocol using persist packets is used to insure receipt of  *)
(* window updates" (tcp_output()): two ends are never left without a       *)
(* segment under way and without a timer while one of them has data to     *)
(* send and the other one has read everything.                             *)
(***************************************************************************)
NotStalled ==
    \A e \in Ends :
        conn[e].snd # <<>> /\ conn[Other(e)].rcv = <<>> /\ (\A o \in Ends : conn[o].pcb) =>
            net # {} \/ \E o \in Ends : Timed(o)

(***************************************************************************)
(* The two timers never run together: tcp_setpersist() panics if it finds  *)
(* the retransmit timer running.                                           *)
(***************************************************************************)
TimersExclusive == \A e \in Ends : ~(conn[e].rexmt /\ conn[e].persist)

(***************************************************************************)
(* The send window, an unsigned number from which tcp_input() subtracts    *)
(* what an ACK acknowledges, never goes below zero, although a persist     *)
(* probe sends a byte beyond it.                                           *)
(***************************************************************************)
WindowNotNegative == \A e \in Ends : conn[e].wnd >= 0

(***************************************************************************)
(* The sender is never stuck nor confused by its own timers: the three     *)
(* facts above (tcp_output(), tcp_input(), tcp_timers()).                  *)
(***************************************************************************)
SenderSound == OutstandingTimed /\ TimersExclusive /\ WindowNotNegative
=============================================================================
