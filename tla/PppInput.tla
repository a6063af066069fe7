------------------------------ MODULE PppInput ------------------------------
(***************************************************************************)
(* The receive path of a PPP unit (ppp/if_ppp.c, ppp/pppLib.c).  Four      *)
(* activities share it without a lock:                                     *)
(*   - the tty interrupt: pppintr() sees a character, then the tty driver  *)
(*     puts it into its ring buffer;                                       *)
(*   - the network task: ppp_tty_read() jobs that pppintr() has queued     *)
(*     read the ring and take the frames apart (pppinput(), ppppktin());   *)
(*   - the daemon: its SIGIO handler io() reads the queue sc_inq;          *)
(*   - the daemon's LCP, whose state both of the others look at.           *)
(*                                                                         *)
(* A character is [n, i, len, proto, k]: the i-th of the len characters of *)
(* frame n, k its value as far as the code looks at it.  The FCS finds out *)
(* whether the characters between two flags are exactly those of a frame.  *)
(* Escapes, header compression and the mbuf chains are left out.           *)
(***************************************************************************)
EXTENDS Integers, Sequences, SequencesExt, FiniteSetsExt

CONSTANTS
    Protos,       \* what the peer sends: "lcp", "ncp" (IPCP, CHAP, PAP), "ip",
                  \* and "client", the word CLIENT of a dial-up server's peer
    Letters,      \* the values of data characters, "T" among them or not
    MaxBody,      \* the longest frame, without its flag
    RingSize,     \* the tty's ring, FIORBUFSET
    BufSize,      \* PPPBUFSIZE
    InqMax,       \* ifq_maxlen of sc_inq
    FrameBound, JobBound

ASSUME InputAssumption ==
    /\ Protos \subseteq {"lcp", "ncp", "ip", "client"}
    /\ Letters \subseteq {"data", "T"}
    /\ {MaxBody, RingSize, BufSize, InqMax, JobBound} \subseteq Nat \ {0}
    /\ FrameBound \in Nat

VARIABLES
    line,      \* what is left of the frame that the peer is sending
    frames,    \* the number of frames the peer has begun
    ring,      \* the tty's ring buffer
    qlen,      \* sc_qlen
    discard,   \* 0, or SC_DISCARD_PKT is set; then the frame it was set for
    jobs,      \* the ppp_tty_read() jobs of the network task: their counts
    partial,   \* the characters of pppinput() since the last flag
    inq,       \* sc_inq
    sigio,     \* SIGIO is pending
    io,        \* io() is running
    lcpOpen,   \* lcp_fsm.state == OPENED
    clean      \* history: so far no character was lost, no read came before the
               \* flag, and no CLIENT was read that reset a count in progress

inputVars ==
    <<line, frames, ring, qlen, discard, jobs, partial, inq, sigio, io, lcpOpen, clean>>

InputInit ==
    /\ line = <<>> /\ frames = 0 /\ ring = <<>> /\ qlen = 0 /\ discard = 0
    /\ jobs = <<>> /\ partial = <<>> /\ inq = <<>>
    /\ sigio = FALSE /\ io = FALSE /\ lcpOpen = FALSE /\ clean = TRUE

-----------------------------------------------------------------------------
(* The line and the interrupt.                                             *)

\* The peer begins a frame; CLIENT is one character that ends in a T, and no
\* flag follows it.
Send ==
    /\ line = <<>> /\ frames < FrameBound
    /\ frames' = frames + 1
    /\ \E p \in Protos, len \in 1..MaxBody, k \in Letters :
         LET char(i, v) == [n |-> frames + 1, i |-> i, len |-> len, proto |-> p, k |-> v]
         IN  line' = IF p = "client" THEN <<char(1, "T")>>
                     ELSE [i \in 1..len |-> char(i, IF i = 1 THEN k ELSE "data")]
                          \o <<char(len + 1, "flag")>>
    /\ UNCHANGED <<ring, qlen, discard, jobs, partial, inq, sigio, io, lcpOpen, clean>>

\* The packet is longer than the buffer of ppp_tty_read().
Overlong(q) == q > BufSize

\* Mutant: the count goes on after the flag.
pppintr_KeepQlen ==
    /\ line # <<>> /\ Len(jobs) < JobBound
    /\ jobs' = IF Head(line).k = "flag" THEN Append(jobs, qlen + 1) ELSE jobs
    /\ qlen' = qlen + 1
    /\ ring' = IF Len(ring) < RingSize THEN Append(ring, Head(line)) ELSE ring
    /\ line' = Tail(line)
    /\ clean' = (clean /\ Len(ring) < RingSize)
    /\ UNCHANGED <<frames, discard, partial, inq, sigio, io, lcpOpen>>

pppintr ==
    /\ line # <<>> /\ Len(jobs) < JobBound
    /\ LET c == Head(line)
           q == qlen + 1
           early == ~lcpOpen /\ c.k = "T"
       IN  /\ discard' = IF qlen # 0 THEN discard
                         ELSE IF Len(ring) = RingSize THEN c.n ELSE 0
           /\ jobs' = IF Overlong(q) \/ early \/ c.k = "flag"
                        THEN Append(jobs, q) ELSE jobs
           /\ qlen' = IF Overlong(q) \/ (c.k = "flag" /\ ~early) THEN 0 ELSE q
           /\ ring' = IF Len(ring) < RingSize THEN Append(ring, c) ELSE ring
           /\ clean' = (clean /\ ~early /\ Len(ring) < RingSize)
    /\ line' = Tail(line)
    /\ UNCHANGED <<frames, partial, inq, sigio, io, lcpOpen>>

-----------------------------------------------------------------------------
(* The network task.                                                       *)

\* sc_fcs == PPP_GOODFCS when the flag c arrives.
GoodFcs(s, c) ==
    Len(s) = c.len /\ \A i \in DOMAIN s : s[i].n = c.n /\ s[i].i = i

\* pppinput() and ppppktin() on a record of what they change.  IP packets go
\* to ipintr(); the others to sc_inq, with a SIGIO, unless it is full.
ppppktin(r, proto) ==
    IF proto = "ip" \/ Len(r.inq) = InqMax THEN r
    ELSE [r EXCEPT !.inq = Append(@, proto), !.sigio = TRUE]

pppinput(r, c) ==
    IF c.k # "flag" THEN [r EXCEPT !.partial = Append(@, c)]
    ELSE LET e == [r EXCEPT !.partial = <<>>]
         IN  IF GoodFcs(r.partial, c) THEN ppppktin(e, c.proto) ELSE e

\* A job of the network task; read() blocks while the ring is empty.
ppp_tty_read ==
    /\ jobs # <<>> /\ ring # <<>>
    /\ LET count == Head(jobs)
           num == Min({count, Len(ring)})
           buf == SubSeq(ring, 1, num)
           client == ~lcpOpen /\ buf[1].proto = "client"
           r == FoldLeft(pppinput, [partial |-> partial, inq |-> inq, sigio |-> sigio], buf)
       IN  /\ ring' = SubSeq(ring, num + 1, Len(ring))
           /\ IF count > BufSize
                THEN UNCHANGED <<qlen, discard, partial, inq, sigio, clean>>
              ELSE IF client
                THEN /\ qlen' = 0 /\ clean' = (clean /\ qlen = 0)
                     /\ UNCHANGED <<discard, partial, inq, sigio>>
              ELSE IF discard # 0
                THEN discard' = 0 /\ UNCHANGED <<qlen, partial, inq, sigio, clean>>
              ELSE /\ partial' = r.partial /\ inq' = r.inq /\ sigio' = r.sigio
                   /\ UNCHANGED <<qlen, discard, clean>>
    /\ jobs' = Tail(jobs)
    /\ UNCHANGED <<line, frames, io, lcpOpen>>

-----------------------------------------------------------------------------
(* The daemon.                                                             *)

SigIo ==
    /\ sigio /\ ~io
    /\ sigio' = FALSE /\ io' = TRUE
    /\ UNCHANGED <<line, frames, ring, qlen, discard, jobs, partial, inq, lcpOpen, clean>>

\* One round of the loop of io().  A packet of another protocol while LCP is
\* not open ends the loop; so does an empty queue.
IoRead ==
    /\ io
    /\ IF inq = <<>> THEN io' = FALSE /\ UNCHANGED <<inq, lcpOpen>>
       ELSE /\ inq' = Tail(inq)
            /\ IF Head(inq) # "lcp" /\ ~lcpOpen
                 THEN io' = FALSE /\ UNCHANGED lcpOpen
                 ELSE /\ io' = TRUE
                      /\ lcpOpen' \in {lcpOpen, Head(inq) = "lcp", FALSE}
    /\ UNCHANGED <<line, frames, ring, qlen, discard, jobs, partial, sigio, clean>>

\* Any other handler may take LCP down.
LcpDown ==
    /\ lcpOpen /\ ~io
    /\ lcpOpen' = FALSE
    /\ UNCHANGED <<line, frames, ring, qlen, discard, jobs, partial, inq, sigio, io, clean>>

InputNext == \/ Send \/ pppintr \/ ppp_tty_read \/ SigIo \/ IoRead \/ LcpDown

InputSpec == InputInit /\ [][InputNext]_inputVars

-----------------------------------------------------------------------------
(***************************************************************************)
(* "count should never be greater than PPPBUFSIZE+1": the buffer that      *)
(* ppp_tty_read() reads into is one longer.  The interrupt counts          *)
(* characters, and the network task resets the counter behind its back.    *)
(***************************************************************************)
CountBounded == \A i \in DOMAIN jobs : jobs[i] <= BufSize + 1

(***************************************************************************)
(* While LCP is open no packet waits in sc_inq without a signal for it,    *)
(* although signals coalesce and io() may leave packets behind.            *)
(***************************************************************************)
WhileOpenNothingWaits == lcpOpen /\ ~io => inq = <<>> \/ sigio

\* q and the sum of the counts s.
Total(q, s) == FoldLeft(LAMBDA a, n : a + n, q, s)

(***************************************************************************)
(* Until an overrun, an early read, or a CLIENT that is read when LCP has  *)
(* gone down and the next frame has begun, every character in the ring is  *)
(* asked for by exactly one job or counted in sc_qlen: a job never blocks  *)
(* the network task in read(), nor takes the characters of the next frame. *)
(***************************************************************************)
CharsAccounted == clean => Total(qlen, jobs) = Len(ring)

(***************************************************************************)
(* The receive path keeps its accounts: the three facts above, of the      *)
(* interrupt, of io() and of ppp_tty_read().                               *)
(***************************************************************************)
ReceiveSound == CountBounded /\ WhileOpenNothingWaits /\ CharsAccounted
=============================================================================
