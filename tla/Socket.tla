------------------------------- MODULE Socket -------------------------------
(***************************************************************************)
(* The life of stream sockets and the tasks that sleep in them             *)
(* (uipc_sock.c, uipc_sock2.c, unixLib.c): connections that wait in the    *)
(* queues of a listening socket, are accepted, carry data and are closed,  *)
(* or are dropped by the protocol at any time.                             *)
(*                                                                         *)
(* splnet is one mutex for all of it, given up only by ksleep, so what a   *)
(* task or the network task does between two sleeps is one step here.      *)
(* ksleep gives up the mutex before it takes the semaphore of the sleep: a *)
(* task is "going" in between and "blocked" after, and "ready" when it has *)
(* the semaphore and waits for the mutex again.                            *)
(*                                                                         *)
(* The operators below take and return w, a record of the sockets and the  *)
(* tasks.                                                                  *)
(***************************************************************************)
EXTENDS Integers, Sequences, SequencesExt, FiniteSets, FiniteSetsExt

CONSTANTS
    Listener, Conns,    \* a listening socket, and those that come into being
    Tasks,
    qlimit,             \* the backlog
    hiwat,              \* bytes in a buffer
    LingerOf,           \* LingerOf[s]: SO_LINGER is set
    MaxData             \* bound on the bytes received and sent

ASSUME SocketAssumption ==
    /\ Listener \notin Conns /\ "none" \notin Conns \cup {Listener}
    /\ {qlimit, hiwat, MaxData} \subseteq Nat

VARIABLE w              \* w.so[s], w.task[t], and w.bytes for the bound

AllSocks == {Listener} \cup Conns
Buf == [cc |-> 0, want |-> 0, sem |-> 0]
NoSock == [alive |-> FALSE, fd |-> FALSE, flags |-> {}, error |-> FALSE, head |-> "none", listen |-> FALSE,
           q0 |-> <<>>, q |-> <<>>, pcb |-> "none", timeo |-> 0, rcv |-> Buf, snd |-> Buf]
NoTask == [at |-> "idle", on |-> "none", why |-> "none"]
Sleepers(W, s, which) == {t \in Tasks : W.task[t].on = s /\ W.task[t].why \in which}

(***************************************************************************)
(* unixLib.c: a binary semaphore remembers one give when nobody waits.     *)
(* The reasons to sleep on the same semaphore are in which.                *)
(***************************************************************************)
Timeo == {"accept", "connect", "linger"}

Blocked(W, s, which) == {t \in Sleepers(W, s, which) : W.task[t].at = "blocked"}
HandOver(W, s, which) ==
    LET t == CHOOSE t \in Blocked(W, s, which) : TRUE IN [W EXCEPT !.task[t].at = "ready"]

\* wakeup of so_timeoSem
WakeTimeo(W, s) ==
    IF Blocked(W, s, Timeo) # {} THEN HandOver(W, s, Timeo) ELSE [W EXCEPT !.so[s].timeo = 1]

\* sbwakeup: as many gives as there are sleepers
sorwakeup(W, s) ==
    IF W.so[s].rcv.want = 0 THEN W
    ELSE LET W1 == [W EXCEPT !.so[s].rcv.want = @ - 1] IN
         IF Blocked(W, s, {"read"}) # {} THEN HandOver(W1, s, {"read"}) ELSE [W1 EXCEPT !.so[s].rcv.sem = 1]

sowwakeup(W, s) ==
    IF W.so[s].snd.want = 0 THEN W
    ELSE LET W1 == [W EXCEPT !.so[s].snd.want = @ - 1] IN
         IF Blocked(W, s, {"write"}) # {} THEN HandOver(W1, s, {"write"}) ELSE [W1 EXCEPT !.so[s].snd.sem = 1]

(***************************************************************************)
(* uipc_sock2.c.                                                           *)
(***************************************************************************)
Flag(W, s, off, on) == [W EXCEPT !.so[s].flags = (@ \ off) \cup on]

soqremque(W, s) ==
    IF W.so[s].head = "none" THEN W
    ELSE LET h == W.so[s].head IN
         [W EXCEPT !.so[h].q0 = RemoveFirst(@, s), !.so[h].q = RemoveFirst(@, s), !.so[s].head = "none"]

soisconnecting(W, s) == Flag(W, s, {"connected", "disconnecting"}, {"connecting"})

soisconnected(W, s) ==
    LET W1 == Flag(W, s, {"connecting", "disconnecting"}, {"connected"})
        h == W.so[s].head
    IN  IF h # "none" /\ Contains(W.so[h].q0, s)
        THEN LET W2 == [W1 EXCEPT !.so[h].q0 = RemoveFirst(@, s), !.so[h].q = Append(@, s)] IN
             WakeTimeo(sorwakeup(W2, h), h)
        ELSE sowwakeup(sorwakeup(WakeTimeo(W1, s), s), s)

soisdisconnecting(W, s) ==
    sorwakeup(sowwakeup(WakeTimeo(
        Flag(W, s, {"connecting"}, {"disconnecting", "cantrcvmore", "cantsendmore"}), s), s), s)

\* Mutant: those who sleep until there is room are not woken.
soisdisconnected_ReadersOnly(W, s) ==
    sorwakeup(WakeTimeo(
        Flag(W, s, {"connecting", "connected", "disconnecting"}, {"cantrcvmore", "cantsendmore"}), s), s)

soisdisconnected(W, s) ==
    sorwakeup(sowwakeup(WakeTimeo(
        Flag(W, s, {"connecting", "connected", "disconnecting"}, {"cantrcvmore", "cantsendmore"}), s), s), s)

socantrcvmore(W, s) == sorwakeup(Flag(W, s, {}, {"cantrcvmore"}), s)
socantsendmore(W, s) == sowwakeup(Flag(W, s, {}, {"cantsendmore"}), s)

(***************************************************************************)
(* uipc_sock.c and the parts of TCP that end a connection.                 *)
(***************************************************************************)
\* Mutant: a socket is freed without being taken off the queue of its head.
sofree_LeftInQueue(W, s) ==
    IF W.so[s].pcb # "none" \/ W.so[s].fd THEN W ELSE [W EXCEPT !.so[s] = NoSock]

sofree(W, s) ==
    IF W.so[s].pcb # "none" \/ W.so[s].fd THEN W ELSE [soqremque(W, s) EXCEPT !.so[s] = NoSock]

\* tcp_close, in_pcbdetach
tcp_close(W, s) == sofree(soisdisconnected([W EXCEPT !.so[s].pcb = "none"], s), s)

\* tcp_disconnect: a connection that is not yet there is forgotten.
tcp_disconnect(W, s) ==
    IF W.so[s].pcb \in {"listen", "syn"} THEN tcp_close(W, s)
    ELSE IF W.so[s].pcb = "closing" /\ "disconnecting" \notin W.so[s].flags  \* FIN_WAIT_2 or later
    THEN soisdisconnected(soisdisconnecting(W, s), s)
    ELSE [soisdisconnecting(W, s) EXCEPT !.so[s].pcb = "closing", !.so[s].rcv.cc = 0]

\* soclose from drop on
soclose_drop(W, s) ==
    LET W1 == IF W.so[s].pcb = "none" THEN W
              ELSE IF W.so[s].pcb = "listen" THEN tcp_close(W, s) ELSE tcp_disconnect(W, s)
    IN  sofree([W1 EXCEPT !.so[s].fd = FALSE], s)

Abort(W, s) == FoldLeft(tcp_close, W, W.so[s].q0 \o W.so[s].q)

sleep(W, t, s, why) == [W EXCEPT !.task[t] = [at |-> "going", on |-> s, why |-> why]]
done(W, t) == [W EXCEPT !.task[t] = NoTask]

\* soclose after the linger: sleep as long as the connection is there
Linger(W, t, s) ==
    IF LingerOf[s] /\ "connected" \in W.so[s].flags THEN sleep(W, t, s, "linger")
    ELSE done(soclose_drop(W, s), t)

soclose(W, t, s) ==
    LET W1 == IF W.so[s].listen THEN Abort(W, s) ELSE W
        W2 == IF {"connected", "disconnecting"} \cap W1.so[s].flags = {"connected"} THEN tcp_disconnect(W1, s) ELSE W1
    IN  IF W1.so[s].pcb # "none" /\ "connected" \in W1.so[s].flags THEN Linger(W2, t, s)
        ELSE done(soclose_drop(W1, s), t)

\* soreceive and sosend of one byte
ReadByte(W, t, s) ==
    LET r == W.so[s] IN
    IF r.rcv.cc > 0 THEN done([W EXCEPT !.so[s].rcv.cc = @ - 1], t)
    ELSE IF r.error THEN done([W EXCEPT !.so[s].error = FALSE], t)
    ELSE IF "cantrcvmore" \in r.flags \/ {"connected", "connecting"} \cap r.flags = {} THEN done(W, t)
    ELSE sleep([W EXCEPT !.so[s].rcv.want = @ + 1], t, s, "read")

sosend(W, t, s) ==
    LET r == W.so[s] IN
    IF "cantsendmore" \in r.flags \/ r.error \/ "connected" \notin r.flags THEN done(W, t)
    ELSE IF r.snd.cc = hiwat THEN sleep([W EXCEPT !.so[s].snd.want = @ + 1], t, s, "write")
    ELSE done([W EXCEPT !.so[s].snd.cc = @ + 1, !.bytes = Min({@ + 1, MaxData})], t)

\* accept and connect (sockLib, outside the repository) sleep on so_timeoSem.
accept(W, t, s) ==
    IF W.so[s].error \/ ~W.so[s].listen THEN done([W EXCEPT !.so[s].error = FALSE], t)
    ELSE IF W.so[s].q = <<>> THEN sleep(W, t, s, "accept")
    ELSE LET c == Head(W.so[s].q) IN done([soqremque(W, c) EXCEPT !.so[c].fd = TRUE], t)

connect(W, t, s) ==
    IF "connecting" \in W.so[s].flags /\ ~W.so[s].error THEN sleep(W, t, s, "connect")
    ELSE done([W EXCEPT !.so[s].error = FALSE], t)

Continue(W, t) ==
    LET s == W.task[t].on IN
    CASE W.task[t].why = "read" -> ReadByte(W, t, s)
      [] W.task[t].why = "write" -> sosend(W, t, s)
      [] W.task[t].why = "accept" -> accept(W, t, s)
      [] W.task[t].why = "connect" -> connect(W, t, s)
      [] W.task[t].why = "linger" -> Linger(W, t, s)

(***************************************************************************)
(* The steps of the tasks.  The tasks share a socket the way a program     *)
(* must: one of them reads it, one writes it, and none is in it when it is *)
(* closed.                                                                 *)
(***************************************************************************)
Free(t, s, op) == w.task[t] = NoTask /\ w.so[s].fd /\ Sleepers(w, s, {op}) = {}

Read(t, s) == Free(t, s, "read") /\ s # Listener /\ w' = ReadByte(w, t, s)
Write(t, s) == Free(t, s, "write") /\ s # Listener /\ (w.bytes < MaxData \/ w.so[s].snd.cc = hiwat) /\ w' = sosend(w, t, s)
Accept(t) == Free(t, Listener, "accept") /\ w' = accept(w, t, Listener)
Close(t, s) ==
    /\ w.task[t] = NoTask /\ w.so[s].fd /\ Sleepers(w, s, {"read", "write"} \cup Timeo) = {}
    /\ w' = soclose(w, t, s)

\* socket and connect
Connect(t, s) ==
    /\ w.task[t] = NoTask /\ s \in Conns /\ ~w.so[s].alive
    /\ w' = connect(soisconnecting([w EXCEPT !.so[s] = [NoSock EXCEPT !.alive = TRUE, !.fd = TRUE, !.pcb = "syn"]], s), t, s)

Shutdown(s) ==
    /\ s # Listener /\ w.so[s].fd /\ "connected" \in w.so[s].flags /\ "cantsendmore" \notin w.so[s].flags
    /\ w' = socantsendmore(w, s)

\* ksleep
SemOf(s, why) == IF why = "read" THEN w.so[s].rcv.sem ELSE IF why = "write" THEN w.so[s].snd.sem ELSE w.so[s].timeo
semTake(t) ==
    LET s == w.task[t].on
        why == w.task[t].why
    IN  /\ w.task[t].at = "going"
        /\ w' = IF SemOf(s, why) = 0 THEN [w EXCEPT !.task[t].at = "blocked"]
                ELSE LET W1 == [w EXCEPT !.task[t].at = "ready"] IN
                     IF why = "read" THEN [W1 EXCEPT !.so[s].rcv.sem = 0]
                     ELSE IF why = "write" THEN [W1 EXCEPT !.so[s].snd.sem = 0]
                     ELSE [W1 EXCEPT !.so[s].timeo = 0]

ResumeTask(t) == w.task[t].at = "ready" /\ w' = Continue(w, t)

(***************************************************************************)
(* The steps of the protocol.                                              *)
(***************************************************************************)
\* sonewconn: a SYN for the listening socket
sonewconn(s) ==
    LET h == w.so[Listener] IN
    /\ s \in Conns /\ ~w.so[s].alive /\ h.pcb = "listen"
    /\ Len(h.q) + Len(h.q0) <= (3 * qlimit) \div 2
    /\ w' = [w EXCEPT !.so[s] = [NoSock EXCEPT !.alive = TRUE, !.head = Listener, !.pcb = "syn", !.flags = h.flags],
                      !.so[Listener].q0 = Append(@, s)]

Established(s) ==
    /\ w.so[s].pcb = "syn"
    /\ w' = soisconnected([w EXCEPT !.so[s].pcb = "est"], s)

Data(s) ==
    /\ w.so[s].pcb = "est" /\ "cantrcvmore" \notin w.so[s].flags /\ w.so[s].rcv.cc < hiwat /\ w.bytes < MaxData
    /\ w' = sorwakeup([w EXCEPT !.so[s].rcv.cc = @ + 1, !.bytes = @ + 1], s)

SendAcked(s) ==
    /\ w.so[s].pcb \in {"est", "closing"} /\ w.so[s].snd.cc > 0
    /\ w' = sowwakeup([w EXCEPT !.so[s].snd.cc = @ - 1], s)

\* tcp_input: a FIN, the acknowledgement of ours, the end of TIME_WAIT, a reset
FinReceived(s) ==
    /\ w.so[s].pcb = "est" /\ "cantrcvmore" \notin w.so[s].flags
    /\ w' = socantrcvmore(w, s)
OurFinAcked(s) ==
    /\ w.so[s].pcb = "closing" /\ "disconnecting" \in w.so[s].flags /\ w.so[s].snd.cc = 0
    /\ w' = soisdisconnected(w, s)
Expired(s) ==
    /\ w.so[s].pcb = "closing" /\ "disconnecting" \notin w.so[s].flags
    /\ w' = tcp_close(w, s)
Reset(s) ==
    /\ s # Listener /\ w.so[s].pcb # "none"
    /\ w' = tcp_close([w EXCEPT !.so[s].error = TRUE], s)

SoInit ==
    w = [so |-> [s \in AllSocks |-> IF s = Listener
                 THEN [NoSock EXCEPT !.alive = TRUE, !.fd = TRUE, !.listen = TRUE, !.pcb = "listen"] ELSE NoSock],
         task |-> [t \in Tasks |-> NoTask], bytes |-> 0]

SoNext ==
    \/ \E t \in Tasks, s \in AllSocks : Read(t, s) \/ Write(t, s) \/ Close(t, s) \/ Connect(t, s)
    \/ \E t \in Tasks : Accept(t) \/ semTake(t) \/ ResumeTask(t)
    \/ \E s \in AllSocks : \/ sonewconn(s) \/ Established(s) \/ Data(s) \/ SendAcked(s) \/ Shutdown(s)
                        \/ FinReceived(s) \/ OurFinAcked(s) \/ Expired(s) \/ Reset(s)

SoSpec == SoInit /\ [][SoNext]_w

(***************************************************************************)
(* Properties.                                                             *)
(***************************************************************************)
\* No task sleeps on when what it waits for has happened: there is data or
\* room or a connection, or the connection has ended (sbwait, ksleep, wakeup
\* and every caller of them).
NoSleeperForgotten ==
    \A t \in Tasks :
        w.task[t].at = "blocked" =>
            LET s == w.so[w.task[t].on] IN
            /\ s.alive /\ ~s.error
            /\ w.task[t].why = "read" => s.rcv.cc = 0 /\ "cantrcvmore" \notin s.flags
            /\ w.task[t].why = "write" => s.snd.cc = hiwat /\ "cantsendmore" \notin s.flags
            /\ w.task[t].why = "accept" => s.q = <<>> /\ s.listen
            /\ w.task[t].why = "connect" => "connecting" \in s.flags
            /\ w.task[t].why = "linger" => "connected" \in s.flags

\* A connection is in exactly one place: in one queue of a listening socket
\* that is alive, or held by a program, or kept by the protocol only; what is
\* in no place is freed, and what is freed is in no queue (soqinsque,
\* soqremque, sofree, soclose).
OnePlace ==
    LET h == w.so[Listener] IN
    /\ \A s \in Conns :
        LET c == w.so[s]
            queued == Cardinality({i \in DOMAIN (h.q0 \o h.q) : (h.q0 \o h.q)[i] = s})
        IN  /\ queued = (IF c.alive /\ c.head = Listener THEN 1 ELSE 0)
            /\ c.alive => c.fd \/ queued = 1 \/ c.pcb # "none"
            /\ c.fd => queued = 0
    /\ Len(h.q0) + Len(h.q) <= (3 * qlimit) \div 2 + 1
=============================================================================
