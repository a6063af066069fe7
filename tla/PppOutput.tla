------------------------------ MODULE PppOutput ------------------------------
(***************************************************************************)
(* The transmit path of a PPP unit (ppp/if_ppp.c): pppoutput() queues a    *)
(* packet, interactive TCP ahead of the rest, and gives the binary         *)
(* semaphore sc_wrtsem; the task ppp_wrt_task() takes it and writes        *)
(* packets to the tty until both queues are empty.  pppclose() writes what *)
(* is queued itself (ppp_wrt_flush()), then deletes the task.              *)
(*                                                                         *)
(* A packet is a number, Pieces the number of write() calls it takes; the  *)
(* last one carries the FCS and the closing flag.  Compression, escapes    *)
(* and mbufs are left out.                                                 *)
(***************************************************************************)
EXTENDS Integers, Sequences, SequencesExt

CONSTANTS
    Pieces,
    QueueMax,     \* ifq_maxlen of sc_fastq and if_snd
    PacketBound,
    ShortWrites,  \* how many calls of write() write less than they are given
    Closes        \* TRUE: the daemon may call pppclose()

ASSUME OutputAssumption ==
    /\ {Pieces, QueueMax} \subseteq Nat \ {0}
    /\ {PacketBound, ShortWrites} \subseteq Nat
    /\ Closes \in BOOLEAN

Writers == {"task", "flush"}

VARIABLES
    fastq, snd,   \* sc_fastq and if_snd
    sem,          \* sc_wrtsem is full
    pc,           \* of ppp_wrt_task() and of ppp_wrt_flush()
    m,            \* the packet that a writer is sending, and its next piece
    outm,         \* sc_outm: 0, or the packet left half sent
    wire,         \* what has been written, in order
    sent,         \* packets that pppoutput() has been called with
    queued,       \* those that it has put on a queue
    shorts

outputVars == <<fastq, snd, sem, pc, m, outm, wire, sent, queued, shorts>>

None == [id |-> 0, piece |-> 0]

OutputInit ==
    /\ fastq = <<>> /\ snd = <<>> /\ sem = FALSE
    /\ pc = [w \in Writers |-> IF w = "task" THEN "semTake" ELSE "none"]
    /\ m = [w \in Writers |-> None]
    /\ outm = 0 /\ wire = <<>> /\ sent = 0 /\ queued = {} /\ shorts = 0

Open == pc["flush"] = "none"

\* IF_ENQUEUE() and pppasyncstart().
Enqueue(p, fast) ==
    /\ sem' = TRUE
    /\ IF fast THEN fastq' = Append(fastq, p) /\ UNCHANGED snd
       ELSE snd' = Append(snd, p) /\ UNCHANGED fastq

\* A packet for a full queue is dropped.
pppoutput ==
    /\ Open /\ sent < PacketBound
    /\ sent' = sent + 1
    /\ \E fast \in BOOLEAN :
         IF Len(IF fast THEN fastq ELSE snd) >= QueueMax
           THEN UNCHANGED <<fastq, snd, sem, queued>>
           ELSE Enqueue(sent', fast) /\ queued' = queued \cup {sent'}
    /\ UNCHANGED <<pc, m, outm, wire, shorts>>

semTake ==
    /\ pc["task"] = "semTake" /\ sem
    /\ sem' = FALSE
    /\ pc' = [pc EXCEPT !["task"] = "dequeue"]
    /\ UNCHANGED <<fastq, snd, m, outm, wire, sent, queued, shorts>>

\* Mutant: without an interactive packet the task goes back to sleep.
ppp_dequeue_FastOnly(w) ==
    /\ pc[w] = "dequeue"
    /\ LET p == IF fastq # <<>> THEN Head(fastq) ELSE 0
       IN  /\ m' = [m EXCEPT ![w] = IF p = 0 THEN None ELSE [id |-> p, piece |-> 1]]
           /\ pc' = [pc EXCEPT ![w] = IF p # 0 THEN "write"
                                      ELSE IF w = "task" THEN "semTake" ELSE "delete"]
    /\ fastq' = SubSeq(fastq, 2, Len(fastq))
    /\ UNCHANGED <<snd, sem, outm, wire, sent, queued, shorts>>

\* The top of the loop: the packet half sent, the fast queue, the other one.
ppp_dequeue(w) ==
    /\ pc[w] = "dequeue"
    /\ LET p == IF outm # 0 THEN outm
                ELSE IF fastq # <<>> THEN Head(fastq)
                ELSE IF snd # <<>> THEN Head(snd) ELSE 0
       IN  /\ m' = [m EXCEPT ![w] = IF p = 0 THEN None ELSE [id |-> p, piece |-> 1]]
           /\ pc' = [pc EXCEPT ![w] = IF p # 0 THEN "write"
                                      ELSE IF w = "task" THEN "semTake" ELSE "delete"]
    /\ IF outm # 0 THEN UNCHANGED <<fastq, snd>>
       ELSE IF fastq # <<>> THEN fastq' = Tail(fastq) /\ UNCHANGED snd
       ELSE snd' = SubSeq(snd, 2, Len(snd)) /\ UNCHANGED fastq
    /\ UNCHANGED <<sem, outm, wire, sent, queued, shorts>>

\* One write(); after the last one the packet is finished.
Write(w) ==
    /\ pc[w] = "write"
    /\ wire' = Append(wire, m[w])
    /\ IF m[w].piece < Pieces
         THEN /\ m' = [m EXCEPT ![w].piece = @ + 1]
              /\ UNCHANGED <<pc, outm>>
         ELSE /\ m' = [m EXCEPT ![w] = None]
              /\ pc' = [pc EXCEPT ![w] = "dequeue"]
              /\ outm' = 0
    /\ UNCHANGED <<fastq, snd, sem, sent, queued, shorts>>

\* write() falls short: sc_outm is set, the inner loop is left, and sc_outm is
\* cleared behind it.
WriteShort(w) ==
    /\ pc[w] = "write" /\ shorts < ShortWrites
    /\ shorts' = shorts + 1
    /\ m' = [m EXCEPT ![w] = None]
    /\ pc' = [pc EXCEPT ![w] = "dequeue"]
    /\ outm' = 0
    /\ UNCHANGED <<fastq, snd, sem, wire, sent, queued>>

pppclose ==
    /\ Closes /\ Open
    /\ pc' = [pc EXCEPT !["flush"] = "dequeue"]
    /\ UNCHANGED <<fastq, snd, sem, m, outm, wire, sent, queued, shorts>>

\* taskDelete(), wherever the task is; pppdealloc() frees what is queued.
Delete ==
    /\ pc["flush"] = "delete"
    /\ pc' = [w \in Writers |-> "gone"]
    /\ m' = [w \in Writers |-> None]
    /\ fastq' = <<>> /\ snd' = <<>> /\ outm' = 0
    /\ UNCHANGED <<sem, wire, sent, queued, shorts>>

OutputNext ==
    \/ pppoutput \/ semTake \/ pppclose \/ Delete
    \/ \E w \in Writers : ppp_dequeue(w) \/ Write(w) \/ WriteShort(w)

OutputSpec == OutputInit /\ [][OutputNext]_outputVars

\* The writing task is scheduled and the tty accepts characters.
OutputFairness ==
    /\ WF_outputVars(semTake)
    /\ WF_outputVars(ppp_dequeue("task"))
    /\ WF_outputVars(Write("task"))

OutputFairSpec == OutputSpec /\ OutputFairness

-----------------------------------------------------------------------------
\* The packets whose last piece is on the wire.
Finished == {wire[i].id : i \in {j \in DOMAIN wire : wire[j].piece = Pieces}}

(***************************************************************************)
(* No wakeup is lost: while packets are queued, the writing task is busy   *)
(* or the semaphore is full, although a binary semaphore forgets how often *)
(* it has been given.                                                      *)
(***************************************************************************)
NoLostWakeup ==
    Open /\ pc["task"] = "semTake" /\ ~sem => fastq = <<>> /\ snd = <<>>

(***************************************************************************)
(* Every packet on a queue is sent, however many interactive packets       *)
(* overtake it, unless a write falls short or the interface is closed.     *)
(***************************************************************************)
AllSent ==
    \A p \in 1..PacketBound : p \in queued ~> p \in Finished \/ shorts > 0 \/ ~Open
=============================================================================
