---------------------------- MODULE SocketProofs ----------------------------
(***************************************************************************)
(* Proofs about sockets and the tasks that sleep in them (Socket), for any *)
(* number of connections and tasks, every backlog and every buffer size.   *)
(*                                                                         *)
(* SoOK is the invariant.  A step of the code is a chain of operators on   *)
(* the record of sockets and tasks, and in the middle of the chain the     *)
(* socket it works on is not yet in order: But says that all the others    *)
(* are, and a lemma per operator says what it puts in order.               *)
(***************************************************************************)
EXTENDS Socket, ListLemmas, FiniteSetTheorems, TLAPS

(***************************************************************************)
(* Sockets and the tasks that sleep in them.  W is a record of both, and X *)
(* the tasks that are not in the middle of a call.                         *)
(***************************************************************************)
SoBuf == [cc : Nat, want : Nat, sem : {0, 1}]
SoRec ==
    [alive : BOOLEAN, fd : BOOLEAN,
     flags : SUBSET {"connected", "connecting", "disconnecting", "cantrcvmore", "cantsendmore"},
     error : BOOLEAN, head : {"none", Listener}, listen : BOOLEAN,
     q0 : Seq(Conns), q : Seq(Conns), pcb : {"none", "listen", "syn", "est", "closing"},
     timeo : {0, 1}, rcv : SoBuf, snd : SoBuf]
TaskRec ==
    [at : {"idle", "going", "blocked", "ready"}, on : AllSocks \cup {"none"},
     why : {"none", "read", "write"} \cup Timeo]
SoWorld == [so : [AllSocks -> SoRec], task : [Tasks -> TaskRec], bytes : Nat]

\* The tasks that sleep, or are about to, on one of the semaphores of s.
Waits(W, s, which) == {t \in Sleepers(W, s, which) : W.task[t].at \in {"going", "blocked"}}

\* A buffer counts those who wait: a give that came too early for one is kept.
Counted(W, b, s, op) ==
    /\ Waits(W, s, {op}) = {} => b.want = 0 /\ b.sem = 0
    /\ \A t \in Waits(W, s, {op}) : b.want + b.sem = 1 /\ (W.task[t].at = "blocked" => b.sem = 0)
Counts(W) ==
    \A s \in AllSocks :
        /\ Counted(W, W.so[s].rcv, s, "read") /\ Counted(W, W.so[s].snd, s, "write")
        /\ \A t \in Waits(W, s, Timeo) : W.task[t].at = "blocked" => W.so[s].timeo = 0

\* Who waits and has no give to come has a reason to wait.
ReadWaits(W, s) ==
    W.so[s].rcv.sem = 0 /\ Waits(W, s, {"read"}) # {} =>
        ~W.so[s].error /\ W.so[s].rcv.cc = 0 /\ "cantrcvmore" \notin W.so[s].flags
WriteWaits(W, s) ==
    W.so[s].snd.sem = 0 /\ Waits(W, s, {"write"}) # {} =>
        ~W.so[s].error /\ W.so[s].snd.cc = hiwat /\ "cantsendmore" \notin W.so[s].flags
TimeoWaits(W, s) ==
    W.so[s].timeo = 0 =>
        \A t \in Waits(W, s, Timeo) :
            /\ ~W.so[s].error
            /\ W.task[t].why = "accept" => W.so[s].q = <<>> /\ W.so[s].listen
            /\ W.task[t].why = "connect" => "connecting" \in W.so[s].flags
            /\ W.task[t].why = "linger" => "connected" \in W.so[s].flags

\* The tasks use the sockets as a program must: one reads, one writes, one is
\* in accept, connect or close, and nothing else happens in a socket that is
\* being closed.
Alike(a, b) == a = b \/ {a, b} \subseteq Timeo
Using(W, X, t) ==
    LET s == W.task[t].on IN
    /\ s \in AllSocks /\ W.task[t].why # "none" /\ W.so[s].alive /\ W.so[s].fd
    /\ s = Listener <=> W.task[t].why = "accept"
    /\ \A u \in X : W.task[u].at # "idle" /\ W.task[u].on = s =>
        u = t \/ ~(Alike(W.task[u].why, W.task[t].why) \/ W.task[t].why = "linger")
    /\ W.task[t].why = "linger" => {"cantrcvmore", "cantsendmore"} \subseteq W.so[s].flags
Used(W, X) ==
    /\ X \subseteq Tasks
    /\ \A t \in Tasks \ X : W.task[t].at \notin {"going", "blocked"}
    /\ \A t \in X : W.task[t].at # "idle" => Using(W, X, t)

\* One socket: what it is linked to, and one that nothing is linked to is freed.
Linked(s, r) ==
    /\ ~r.alive => ~r.fd /\ r.head = "none"
    /\ r.head = Listener => r.alive /\ ~r.fd
    /\ r.error => r.pcb = "none"
    /\ r.pcb = "none" => "connected" \notin r.flags /\ "connecting" \notin r.flags
    /\ r.pcb # "none" => r.alive
    /\ "disconnecting" \in r.flags => {"cantrcvmore", "cantsendmore"} \subseteq r.flags
    /\ r.listen \/ r.pcb = "listen" => s = Listener
    /\ s = Listener => r.head = "none" /\ (r.alive => r.listen /\ r.pcb = "listen" /\ r.flags = {} /\ r.fd)
Sound(s, r) == Linked(s, r) /\ (r.alive => r.fd \/ r.head = Listener \/ r.pcb # "none")

\* The queues of the listening socket have the sockets that belong to it.
Queued(W) ==
    LET h == W.so[Listener] IN
    /\ NoDup(h.q0) /\ NoDup(h.q)
    /\ \A s \in Conns : ~ (Member(h.q0, s) /\ Member(h.q, s))
    /\ \A s \in Conns : W.so[s].head = Listener <=> Member(h.q0, s) \/ Member(h.q, s)
    /\ Len(h.q0) + Len(h.q) <= (3 * qlimit) \div 2 + 1

SoOK(W, X) ==
    /\ W \in SoWorld /\ Used(W, X) /\ Counts(W) /\ Queued(W)
    /\ \A s \in AllSocks : Sound(s, W.so[s]) /\ ReadWaits(W, s) /\ WriteWaits(W, s) /\ TimeoWaits(W, s)

SoInv == SoOK(w, Tasks)

-----------------------------------------------------------------------------
(***************************************************************************)
(* Waking up.                                                              *)
(***************************************************************************)
Core(W, X) == W \in SoWorld /\ Used(W, X) /\ Counts(W) /\ Queued(W)
Reasons(W, s) == ReadWaits(W, s) /\ WriteWaits(W, s) /\ TimeoWaits(W, s)

\* What a wakeup leaves alone.
LikeSock(r, v) ==
    /\ v.alive = r.alive /\ v.fd = r.fd /\ v.error = r.error /\ v.head = r.head
    /\ v.listen = r.listen /\ v.q0 = r.q0 /\ v.q = r.q /\ v.pcb = r.pcb
    /\ v.rcv.cc = r.rcv.cc /\ v.snd.cc = r.snd.cc
SameSock(r, v) == LikeSock(r, v) /\ v.flags = r.flags
SameTask(r, v) ==
    v.on = r.on /\ v.why = r.why /\ (v.at = r.at \/ (r.at = "blocked" /\ v.at = "ready"))
Kept(W, V) ==
    /\ V \in SoWorld
    /\ \A s \in AllSocks : SameSock(W.so[s], V.so[s])
    /\ \A t \in Tasks : SameTask(W.task[t], V.task[t])

\* The fields of the records.
LEMMA WorldIs ==
    ASSUME NEW W \in SoWorld
    PROVE  /\ W.so \in [AllSocks -> SoRec] /\ W.task \in [Tasks -> TaskRec] /\ W.bytes \in Nat
           /\ \A s \in AllSocks : W.so[s] \in SoRec /\ W.so[s].rcv \in SoBuf /\ W.so[s].snd \in SoBuf
           /\ \A t \in Tasks : W.task[t] \in TaskRec
  BY DEF SoWorld, SoRec

\* A task that is blocked is handed the semaphore.
LEMMA HandOverIs ==
    ASSUME NEW W \in SoWorld, NEW s \in AllSocks, NEW which, Blocked(W, s, which) # {},
           NEW V, V = HandOver(W, s, which)
    PROVE  /\ V \in SoWorld /\ V.so = W.so
           /\ \E t \in Tasks :
                /\ W.task[t].on = s /\ W.task[t].why \in which /\ W.task[t].at = "blocked"
                /\ V.task[t].at = "ready" /\ V.task[t].on = s /\ V.task[t].why = W.task[t].why
                /\ \A u \in Tasks : u # t => V.task[u] = W.task[u]
<1> DEFINE t == CHOOSE t \in Blocked(W, s, which) : TRUE
<1>1. t \in Blocked(W, s, which)
  OBVIOUS
<1>2. V = [W EXCEPT !.task[t].at = "ready"]
  BY DEF HandOver
<1> HIDE DEF t
<1>3. t \in Tasks /\ W.task[t].on = s /\ W.task[t].why \in which /\ W.task[t].at = "blocked"
  BY <1>1 DEF Blocked, Sleepers
<1>4. W.task \in [Tasks -> TaskRec] /\ W.task[t] \in TaskRec
  BY <1>3, WorldIs
<1>5. [W.task[t] EXCEPT !.at = "ready"] \in TaskRec
  BY <1>4 DEF TaskRec
<1>6. V = [W EXCEPT !.task = [W.task EXCEPT ![t] = [W.task[t] EXCEPT !.at = "ready"]]]
  BY <1>2
<1>7. V \in SoWorld /\ V.so = W.so /\ V.task = [W.task EXCEPT ![t] = [W.task[t] EXCEPT !.at = "ready"]]
  BY <1>4, <1>5, <1>6 DEF SoWorld
<1>8. /\ V.task[t] = [W.task[t] EXCEPT !.at = "ready"] /\ \A u \in Tasks : u # t => V.task[u] = W.task[u]
  BY <1>3, <1>4, <1>7
<1>9. V.task[t].at = "ready" /\ V.task[t].on = s /\ V.task[t].why = W.task[t].why
  BY <1>3, <1>4, <1>8 DEF TaskRec
<1> QED
  BY <1>3, <1>7, <1>8, <1>9

\* A socket changes in one place.
PutSo(W, s, r) == [W EXCEPT !.so[s] = r]

\* Only that socket changes.
LEMMA PutSock ==
    ASSUME NEW W \in SoWorld, NEW s \in AllSocks, NEW r \in SoRec, NEW V, V = PutSo(W, s, r)
    PROVE  /\ V \in SoWorld /\ V.task = W.task /\ V.bytes = W.bytes /\ V.so[s] = r
           /\ \A x \in AllSocks : x # s => V.so[x] = W.so[x]
  BY WorldIs DEF SoWorld, PutSo

\* What does not change who waits, nor the conditions, leaves the counts.
LEMMA WakeTimeoOK ==
    ASSUME NEW X, NEW W, Core(W, X), NEW s \in AllSocks, NEW V, V = WakeTimeo(W, s)
    PROVE  /\ Kept(W, V) /\ Counts(V) /\ TimeoWaits(V, s)
           /\ \A x \in AllSocks : /\ ReadWaits(W, x) => ReadWaits(V, x)
                                  /\ WriteWaits(W, x) => WriteWaits(V, x)
                                  /\ x # s /\ TimeoWaits(W, x) => TimeoWaits(V, x)
<1>1. W \in SoWorld
  BY DEF Core
<1>2. CASE Blocked(W, s, Timeo) # {}
  <2>1. V = HandOver(W, s, Timeo)
    BY <1>2 DEF WakeTimeo
  <2>2. PICK t \in Tasks :
            /\ W.task[t].on = s /\ W.task[t].why \in Timeo /\ W.task[t].at = "blocked"
            /\ V.task[t].at = "ready" /\ V.task[t].on = s /\ V.task[t].why = W.task[t].why
            /\ \A u \in Tasks : u # t => V.task[u] = W.task[u]
    BY <1>1, <1>2, <2>1, HandOverIs
  <2>3. V \in SoWorld /\ V.so = W.so
    BY <1>1, <1>2, <2>1, HandOverIs
  <2>4. Kept(W, V)
    BY <2>2, <2>3 DEF Kept, SameSock, LikeSock, SameTask
  <2>5. \A x \in AllSocks : \A op \in {"read", "write"} : Waits(V, x, {op}) = Waits(W, x, {op})
    BY <2>2 DEF Waits, Sleepers, Timeo
  <2>6. \A x \in AllSocks : x # s => Waits(V, x, Timeo) = Waits(W, x, Timeo)
    BY <2>2 DEF Waits, Sleepers
  <2>7. Waits(V, s, Timeo) = {}
    BY <2>2 DEF Waits, Sleepers, Core, Used, Using, Alike
  <2>8. \A x \in AllSocks : \A op \in {"read", "write"} : \A u \in Waits(W, x, {op}) : V.task[u] = W.task[u]
    BY <2>2 DEF Waits, Sleepers, Timeo
  <2>9. \A x \in AllSocks : x # s => \A u \in Waits(W, x, Timeo) : V.task[u] = W.task[u]
    BY <2>2 DEF Waits, Sleepers
  <2>10. Counts(V)
    BY <2>3, <2>5, <2>6, <2>7, <2>8, <2>9 DEF Core, Counts, Counted
  <2> QED BY <2>3, <2>4, <2>5, <2>6, <2>7, <2>9, <2>10 DEF ReadWaits, WriteWaits, TimeoWaits
<1>3. CASE Blocked(W, s, Timeo) = {}
  <2> DEFINE r == [W.so[s] EXCEPT !.timeo = 1]
  <2>1. V = PutSo(W, s, r)
    BY <1>3 DEF WakeTimeo, PutSo
  <2>2. W.so[s] \in SoRec
    BY <1>1, WorldIs
  <2>3. r \in SoRec /\ SameSock(W.so[s], r) /\ r.timeo = 1 /\ r.rcv = W.so[s].rcv /\ r.snd = W.so[s].snd
    BY <2>2 DEF SoRec, SameSock, LikeSock
  <2> HIDE DEF r
  <2>4. V \in SoWorld /\ V.task = W.task /\ V.so[s] = r /\ \A x \in AllSocks : x # s => V.so[x] = W.so[x]
    BY <1>1, <2>1, <2>3, PutSock
  <2>5. Kept(W, V)
    BY <2>3, <2>4 DEF Kept, SameSock, LikeSock, SameTask
  <2>6. \A x : \A which : Waits(V, x, which) = Waits(W, x, which)
    BY <2>4 DEF Waits, Sleepers
  <2>7. \A u \in Waits(W, s, Timeo) : W.task[u].at # "blocked"
    BY <1>3 DEF Blocked, Waits
  <2>8. Counts(V)
    BY <2>3, <2>4, <2>6, <2>7 DEF Core, Counts, Counted
  <2>9. \A x \in AllSocks : V.so[x].rcv = W.so[x].rcv /\ V.so[x].snd = W.so[x].snd /\ SameSock(W.so[x], V.so[x])
    BY <2>3, <2>4, <2>5 DEF Kept
  <2>10. TimeoWaits(V, s)
    BY <2>3, <2>4 DEF TimeoWaits
  <2>11. ASSUME NEW x \in AllSocks
         PROVE  /\ ReadWaits(W, x) => ReadWaits(V, x)
                /\ WriteWaits(W, x) => WriteWaits(V, x)
    BY <2>6, <2>9 DEF ReadWaits, WriteWaits, SameSock, LikeSock
  <2>12. ASSUME NEW x \in AllSocks, x # s, TimeoWaits(W, x) PROVE TimeoWaits(V, x)
    BY <2>4, <2>6, <2>12 DEF TimeoWaits
  <2> QED BY <2>5, <2>8, <2>10, <2>11, <2>12
<1> QED
  BY <1>2, <1>3

\* After sorwakeup no reader waits without a give.
LEMMA sorwakeupOK ==
    ASSUME NEW X, NEW W, Core(W, X), NEW s \in AllSocks, NEW V, V = sorwakeup(W, s)
    PROVE  /\ Kept(W, V) /\ Counts(V) /\ ReadWaits(V, s)
           /\ \A x \in AllSocks : /\ TimeoWaits(W, x) => TimeoWaits(V, x)
                                  /\ WriteWaits(W, x) => WriteWaits(V, x)
                                  /\ x # s /\ ReadWaits(W, x) => ReadWaits(V, x)
<1> DEFINE b == W.so[s].rcv
           p == [W.so[s] EXCEPT !.rcv.want = @ - 1]
           W1 == PutSo(W, s, p)
<1>1. W \in SoWorld /\ W.so[s] \in SoRec /\ b \in SoBuf
  BY WorldIs DEF Core
<1>2. b.want \in Nat /\ b.sem \in {0, 1} /\ Counted(W, b, s, "read")
  BY <1>1 DEF SoBuf, Core, Counts
<1>3. CASE b.want = 0
  <2>1. V = W
    BY <1>3 DEF sorwakeup
  <2>2. Kept(W, W)
    BY <1>1 DEF Kept, SameSock, LikeSock, SameTask
  <2>3. ReadWaits(W, s)
    BY <1>2, <1>3 DEF Counted, ReadWaits
  <2> QED BY <2>1, <2>2, <2>3 DEF Core
<1>4. CASE b.want # 0
  <2>1. b.want = 1 /\ b.sem = 0 /\ Waits(W, s, {"read"}) # {}
    BY <1>2, <1>4 DEF Counted
  <2> DEFINE d == [b EXCEPT !.want = @ - 1]
  <2>7. d \in SoBuf /\ d.want = 0 /\ d.sem = 0 /\ d.cc = b.cc
    BY <1>1, <2>1 DEF SoBuf
  <2>8. p = [W.so[s] EXCEPT !.rcv = d]
    OBVIOUS
  <2> HIDE DEF d
  <2>2. /\ p \in SoRec /\ p.rcv \in SoBuf /\ p.rcv.want = 0 /\ p.rcv.sem = 0
        /\ SameSock(W.so[s], p) /\ p.snd = W.so[s].snd /\ p.timeo = W.so[s].timeo
    BY <1>1, <2>7, <2>8 DEF SoRec, SameSock, LikeSock
  <2> HIDE DEF p
  <2>3. W1 \in SoWorld /\ W1.task = W.task /\ W1.so[s] = p /\ \A x \in AllSocks : x # s => W1.so[x] = W.so[x]
    BY <1>1, <2>2, PutSock
  <2>4. V = IF Blocked(W, s, {"read"}) # {} THEN HandOver(W1, s, {"read"}) ELSE [W1 EXCEPT !.so[s].rcv.sem = 1]
    BY <1>4 DEF sorwakeup, W1, PutSo, p
  <2> HIDE DEF W1
  <2>5. CASE Blocked(W, s, {"read"}) # {}
    <3>1. Blocked(W1, s, {"read"}) # {}
      BY <2>3, <2>5 DEF Blocked, Sleepers
    <3>2. V = HandOver(W1, s, {"read"})
      BY <2>4, <2>5
    <3>3. PICK t \in Tasks :
            /\ W1.task[t].on = s /\ W1.task[t].why \in {"read"} /\ W1.task[t].at = "blocked"
            /\ V.task[t].at = "ready" /\ V.task[t].on = s /\ V.task[t].why = W1.task[t].why
            /\ \A u \in Tasks : u # t => V.task[u] = W1.task[u]
      BY <2>3, <3>1, <3>2, HandOverIs
    <3>4. V \in SoWorld /\ V.so = W1.so
      BY <2>3, <3>1, <3>2, HandOverIs
    <3>5. Kept(W, V)
      BY <2>2, <2>3, <3>3, <3>4 DEF Kept, SameSock, LikeSock, SameTask
    <3>6. \A x \in AllSocks : Waits(V, x, {"write"}) = Waits(W, x, {"write"}) /\ Waits(V, x, Timeo) = Waits(W, x, Timeo)
      BY <2>3, <3>3 DEF Waits, Sleepers, Timeo
    <3>7. \A x \in AllSocks : x # s => Waits(V, x, {"read"}) = Waits(W, x, {"read"})
      BY <2>3, <3>3 DEF Waits, Sleepers
    <3>8. Waits(V, s, {"read"}) = {}
      BY <2>3, <3>3 DEF Waits, Sleepers, Core, Used, Using, Alike
    <3>9. \A x \in AllSocks : \A u \in Waits(W, x, {"write"}) \cup Waits(W, x, Timeo) : V.task[u] = W.task[u]
      BY <2>3, <3>3 DEF Waits, Sleepers, Timeo
    <3>10. \A x \in AllSocks : x # s => \A u \in Waits(W, x, {"read"}) : V.task[u] = W.task[u]
      BY <2>3, <3>3 DEF Waits, Sleepers
    <3>11. \A x \in AllSocks : x # s => V.so[x] = W.so[x]
      BY <2>3, <3>4
    <3>12. V.so[s] = p
      BY <2>3, <3>4
    <3>13. Counts(V)
      BY <2>2, <3>6, <3>7, <3>8, <3>9, <3>10, <3>11, <3>12 DEF Core, Counts, Counted
    <3> QED BY <2>2, <3>5, <3>6, <3>7, <3>8, <3>9, <3>10, <3>11, <3>12, <3>13
               DEF ReadWaits, WriteWaits, TimeoWaits, SameSock, LikeSock
  <2>6. CASE Blocked(W, s, {"read"}) = {}
    <3> DEFINE r == [p EXCEPT !.rcv.sem = 1]
    <3>1. V = PutSo(W1, s, r)
      BY <2>3, <2>4, <2>6 DEF PutSo
    <3>2. /\ r \in SoRec /\ r.rcv.want = 0 /\ r.rcv.sem = 1
          /\ SameSock(W.so[s], r) /\ r.snd = W.so[s].snd /\ r.timeo = W.so[s].timeo
      BY <2>2 DEF SoRec, SoBuf, SameSock, LikeSock
    <3> HIDE DEF r
    <3>3. V \in SoWorld /\ V.task = W1.task /\ V.so[s] = r /\ \A x \in AllSocks : x # s => V.so[x] = W1.so[x]
      BY <2>3, <3>1, <3>2, PutSock
    <3>4. V.task = W.task /\ \A x \in AllSocks : x # s => V.so[x] = W.so[x]
      BY <2>3, <3>3
    <3>5. Kept(W, V)
      BY <3>2, <3>3, <3>4 DEF Kept, SameSock, LikeSock, SameTask
    <3>6. \A x : \A which : Waits(V, x, which) = Waits(W, x, which)
      BY <3>4 DEF Waits, Sleepers
    <3>7. \A u \in Waits(W, s, {"read"}) : W.task[u].at # "blocked"
      BY <2>6 DEF Blocked, Waits
    <3>8. Counts(V)
      BY <2>1, <3>2, <3>3, <3>4, <3>6, <3>7 DEF Core, Counts, Counted
    <3> QED BY <3>2, <3>3, <3>4, <3>5, <3>6, <3>8 DEF ReadWaits, WriteWaits, TimeoWaits, SameSock, LikeSock
  <2> QED BY <2>5, <2>6
<1> QED
  BY <1>3, <1>4

\* After sowwakeup no writer waits without a give.
LEMMA sowwakeupOK ==
    ASSUME NEW X, NEW W, Core(W, X), NEW s \in AllSocks, NEW V, V = sowwakeup(W, s)
    PROVE  /\ Kept(W, V) /\ Counts(V) /\ WriteWaits(V, s)
           /\ \A x \in AllSocks : /\ TimeoWaits(W, x) => TimeoWaits(V, x)
                                  /\ ReadWaits(W, x) => ReadWaits(V, x)
                                  /\ x # s /\ WriteWaits(W, x) => WriteWaits(V, x)
<1> DEFINE b == W.so[s].snd
           p == [W.so[s] EXCEPT !.snd.want = @ - 1]
           W1 == PutSo(W, s, p)
<1>1. W \in SoWorld /\ W.so[s] \in SoRec /\ b \in SoBuf
  BY WorldIs DEF Core
<1>2. b.want \in Nat /\ b.sem \in {0, 1} /\ Counted(W, b, s, "write")
  BY <1>1 DEF SoBuf, Core, Counts
<1>3. CASE b.want = 0
  <2>1. V = W
    BY <1>3 DEF sowwakeup
  <2>2. Kept(W, W)
    BY <1>1 DEF Kept, SameSock, LikeSock, SameTask
  <2>3. WriteWaits(W, s)
    BY <1>2, <1>3 DEF Counted, WriteWaits
  <2> QED BY <2>1, <2>2, <2>3 DEF Core
<1>4. CASE b.want # 0
  <2>1. b.want = 1 /\ b.sem = 0 /\ Waits(W, s, {"write"}) # {}
    BY <1>2, <1>4 DEF Counted
  <2> DEFINE d == [b EXCEPT !.want = @ - 1]
  <2>7. d \in SoBuf /\ d.want = 0 /\ d.sem = 0 /\ d.cc = b.cc
    BY <1>1, <2>1 DEF SoBuf
  <2>8. p = [W.so[s] EXCEPT !.snd = d]
    OBVIOUS
  <2> HIDE DEF d
  <2>2. /\ p \in SoRec /\ p.snd \in SoBuf /\ p.snd.want = 0 /\ p.snd.sem = 0
        /\ SameSock(W.so[s], p) /\ p.rcv = W.so[s].rcv /\ p.timeo = W.so[s].timeo
    BY <1>1, <2>7, <2>8 DEF SoRec, SameSock, LikeSock
  <2> HIDE DEF p
  <2>3. W1 \in SoWorld /\ W1.task = W.task /\ W1.so[s] = p /\ \A x \in AllSocks : x # s => W1.so[x] = W.so[x]
    BY <1>1, <2>2, PutSock
  <2>4. V = IF Blocked(W, s, {"write"}) # {} THEN HandOver(W1, s, {"write"}) ELSE [W1 EXCEPT !.so[s].snd.sem = 1]
    BY <1>4 DEF sowwakeup, W1, PutSo, p
  <2> HIDE DEF W1
  <2>5. CASE Blocked(W, s, {"write"}) # {}
    <3>1. Blocked(W1, s, {"write"}) # {}
      BY <2>3, <2>5 DEF Blocked, Sleepers
    <3>2. V = HandOver(W1, s, {"write"})
      BY <2>4, <2>5
    <3>3. PICK t \in Tasks :
            /\ W1.task[t].on = s /\ W1.task[t].why \in {"write"} /\ W1.task[t].at = "blocked"
            /\ V.task[t].at = "ready" /\ V.task[t].on = s /\ V.task[t].why = W1.task[t].why
            /\ \A u \in Tasks : u # t => V.task[u] = W1.task[u]
      BY <2>3, <3>1, <3>2, HandOverIs
    <3>4. V \in SoWorld /\ V.so = W1.so
      BY <2>3, <3>1, <3>2, HandOverIs
    <3>5. Kept(W, V)
      BY <2>2, <2>3, <3>3, <3>4 DEF Kept, SameSock, LikeSock, SameTask
    <3>6. \A x \in AllSocks : Waits(V, x, {"read"}) = Waits(W, x, {"read"}) /\ Waits(V, x, Timeo) = Waits(W, x, Timeo)
      BY <2>3, <3>3 DEF Waits, Sleepers, Timeo
    <3>7. \A x \in AllSocks : x # s => Waits(V, x, {"write"}) = Waits(W, x, {"write"})
      BY <2>3, <3>3 DEF Waits, Sleepers
    <3>8. Waits(V, s, {"write"}) = {}
      BY <2>3, <3>3 DEF Waits, Sleepers, Core, Used, Using, Alike
    <3>9. \A x \in AllSocks : \A u \in Waits(W, x, {"read"}) \cup Waits(W, x, Timeo) : V.task[u] = W.task[u]
      BY <2>3, <3>3 DEF Waits, Sleepers, Timeo
    <3>10. \A x \in AllSocks : x # s => \A u \in Waits(W, x, {"write"}) : V.task[u] = W.task[u]
      BY <2>3, <3>3 DEF Waits, Sleepers
    <3>11. \A x \in AllSocks : x # s => V.so[x] = W.so[x]
      BY <2>3, <3>4
    <3>12. V.so[s] = p
      BY <2>3, <3>4
    <3>13. Counts(V)
      BY <2>2, <3>6, <3>7, <3>8, <3>9, <3>10, <3>11, <3>12 DEF Core, Counts, Counted
    <3> QED BY <2>2, <3>5, <3>6, <3>7, <3>8, <3>9, <3>10, <3>11, <3>12, <3>13
               DEF ReadWaits, WriteWaits, TimeoWaits, SameSock, LikeSock
  <2>6. CASE Blocked(W, s, {"write"}) = {}
    <3> DEFINE r == [p EXCEPT !.snd.sem = 1]
    <3>1. V = PutSo(W1, s, r)
      BY <2>3, <2>4, <2>6 DEF PutSo
    <3>2. /\ r \in SoRec /\ r.snd.want = 0 /\ r.snd.sem = 1
          /\ SameSock(W.so[s], r) /\ r.rcv = W.so[s].rcv /\ r.timeo = W.so[s].timeo
      BY <2>2 DEF SoRec, SoBuf, SameSock, LikeSock
    <3> HIDE DEF r
    <3>3. V \in SoWorld /\ V.task = W1.task /\ V.so[s] = r /\ \A x \in AllSocks : x # s => V.so[x] = W1.so[x]
      BY <2>3, <3>1, <3>2, PutSock
    <3>4. V.task = W.task /\ \A x \in AllSocks : x # s => V.so[x] = W.so[x]
      BY <2>3, <3>3
    <3>5. Kept(W, V)
      BY <3>2, <3>3, <3>4 DEF Kept, SameSock, LikeSock, SameTask
    <3>6. \A x : \A which : Waits(V, x, which) = Waits(W, x, which)
      BY <3>4 DEF Waits, Sleepers
    <3>7. \A u \in Waits(W, s, {"write"}) : W.task[u].at # "blocked"
      BY <2>6 DEF Blocked, Waits
    <3>8. Counts(V)
      BY <2>1, <3>2, <3>3, <3>4, <3>6, <3>7 DEF Core, Counts, Counted
    <3> QED BY <3>2, <3>3, <3>4, <3>5, <3>6, <3>8 DEF ReadWaits, WriteWaits, TimeoWaits, SameSock, LikeSock
  <2> QED BY <2>5, <2>6
<1> QED
  BY <1>3, <1>4

-----------------------------------------------------------------------------
(***************************************************************************)
(* One socket at a time.                                                   *)
(***************************************************************************)
\* All is well but for socket s.
But(W, X, s) ==
    Core(W, X) /\ \A x \in AllSocks : x # s => Reasons(W, x) /\ Sound(x, W.so[x])

\* All is well, from all but one.
LEMMA ButOK ==
    ASSUME NEW X, NEW W, NEW s \in AllSocks
    PROVE  SoOK(W, X) <=> But(W, X, s) /\ Reasons(W, s) /\ Sound(s, W.so[s])
  BY DEF SoOK, But, Core, Reasons

\* A wakeup leaves all the rest.
LEMMA ButKept ==
    ASSUME NEW X, NEW W, NEW V, NEW s \in AllSocks, But(W, X, s), Kept(W, V), Counts(V),
           \A x \in AllSocks : x # s /\ Reasons(W, x) => Reasons(V, x)
    PROVE  /\ But(V, X, s)
           /\ \A x \in AllSocks : Sound(x, W.so[x]) => Sound(x, V.so[x])
<1>1. V \in SoWorld /\ \A x \in AllSocks : SameSock(W.so[x], V.so[x])
  BY DEF Kept
<1>2. Used(V, X)
  <2>1. X \subseteq Tasks /\ \A t \in Tasks : SameTask(W.task[t], V.task[t])
    BY DEF Kept, But, Core, Used, Using
  <2>2. \A t \in Tasks \ X : V.task[t].at \notin {"going", "blocked"}
    BY <2>1 DEF But, Core, Used, Using, SameTask
  <2>3. ASSUME NEW t \in X, V.task[t].at # "idle"
        PROVE  Using(V, X, t)
    <3>1. W.task[t].at # "idle"
      BY <2>1, <2>3 DEF SameTask
    <3>3. \A u \in X : /\ V.task[u].on = W.task[u].on /\ V.task[u].why = W.task[u].why
                       /\ V.task[u].at # "idle" => W.task[u].at # "idle"
      BY <2>1 DEF SameTask
    <3>2. W.task[t].on \in AllSocks
      BY <3>1 DEF But, Core, Used, Using
    <3>4. Using(W, X, t)
      BY <3>1 DEF But, Core, Used
    <3>5. /\ V.so[W.task[t].on].alive = W.so[W.task[t].on].alive /\ V.so[W.task[t].on].fd = W.so[W.task[t].on].fd
          /\ V.so[W.task[t].on].flags = W.so[W.task[t].on].flags
      BY <1>1, <3>2 DEF SameSock, LikeSock
    <3>6. V.task[t].on = W.task[t].on /\ V.task[t].why = W.task[t].why
      BY <3>3
    <3> QED BY <3>3, <3>4, <3>5, <3>6 DEF Using
  <2> QED BY <2>1, <2>2, <2>3 DEF Used, Using
<1>3. Queued(V)
  BY <1>1 DEF But, Core, Queued, SameSock, LikeSock, AllSocks
<1>4. \A x \in AllSocks : Sound(x, W.so[x]) => Sound(x, V.so[x])
  BY <1>1 DEF Sound, Linked, SameSock, LikeSock
<1> QED
  BY <1>1, <1>2, <1>3, <1>4 DEF But, Core

\* The socket v after a change of r that nobody's queue or descriptor shows.
Plain(r, v) ==
    /\ v \in SoRec /\ v.alive = r.alive /\ v.fd = r.fd /\ v.head = r.head /\ v.q0 = r.q0 /\ v.q = r.q
    /\ v.timeo = r.timeo /\ v.rcv.want = r.rcv.want /\ v.rcv.sem = r.rcv.sem
    /\ v.snd.want = r.snd.want /\ v.snd.sem = r.snd.sem
    /\ r.flags \cap {"cantrcvmore", "cantsendmore"} \subseteq v.flags

\* Such a change of a socket leaves the others.
LEMMA PlainOK ==
    ASSUME NEW X, NEW W, NEW s \in AllSocks, But(W, X, s), NEW r, Plain(W.so[s], r),
           NEW V, V = PutSo(W, s, r)
    PROVE  But(V, X, s) /\ V \in SoWorld /\ V.so[s] = r /\ V.task = W.task /\ \A x \in AllSocks : x # s => V.so[x] = W.so[x]
<1>1. W \in SoWorld /\ r \in SoRec
  BY DEF But, Core, Plain
<1>2. V \in SoWorld /\ V.task = W.task /\ V.so[s] = r /\ \A x \in AllSocks : x # s => V.so[x] = W.so[x]
  BY <1>1, PutSock
<1>3. \A x : \A which : Waits(V, x, which) = Waits(W, x, which)
  BY <1>2 DEF Waits, Sleepers
<1>4. Counts(V)
  BY <1>2, <1>3 DEF But, Core, Counts, Counted, Plain
<1>5. Used(V, X)
  <2>1. Used(W, X)
    BY DEF But, Core
  <2>2. \A x \in AllSocks : /\ V.so[x].alive = W.so[x].alive /\ V.so[x].fd = W.so[x].fd
                            /\ W.so[x].flags \cap {"cantrcvmore", "cantsendmore"} \subseteq V.so[x].flags
    BY <1>2 DEF Plain
  <2>3. ASSUME NEW t \in X, V.task[t].at # "idle"
        PROVE  Using(V, X, t)
    <3>1. Using(W, X, t)
      BY <1>2, <2>1, <2>3 DEF Used
    <3>2. W.task[t].on \in AllSocks
      BY <3>1 DEF Using
    <3> QED BY <1>2, <2>2, <3>1, <3>2 DEF Using
  <2> QED BY <1>2, <2>1, <2>3 DEF Used
<1>6. Listener \in AllSocks /\ Conns \subseteq AllSocks
  BY DEF AllSocks
<1>7. Queued(V)
  BY <1>2, <1>6, ZenonT(60) DEF But, Core, Queued, Plain
<1>8. \A x \in AllSocks : x # s => Reasons(V, x) /\ Sound(x, V.so[x])
  BY <1>2, <1>3 DEF But, Reasons, ReadWaits, WriteWaits, TimeoWaits
<1> QED
  BY <1>2, <1>4, <1>5, <1>7, <1>8 DEF But, Core

\* All three semaphores of s are given, in one order and in another.
LEMMA AllWoken ==
    ASSUME NEW X, NEW W, NEW s \in AllSocks, But(W, X, s), NEW V,
           \/ V = sorwakeup(sowwakeup(WakeTimeo(W, s), s), s)
           \/ V = sowwakeup(sorwakeup(WakeTimeo(W, s), s), s)
    PROVE  But(V, X, s) /\ Reasons(V, s) /\ Kept(W, V)
<1> DEFINE A == WakeTimeo(W, s)
<1>1. Core(W, X)
  BY DEF But
<1>2. But(A, X, s) /\ Core(A, X) /\ TimeoWaits(A, s) /\ Kept(W, A)
  BY <1>1, WakeTimeoOK, ButKept DEF Reasons, But
<1>3. CASE V = sorwakeup(sowwakeup(A, s), s)
  <2> DEFINE B == sowwakeup(A, s)
  <2> HIDE DEF A
  <2>1. But(B, X, s) /\ Core(B, X) /\ TimeoWaits(B, s) /\ WriteWaits(B, s) /\ Kept(A, B)
    BY <1>2, sowwakeupOK, ButKept DEF Reasons, But
  <2> HIDE DEF B
  <2>2. V = sorwakeup(B, s)
    BY <1>3 DEF B
  <2>3. But(V, X, s) /\ TimeoWaits(V, s) /\ WriteWaits(V, s) /\ ReadWaits(V, s) /\ Kept(B, V)
    BY <2>1, <2>2, sorwakeupOK, ButKept DEF Reasons, But
  <2> QED BY <1>2, <2>1, <2>3 DEF Reasons, Kept, SameSock, LikeSock, SameTask
<1>4. CASE V = sowwakeup(sorwakeup(A, s), s)
  <2> DEFINE B == sorwakeup(A, s)
  <2> HIDE DEF A
  <2>1. But(B, X, s) /\ Core(B, X) /\ TimeoWaits(B, s) /\ ReadWaits(B, s) /\ Kept(A, B)
    BY <1>2, sorwakeupOK, ButKept DEF Reasons, But
  <2> HIDE DEF B
  <2>2. V = sowwakeup(B, s)
    BY <1>4 DEF B
  <2>3. But(V, X, s) /\ TimeoWaits(V, s) /\ WriteWaits(V, s) /\ ReadWaits(V, s) /\ Kept(B, V)
    BY <2>1, <2>2, sowwakeupOK, ButKept DEF Reasons, But
  <2> QED BY <1>2, <2>1, <2>3 DEF Reasons, Kept, SameSock, LikeSock, SameTask
<1> QED
  BY <1>3, <1>4

-----------------------------------------------------------------------------
(***************************************************************************)
(* The end of a socket.                                                    *)
(***************************************************************************)
InQueues(W, x) == Member(W.so[Listener].q0, x) \/ Member(W.so[Listener].q, x)

\* Whether the tasks use the sockets well depends on a few fields of these.
LEMMA UsedSame ==
    ASSUME NEW X, NEW W, NEW V, Used(W, X), V.task = W.task,
           \A t \in X : W.task[t].at # "idle" => LET x == W.task[t].on IN
             V.so[x].alive = W.so[x].alive /\ V.so[x].fd = W.so[x].fd /\ V.so[x].flags = W.so[x].flags
    PROVE  Used(V, X)
<1>1. X \subseteq Tasks /\ \A t \in Tasks \ X : V.task[t].at \notin {"going", "blocked"}
  BY DEF Used
<1>2. ASSUME NEW t \in X, V.task[t].at # "idle"
      PROVE  Using(V, X, t)
  <2> DEFINE x == W.task[t].on
  <2>1. W.task[t].at # "idle" /\ V.task[t].on = x /\ V.so[x].alive = W.so[x].alive /\ V.so[x].fd = W.so[x].fd
        /\ V.so[x].flags = W.so[x].flags
    BY <1>2
  <2>2. Using(W, X, t)
    BY <2>1 DEF Used
  <2> QED BY <2>1, <2>2 DEF Using
<1> QED
  BY <1>1, <1>2 DEF Used

\* The names of the sockets.
LEMMA SockNames ==
    /\ Listener \in AllSocks /\ Conns \subseteq AllSocks /\ Listener \notin Conns /\ Listener # "none"
    /\ \A x \in AllSocks : x # Listener => x \in Conns
  BY SocketAssumption DEF AllSocks

\* Free memory is a socket that is not there.
LEMMA NoSockIs ==
    /\ NoSock \in SoRec /\ \A s \in AllSocks : Sound(s, NoSock)
    /\ ~NoSock.alive /\ NoSock.head = "none" /\ NoSock.q0 = <<>> /\ NoSock.q = <<>> /\ NoSock.timeo = 0
    /\ NoSock.rcv.want = 0 /\ NoSock.rcv.sem = 0 /\ NoSock.snd.want = 0 /\ NoSock.snd.sem = 0
    /\ NoSock.flags = {} /\ ~NoSock.error /\ NoSock.pcb = "none" /\ ~NoSock.fd /\ ~NoSock.listen
    /\ NoSock.rcv.cc = 0 /\ NoSock.snd.cc = 0
<1>1. Buf \in SoBuf /\ Buf.want = 0 /\ Buf.sem = 0 /\ Buf.cc = 0
  BY DEF Buf, SoBuf
<1>2. <<>> \in Seq(Conns)
  OBVIOUS
<1>3. NoSock \in SoRec
  BY <1>1, <1>2 DEF NoSock, SoRec
<1>4. \A s \in AllSocks : Sound(s, NoSock)
  BY SockNames DEF NoSock, Sound, Linked
<1> QED
  BY <1>1, <1>3, <1>4 DEF NoSock

\* The listening socket when s has left its queues.
LeftBy(h, s) == [h EXCEPT !.q0 = RemoveFirst(@, s), !.q = RemoveFirst(@, s)]

\* What this leaves alone, and who is still in the queues.
HasLeft(h, s, g) ==
    /\ g \in SoRec /\ g.alive = h.alive /\ g.fd = h.fd /\ g.flags = h.flags /\ g.error = h.error
    /\ g.head = h.head /\ g.listen = h.listen /\ g.pcb = h.pcb /\ g.timeo = h.timeo
    /\ g.rcv = h.rcv /\ g.snd = h.snd
    /\ NoDup(g.q0) /\ NoDup(g.q) /\ Len(g.q0) + Len(g.q) <= Len(h.q0) + Len(h.q)
    /\ Len(g.q0) \in Nat /\ Len(g.q) \in Nat /\ Len(h.q0) \in Nat /\ Len(h.q) \in Nat
    /\ \A x : (Member(g.q0, x) <=> Member(h.q0, x) /\ x # s) /\ (Member(g.q, x) <=> Member(h.q, x) /\ x # s)
    /\ h.q = <<>> => g.q = <<>>

\* Removing a socket from the queues.
LEMMA LeftByIs ==
    ASSUME NEW h \in SoRec, NoDup(h.q0), NoDup(h.q), NEW s, NEW g, g = LeftBy(h, s)
    PROVE  HasLeft(h, s, g)
<1> DEFINE a == RemoveFirst(h.q0, s)
           b == RemoveFirst(h.q, s)
<1>1. h.q0 \in Seq(Conns) /\ h.q \in Seq(Conns)
  BY DEF SoRec
<1>2. /\ a \in Seq(Conns) /\ NoDup(a) /\ Len(a) <= Len(h.q0) /\ Len(a) \in Nat /\ Len(h.q0) \in Nat
      /\ \A x : Member(a, x) <=> Member(h.q0, x) /\ x # s
  BY <1>1, RemoveOK
<1>3. /\ b \in Seq(Conns) /\ NoDup(b) /\ Len(b) <= Len(h.q) /\ Len(b) \in Nat /\ Len(h.q) \in Nat
      /\ \A x : Member(b, x) <=> Member(h.q, x) /\ x # s
  BY <1>1, RemoveOK
<1>4. h.q = <<>> => b = <<>>
  BY DEF RemoveFirst
<1>5. g = [h EXCEPT !.q0 = a, !.q = b]
  BY DEF LeftBy
<1> HIDE DEF a, b
<1>6. /\ g \in SoRec /\ g.q0 = a /\ g.q = b /\ g.alive = h.alive /\ g.fd = h.fd /\ g.flags = h.flags
      /\ g.error = h.error /\ g.head = h.head /\ g.listen = h.listen /\ g.pcb = h.pcb /\ g.timeo = h.timeo
      /\ g.rcv = h.rcv /\ g.snd = h.snd
  BY <1>2, <1>3, <1>5 DEF SoRec
<1>7. Len(g.q0) + Len(g.q) <= Len(h.q0) + Len(h.q)
  <2>1. Len(g.q0) = Len(a) /\ Len(g.q) = Len(b)
    BY <1>6
  <2>2. Len(a) <= Len(h.q0) /\ Len(a) \in Nat /\ Len(h.q0) \in Nat /\ Len(b) <= Len(h.q) /\ Len(b) \in Nat /\ Len(h.q) \in Nat
    BY <1>2, <1>3
  <2>3. \A i, j, k, l \in Nat : i <= k /\ j <= l => i + j <= k + l
    OBVIOUS
  <2> QED BY <2>1, <2>2, <2>3, Zenon
<1>8. Len(g.q0) \in Nat /\ Len(g.q) \in Nat /\ NoDup(g.q0) /\ NoDup(g.q) /\ (h.q = <<>> => g.q = <<>>)
      /\ \A x : (Member(g.q0, x) <=> Member(h.q0, x) /\ x # s) /\ (Member(g.q, x) <=> Member(h.q, x) /\ x # s)
  BY <1>2, <1>3, <1>4, <1>6, Zenon
<1> QED
  BY <1>2, <1>3, <1>6, <1>7, <1>8 DEF HasLeft

\* A connection that leaves the queues and becomes r, and nobody sleeps in it.
LEMMA GoneOK ==
    ASSUME NEW X, NEW W, NEW s \in Conns, But(W, X, s), NEW r \in SoRec, r.head = "none",
           r.rcv = W.so[s].rcv \/ (r.rcv.want = 0 /\ r.rcv.sem = 0),
           r.snd = W.so[s].snd \/ (r.snd.want = 0 /\ r.snd.sem = 0),
           \A t \in X : W.task[t].at # "idle" => W.task[t].on # s,
           NEW V, V = PutSo(PutSo(W, Listener, LeftBy(W.so[Listener], s)), s, r)
    PROVE  /\ But(V, X, s) /\ Reasons(V, s) /\ V.task = W.task /\ V.so[s] = r
           /\ V.so[Listener] = LeftBy(W.so[Listener], s)
           /\ \A x : InQueues(V, x) <=> InQueues(W, x) /\ x # s
<1> DEFINE h == W.so[Listener]
           g == LeftBy(h, s)
           U == PutSo(W, Listener, g)
<1>1. W \in SoWorld /\ h \in SoRec /\ NoDup(h.q0) /\ NoDup(h.q)
  BY SockNames, WorldIs DEF But, Core, Queued
<1>2. HasLeft(h, s, g) /\ g \in SoRec
  <2>1. HasLeft(h, s, g)
    <3> HIDE DEF h
    <3> QED BY <1>1, LeftByIs
  <2> QED BY <2>1 DEF HasLeft
<1> HIDE DEF h, g
<1>3. U \in SoWorld /\ U.task = W.task /\ U.so[Listener] = g /\ \A x \in AllSocks : x # Listener => U.so[x] = W.so[x]
  BY <1>1, <1>2, SockNames, PutSock
<1>4. V = PutSo(U, s, r)
  BY DEF g, h
<1> HIDE DEF U
<1>5. V \in SoWorld /\ V.task = U.task /\ V.so[s] = r /\ \A x \in AllSocks : x # s => V.so[x] = U.so[x]
  BY <1>3, <1>4, SockNames, PutSock
<1>6. V.task = W.task /\ V.so[Listener] = g /\ \A x \in AllSocks : x # s /\ x # Listener => V.so[x] = W.so[x]
  BY <1>3, <1>5, SockNames
<1>7. Used(V, X)
  <2>1. Used(W, X)
    BY DEF But, Core
  <2>2. \A t \in X : W.task[t].at # "idle" => LET x == W.task[t].on IN
          V.so[x].alive = W.so[x].alive /\ V.so[x].fd = W.so[x].fd /\ V.so[x].flags = W.so[x].flags
    <3>1. \A x \in AllSocks : x # s => V.so[x].alive = W.so[x].alive /\ V.so[x].fd = W.so[x].fd /\ V.so[x].flags = W.so[x].flags
      BY <1>2, <1>6 DEF HasLeft, h
    <3>2. \A t \in X : W.task[t].at # "idle" => W.task[t].on \in AllSocks
      BY <2>1 DEF Used, Using
    <3> QED BY <3>1, <3>2
  <2> QED BY <1>6, <2>1, <2>2, UsedSame, ZenonT(60)
<1>8. \A x : \A which : Waits(V, x, which) = Waits(W, x, which)
  BY <1>6 DEF Waits, Sleepers
<1>9. \A which : Waits(V, s, which) = {}
  BY <1>6 DEF Waits, Sleepers, But, Core, Used
<1>10. \A x \in AllSocks : x # s => V.so[x].rcv = W.so[x].rcv /\ V.so[x].snd = W.so[x].snd /\ V.so[x].timeo = W.so[x].timeo
  BY <1>2, <1>6 DEF h, HasLeft
<1>11. Counted(W, W.so[s].rcv, s, "read") /\ Counted(W, W.so[s].snd, s, "write")
  BY SockNames DEF But, Core, Counts
<1>12. Counted(V, V.so[s].rcv, s, "read") /\ Counted(V, V.so[s].snd, s, "write")
  BY <1>5, <1>8, <1>9, <1>11 DEF Counted
<1>13. Counts(V)
  <2>1. Counts(W)
    BY DEF But, Core
  <2>2. ASSUME NEW x \in AllSocks, x # s
        PROVE  Counted(V, V.so[x].rcv, x, "read") /\ Counted(V, V.so[x].snd, x, "write")
    <3>1. Counted(W, W.so[x].rcv, x, "read") /\ Counted(W, W.so[x].snd, x, "write")
      BY <2>1 DEF Counts
    <3>2. V.so[x].rcv = W.so[x].rcv /\ V.so[x].snd = W.so[x].snd
      BY <1>10, <2>2
    <3>3. Counted(V, W.so[x].rcv, x, "read")
      BY <1>6, <1>8, <3>1 DEF Counted
    <3>4. Counted(V, W.so[x].snd, x, "write")
      BY <1>6, <1>8, <3>1 DEF Counted
    <3> QED BY <3>2, <3>3, <3>4
  <2>3. ASSUME NEW x \in AllSocks, NEW t \in Waits(V, x, Timeo), V.task[t].at = "blocked"
        PROVE  V.so[x].timeo = 0
    <3>1. x # s /\ t \in Waits(W, x, Timeo)
      BY <1>8, <1>9, <2>3
    <3> QED BY <1>6, <1>10, <2>1, <2>3, <3>1 DEF Counts
  <2> QED BY <1>12, <2>2, <2>3 DEF Counts
<1>14. Queued(V)
  <2>1. /\ \A x \in Conns : ~ (Member(h.q0, x) /\ Member(h.q, x))
        /\ \A x \in Conns : W.so[x].head = Listener <=> Member(h.q0, x) \/ Member(h.q, x)
        /\ Len(h.q0) + Len(h.q) <= (3 * qlimit) \div 2 + 1
    BY DEF But, Core, Queued, h
  <2>2. (3 * qlimit) \div 2 \in Int
    BY SocketAssumption
  <2>3. Len(g.q0) + Len(g.q) <= (3 * qlimit) \div 2 + 1
    <3>1. Len(g.q0) + Len(g.q) <= Len(h.q0) + Len(h.q) /\ Len(g.q0) \in Nat /\ Len(g.q) \in Nat /\ Len(h.q0) \in Nat /\ Len(h.q) \in Nat
      BY <1>2 DEF HasLeft
    <3>2. \A i, j, k, l \in Nat : \A m \in Int : i + j <= k + l /\ k + l <= m + 1 => i + j <= m + 1
      OBVIOUS
    <3> DEFINE b == (3 * qlimit) \div 2
    <3>3. Len(h.q0) + Len(h.q) <= b + 1 /\ b \in Int
      BY <2>1, <2>2
    <3> HIDE DEF b
    <3>4. Len(g.q0) + Len(g.q) <= b + 1
      BY <3>1, <3>2, <3>3, Zenon
    <3> QED BY <3>4 DEF b
  <2>4. \A x \in Conns : V.so[x].head = Listener <=> Member(g.q0, x) \/ Member(g.q, x)
    BY <1>2, <1>5, <1>6, <2>1, SockNames DEF HasLeft
  <2>5. \A x \in Conns : ~ (Member(g.q0, x) /\ Member(g.q, x))
    BY <1>2, <2>1 DEF HasLeft
  <2> QED BY <1>2, <1>6, <2>3, <2>4, <2>5 DEF Queued, HasLeft
<1>15. Reasons(V, s)
  BY <1>9 DEF Reasons, ReadWaits, WriteWaits, TimeoWaits
<1>16. ASSUME NEW x \in AllSocks, x # s PROVE Reasons(V, x) /\ Sound(x, V.so[x])
  <2>1. Reasons(W, x) /\ Sound(x, W.so[x])
    BY <1>16 DEF But
  <2>2. CASE x # Listener
    BY <1>6, <1>8, <1>16, <2>1, <2>2 DEF Reasons, ReadWaits, WriteWaits, TimeoWaits
  <2>3. CASE x = Listener
    <3>1. V.so[x] = g /\ W.so[x] = h
      BY <1>6, <2>3 DEF h
    <3>2. /\ g.alive = h.alive /\ g.fd = h.fd /\ g.flags = h.flags /\ g.error = h.error /\ g.head = h.head
          /\ g.listen = h.listen /\ g.pcb = h.pcb /\ g.timeo = h.timeo /\ g.rcv = h.rcv /\ g.snd = h.snd
          /\ (h.q = <<>> => g.q = <<>>)
      BY <1>2 DEF HasLeft
    <3>3. Sound(x, V.so[x])
      BY <2>1, <3>1, <3>2 DEF Sound, Linked
    <3>4. ReadWaits(V, x)
      BY <1>8, <2>1, <3>1, <3>2 DEF Reasons, ReadWaits
    <3>5. WriteWaits(V, x)
      BY <1>8, <2>1, <3>1, <3>2 DEF Reasons, WriteWaits
    <3>6. TimeoWaits(V, x)
      BY <1>6, <1>8, <2>1, <3>1, <3>2 DEF Reasons, TimeoWaits
    <3> QED BY <3>3, <3>4, <3>5, <3>6 DEF Reasons
  <2> QED BY <2>2, <2>3
<1>17. \A x : InQueues(V, x) <=> InQueues(W, x) /\ x # s
  BY <1>2, <1>6 DEF InQueues, h, HasLeft
<1> QED
  BY <1>5, <1>6, <1>7, <1>13, <1>14, <1>15, <1>16, <1>17 DEF But, Core, g, h

Flags == {"connected", "connecting", "disconnecting", "cantrcvmore", "cantsendmore"}

\* Only s changes, in its flags, and some are woken.
Turned(W, V, s, F) ==
    /\ V \in SoWorld /\ LikeSock(W.so[s], V.so[s]) /\ V.so[s].flags = F
    /\ \A x \in AllSocks : x # s => SameSock(W.so[x], V.so[x])
    /\ \A t \in Tasks : SameTask(W.task[t], V.task[t])

\* A change of the flags.
LEMMA FlagOK ==
    ASSUME NEW X, NEW W, NEW s \in AllSocks, But(W, X, s),
           NEW off, off \cap {"cantrcvmore", "cantsendmore"} = {}, NEW on \in SUBSET Flags,
           NEW V, V = Flag(W, s, off, on)
    PROVE  But(V, X, s) /\ Turned(W, V, s, (W.so[s].flags \ off) \cup on)
<1> DEFINE r == W.so[s]
           F == (r.flags \ off) \cup on
           v == [r EXCEPT !.flags = F]
<1>1. W \in SoWorld /\ r \in SoRec
  BY WorldIs DEF But, Core
<1>2. F \in SUBSET Flags /\ r.flags \cap {"cantrcvmore", "cantsendmore"} \subseteq F
  BY <1>1 DEF SoRec, Flags
<1>3. V = PutSo(W, s, v)
  BY DEF Flag, PutSo
<1> HIDE DEF F
<1>4. Plain(r, v) /\ LikeSock(r, v) /\ v.flags = F
  BY <1>1, <1>2 DEF SoRec, Plain, LikeSock, Flags
<1> HIDE DEF v
<1>5. But(V, X, s) /\ V \in SoWorld /\ V.so[s] = v /\ V.task = W.task /\ \A x \in AllSocks : x # s => V.so[x] = W.so[x]
  BY <1>3, <1>4, PlainOK
<1>6. Turned(W, V, s, F)
  BY <1>4, <1>5 DEF Turned, SameSock, LikeSock, SameTask
<1> QED
  BY <1>5, <1>6 DEF F

\* Flags change and everybody in s is woken.
LEMMA TurnedOK ==
    ASSUME NEW X, NEW W, NEW s \in AllSocks, But(W, X, s), NEW F, NEW U, But(U, X, s), Turned(W, U, s, F), NEW V,
           \/ V = sorwakeup(sowwakeup(WakeTimeo(U, s), s), s)
           \/ V = sowwakeup(sorwakeup(WakeTimeo(U, s), s), s)
    PROVE  But(V, X, s) /\ Reasons(V, s) /\ Turned(W, V, s, F)
<1>1. But(V, X, s) /\ Reasons(V, s) /\ Kept(U, V)
  BY AllWoken
<1>2. Turned(W, V, s, F)
  <2>1. V \in SoWorld
    BY <1>1 DEF Kept
  <2>2. LikeSock(W.so[s], V.so[s]) /\ V.so[s].flags = F
    BY <1>1 DEF Turned, Kept, SameSock, LikeSock
  <2>3. ASSUME NEW x \in AllSocks, x # s PROVE SameSock(W.so[x], V.so[x])
    <3>1. SameSock(W.so[x], U.so[x]) /\ SameSock(U.so[x], V.so[x])
      BY <1>1, <2>3 DEF Turned, Kept
    <3> QED BY <3>1 DEF SameSock, LikeSock
  <2>4. ASSUME NEW t \in Tasks PROVE SameTask(W.task[t], V.task[t])
    <3>1. SameTask(W.task[t], U.task[t]) /\ SameTask(U.task[t], V.task[t])
      BY <1>1 DEF Turned, Kept
    <3> QED BY <3>1 DEF SameTask
  <2> QED BY <2>1, <2>2, <2>3, <2>4 DEF Turned
<1> QED
  BY <1>1, <1>2

\* The end of a connection.
LEMMA soisdisconnectedOK ==
    ASSUME NEW X, NEW W, NEW s \in AllSocks, But(W, X, s), NEW V, V = soisdisconnected(W, s)
    PROVE  But(V, X, s) /\ Reasons(V, s)
           /\ Turned(W, V, s, (W.so[s].flags \ {"connecting", "connected", "disconnecting"}) \cup {"cantrcvmore", "cantsendmore"})
<1> DEFINE U == Flag(W, s, {"connecting", "connected", "disconnecting"}, {"cantrcvmore", "cantsendmore"})
           F == (W.so[s].flags \ {"connecting", "connected", "disconnecting"}) \cup {"cantrcvmore", "cantsendmore"}
<1>1. But(U, X, s) /\ Turned(W, U, s, F)
  <2>1. {"cantrcvmore", "cantsendmore"} \in SUBSET Flags
    BY DEF Flags
  <2>2. {"connecting", "connected", "disconnecting"} \cap {"cantrcvmore", "cantsendmore"} = {}
    OBVIOUS
  <2> QED BY <2>1, <2>2, FlagOK
<1>2. V = sorwakeup(sowwakeup(WakeTimeo(U, s), s), s)
  BY DEF soisdisconnected
<1> HIDE DEF U, F
<1>3. But(V, X, s) /\ Reasons(V, s) /\ Turned(W, V, s, F)
  BY <1>1, <1>2, TurnedOK
<1> QED
  BY <1>3 DEF F

\* The beginning of the end.
LEMMA soisdisconnectingOK ==
    ASSUME NEW X, NEW W, NEW s \in AllSocks, But(W, X, s), NEW V, V = soisdisconnecting(W, s)
    PROVE  But(V, X, s) /\ Reasons(V, s)
           /\ Turned(W, V, s, (W.so[s].flags \ {"connecting"}) \cup {"disconnecting", "cantrcvmore", "cantsendmore"})
<1> DEFINE U == Flag(W, s, {"connecting"}, {"disconnecting", "cantrcvmore", "cantsendmore"})
           F == (W.so[s].flags \ {"connecting"}) \cup {"disconnecting", "cantrcvmore", "cantsendmore"}
<1>1. But(U, X, s) /\ Turned(W, U, s, F)
  <2>1. {"disconnecting", "cantrcvmore", "cantsendmore"} \in SUBSET Flags
    BY DEF Flags
  <2>2. {"connecting"} \cap {"cantrcvmore", "cantsendmore"} = {}
    OBVIOUS
  <2> QED BY <2>1, <2>2, FlagOK
<1>2. V = sorwakeup(sowwakeup(WakeTimeo(U, s), s), s)
  BY DEF soisdisconnecting
<1> HIDE DEF U, F
<1>3. But(V, X, s) /\ Reasons(V, s) /\ Turned(W, V, s, F)
  BY <1>1, <1>2, TurnedOK
<1> QED
  BY <1>3 DEF F

\* The queues stay when a socket leaves that is in none.
LEMMA LeftAlone ==
    ASSUME NEW X, NEW W, NEW s \in Conns, Core(W, X), W.so[s].head = "none"
    PROVE  PutSo(W, Listener, LeftBy(W.so[Listener], s)) = W
<1> DEFINE h == W.so[Listener]
<1>1. W \in SoWorld /\ W.so \in [AllSocks -> SoRec] /\ h \in SoRec
  BY SockNames, WorldIs DEF Core
<1>2. ~Member(h.q0, s) /\ ~Member(h.q, s)
  BY SockNames DEF Core, Queued
<1>3. RemoveFirst(h.q0, s) = h.q0 /\ RemoveFirst(h.q, s) = h.q
  BY <1>2 DEF RemoveFirst, Member
<1>4. LeftBy(h, s) = h
  BY <1>1, <1>3 DEF LeftBy, SoRec
<1>5. PutSo(W, Listener, h) = W
  BY <1>1 DEF PutSo, SoWorld
<1> QED BY <1>4, <1>5

\* A socket that is in no queue and that nobody sleeps in may become anything.
LEMMA AloneOK ==
    ASSUME NEW X, NEW W, NEW s \in Conns, But(W, X, s), W.so[s].head = "none", NEW r \in SoRec, r.head = "none",
           r.rcv = W.so[s].rcv \/ (r.rcv.want = 0 /\ r.rcv.sem = 0),
           r.snd = W.so[s].snd \/ (r.snd.want = 0 /\ r.snd.sem = 0),
           \A t \in X : W.task[t].at # "idle" => W.task[t].on # s,
           NEW V, V = PutSo(W, s, r)
    PROVE  But(V, X, s) /\ Reasons(V, s) /\ V.task = W.task /\ V.so[s] = r /\ V.so[Listener] = W.so[Listener]
<1>1. PutSo(W, Listener, LeftBy(W.so[Listener], s)) = W
  BY LeftAlone DEF But
<1>2. V = PutSo(PutSo(W, Listener, LeftBy(W.so[Listener], s)), s, r)
  BY <1>1
<1>3. But(V, X, s) /\ Reasons(V, s) /\ V.task = W.task /\ V.so[s] = r
  BY <1>2, GoneOK
<1>4. V.so[Listener] = W.so[Listener]
  BY SockNames, PutSock DEF But, Core
<1> QED BY <1>3, <1>4

\* A socket that nothing is linked to any more is freed, and is in no queue.
LEMMA sofreeOK ==
    ASSUME NEW X, NEW W, NEW s \in Conns, But(W, X, s), Reasons(W, s), Linked(s, W.so[s]),
           NEW V, V = sofree(W, s)
    PROVE  /\ SoOK(V, X) /\ V.task = W.task /\ V.so[Listener].alive = W.so[Listener].alive
           /\ \A x : InQueues(V, x) => InQueues(W, x)
           /\ W.so[s].pcb = "none" /\ ~W.so[s].fd => ~InQueues(V, s)
           /\ W.so[s].pcb # "none" \/ W.so[s].fd => V = W
<1> DEFINE h == W.so[Listener]
           r == W.so[s]
<1>1. s \in AllSocks /\ s # Listener /\ W \in SoWorld /\ h \in SoRec /\ r \in SoRec
  BY SockNames, WorldIs DEF But, Core
<1>2. CASE r.pcb # "none" \/ r.fd
  <2>1. V = W
    BY <1>2 DEF sofree
  <2>2. Sound(s, r)
    BY <1>2 DEF Sound
  <2> QED BY <1>1, <1>2, <2>1, <2>2, ButOK
<1>3. CASE r.pcb = "none" /\ ~r.fd
  <2>1. V = [soqremque(W, s) EXCEPT !.so[s] = NoSock]
    BY <1>3 DEF sofree
  <2>2. V = PutSo(PutSo(W, Listener, LeftBy(h, s)), s, NoSock)
    <3>1. W.so \in [AllSocks -> SoRec]
      BY <1>1, WorldIs
    <3>2. CASE r.head = "none"
      <4>1. V = PutSo(W, s, NoSock)
        BY <2>1, <3>2 DEF soqremque, PutSo
      <4>2. PutSo(W, Listener, LeftBy(h, s)) = W
        BY <3>2, LeftAlone DEF But
      <4> QED BY <4>1, <4>2
    <3>3. CASE r.head # "none"
      <4>1. r.head = Listener
        BY <1>1, <3>3 DEF SoRec
      <4>2. soqremque(W, s) = [W EXCEPT !.so[Listener].q0 = RemoveFirst(@, s), !.so[Listener].q = RemoveFirst(@, s), !.so[s].head = "none"]
        BY <3>3, <4>1 DEF soqremque
      <4> DEFINE f == [W.so EXCEPT ![Listener].q0 = RemoveFirst(@, s), ![Listener].q = RemoveFirst(@, s), ![s].head = "none", ![s] = NoSock]
                 g == [W.so EXCEPT ![Listener] = LeftBy(h, s), ![s] = NoSock]
      <4>3. V = [W EXCEPT !.so = f]
        BY <2>1, <4>2
      <4>4. f = g
        BY <1>1, <3>1 DEF LeftBy
      <4> QED BY <4>3, <4>4 DEF PutSo
    <3> QED BY <3>2, <3>3
  <2>3. \A t \in X : W.task[t].at # "idle" => W.task[t].on # s
    BY <1>3 DEF But, Core, Used, Using
  <2>4. /\ But(V, X, s) /\ Reasons(V, s) /\ V.task = W.task /\ V.so[s] = NoSock
        /\ V.so[Listener] = LeftBy(h, s) /\ \A x : InQueues(V, x) <=> InQueues(W, x) /\ x # s
    BY <2>2, <2>3, NoSockIs, GoneOK
  <2>5. SoOK(V, X)
    BY <1>1, <2>4, ButOK, NoSockIs
  <2>6. LeftBy(h, s).alive = h.alive
    BY <1>1 DEF LeftBy, SoRec
  <2> QED BY <1>3, <2>4, <2>5, <2>6
<1> QED
  BY <1>2, <1>3

\* tcp_close frees a connection, or leaves it to the program that holds it.
LEMMA tcp_closeOK ==
    ASSUME NEW X, NEW W, NEW s \in Conns, But(W, X, s), ~W.so[s].listen,
           ~W.so[s].alive => ~W.so[s].fd /\ W.so[s].head = "none",
           W.so[s].head = Listener => W.so[s].alive /\ ~W.so[s].fd,
           NEW V, V = tcp_close(W, s)
    PROVE  /\ SoOK(V, X) /\ V.so[Listener].alive = W.so[Listener].alive
           /\ \A t \in Tasks : SameTask(W.task[t], V.task[t])
           /\ \A x : InQueues(V, x) => InQueues(W, x)
           /\ ~W.so[s].fd => ~InQueues(V, s)
           /\ W.so[s].fd => V.so[s].fd /\ V.so[s].alive = W.so[s].alive /\ "connected" \notin V.so[s].flags
<1> DEFINE r == W.so[s]
           p == [r EXCEPT !.pcb = "none"]
           U == PutSo(W, s, p)
           D == soisdisconnected(U, s)
<1>1. s \in AllSocks /\ s # Listener /\ W \in SoWorld /\ r \in SoRec
  BY SockNames, WorldIs DEF But, Core
<1>2. /\ Plain(r, p) /\ p.alive = r.alive /\ p.fd = r.fd /\ p.head = r.head /\ p.listen = r.listen
      /\ p.pcb = "none" /\ p.error = r.error
  BY <1>1 DEF SoRec, Plain
<1>3. V = sofree(D, s)
  BY DEF tcp_close, PutSo
<1> HIDE DEF p
<1>4. But(U, X, s) /\ U.so[s] = p /\ U.task = W.task /\ \A x \in AllSocks : x # s => U.so[x] = W.so[x]
  BY <1>1, <1>2, PlainOK
<1> HIDE DEF U
<1>5. /\ But(D, X, s) /\ Reasons(D, s)
      /\ Turned(U, D, s, (U.so[s].flags \ {"connecting", "connected", "disconnecting"}) \cup {"cantrcvmore", "cantsendmore"})
  BY <1>1, <1>4, soisdisconnectedOK
<1> HIDE DEF D
<1>6. /\ D.so[s].alive = r.alive /\ D.so[s].fd = r.fd /\ D.so[s].head = r.head /\ D.so[s].listen = r.listen
      /\ D.so[s].pcb = "none" /\ "connected" \notin D.so[s].flags /\ "connecting" \notin D.so[s].flags
      /\ "disconnecting" \notin D.so[s].flags
  BY <1>2, <1>4, <1>5 DEF Turned, LikeSock
<1>7. Linked(s, D.so[s])
  BY <1>1, <1>6, SockNames DEF Linked
<1>8. \A x : InQueues(D, x) <=> InQueues(W, x)
  BY <1>1, <1>4, <1>5, SockNames DEF Turned, SameSock, LikeSock, InQueues
<1>9. D.so[Listener].alive = W.so[Listener].alive /\ \A t \in Tasks : SameTask(W.task[t], D.task[t])
  BY <1>1, <1>4, <1>5, SockNames DEF Turned, SameSock, LikeSock
<1>10. /\ SoOK(V, X) /\ V.task = D.task /\ V.so[Listener].alive = D.so[Listener].alive
       /\ \A x : InQueues(V, x) => InQueues(D, x)
       /\ D.so[s].pcb = "none" /\ ~D.so[s].fd => ~InQueues(V, s)
       /\ D.so[s].pcb # "none" \/ D.so[s].fd => V = D
  BY <1>3, <1>5, <1>7, sofreeOK
<1> QED
  BY <1>6, <1>8, <1>9, <1>10

-----------------------------------------------------------------------------
(***************************************************************************)
(* The tasks.                                                              *)
(***************************************************************************)
\* A task that runs is left out of the account.
LEMMA LeaveOK ==
    ASSUME NEW W, NEW t \in Tasks, SoOK(W, Tasks), W.task[t].at \in {"idle", "ready"}
    PROVE  SoOK(W, Tasks \ {t})
<1>1. Used(W, Tasks \ {t})
  <2>1. \A u \in Tasks \ {t} : Using(W, Tasks, u) => Using(W, Tasks \ {t}, u)
    BY DEF Using
  <2> QED BY <2>1 DEF SoOK, Used
<1> QED
  BY <1>1 DEF SoOK

\* A task changes in one place.
PutTk(W, t, b) == [W EXCEPT !.task[t] = b]

\* Only that task changes.
LEMMA PutTask ==
    ASSUME NEW W \in SoWorld, NEW t \in Tasks, NEW b \in TaskRec, NEW V, V = PutTk(W, t, b)
    PROVE  V \in SoWorld /\ V.so = W.so /\ V.task[t] = b /\ \A u \in Tasks : u # t => V.task[u] = W.task[u]
  BY WorldIs DEF SoWorld, PutTk

\* A task that has done its call.
LEMMA doneOK ==
    ASSUME NEW W, NEW t \in Tasks, SoOK(W, Tasks \ {t})
    PROVE  SoOK(done(W, t), Tasks)
<1> DEFINE V == done(W, t)
<1>1. NoTask \in TaskRec /\ NoTask.at = "idle" /\ NoTask.on = "none"
  BY DEF NoTask, TaskRec
<1>2. V \in SoWorld /\ V.so = W.so /\ V.task[t] = NoTask /\ \A u \in Tasks : u # t => V.task[u] = W.task[u]
  <2>1. V = PutTk(W, t, NoTask)
    BY DEF done, PutTk
  <2>2. W \in SoWorld
    BY DEF SoOK
  <2> HIDE DEF V
  <2> QED BY <1>1, <2>1, <2>2, PutTask
<1> HIDE DEF V
<1>3. W.task[t].at \notin {"going", "blocked"}
  BY DEF SoOK, Used
<1>4. \A x : \A which : Waits(V, x, which) = Waits(W, x, which)
  BY <1>1, <1>2, <1>3 DEF Waits, Sleepers
<1>5. \A x : \A which : \A u \in Waits(W, x, which) : V.task[u] = W.task[u]
  BY <1>2, <1>3 DEF Waits, Sleepers
<1>6. Used(V, Tasks)
  <2>1. ASSUME NEW u \in Tasks, u # t, W.task[u].at # "idle" PROVE Using(V, Tasks, u)
    <3>1. Using(W, Tasks \ {t}, u)
      BY <2>1 DEF SoOK, Used
    <3>2. "none" \notin AllSocks
      BY SocketAssumption DEF AllSocks
    <3> QED BY <1>1, <1>2, <2>1, <3>1, <3>2 DEF Using
  <2> QED BY <1>1, <1>2, <2>1 DEF Used
<1>7. Counts(V)
  BY <1>2, <1>4, <1>5 DEF SoOK, Counts, Counted
<1>8. Queued(V)
  BY <1>2 DEF SoOK, Queued
<1>9. \A x \in AllSocks : Sound(x, V.so[x]) /\ ReadWaits(V, x) /\ WriteWaits(V, x) /\ TimeoWaits(V, x)
  BY <1>2, <1>4, <1>5 DEF SoOK, ReadWaits, WriteWaits, TimeoWaits
<1>10. SoOK(V, Tasks)
  BY <1>2, <1>6, <1>7, <1>8, <1>9 DEF SoOK
<1> QED
  BY <1>10 DEF V

\* The reasons to sleep in a socket r.
Reason(r, why) ==
    /\ ~r.error
    /\ why = "read" => r.rcv.cc = 0 /\ "cantrcvmore" \notin r.flags
    /\ why = "write" => r.snd.cc = hiwat /\ "cantsendmore" \notin r.flags
    /\ why = "accept" => r.q = <<>> /\ r.listen
    /\ why = "connect" => "connecting" \in r.flags
    /\ why = "linger" => "connected" \in r.flags /\ {"cantrcvmore", "cantsendmore"} \subseteq r.flags

\* r is counted as having one more waiting for op.
OneMore(b, d, more) == d.sem = b.sem /\ d.want = IF more THEN b.want + 1 ELSE b.want

\* What two tasks may wait for in one socket.
Apart(a, b) == ~Alike(a, b) /\ a # "linger" /\ b # "linger"

\* A task that goes to sleep in s, which becomes r, for a good reason.
LEMMA sleepOK ==
    ASSUME NEW W, NEW t \in Tasks, SoOK(W, Tasks \ {t}), NEW s \in AllSocks, NEW r \in SoRec,
           SameSock(W.so[s], r), r.timeo = W.so[s].timeo,
           NEW why \in {"read", "write"} \cup Timeo,
           OneMore(W.so[s].rcv, r.rcv, why = "read"), OneMore(W.so[s].snd, r.snd, why = "write"),
           r.alive, r.fd, s = Listener <=> why = "accept", Reason(r, why),
           \A u \in Tasks \ {t} : W.task[u].at # "idle" /\ W.task[u].on = s => Apart(W.task[u].why, why)
    PROVE  SoOK(sleep(PutSo(W, s, r), t, s, why), Tasks)
<1> DEFINE b == [at |-> "going", on |-> s, why |-> why]
           U == PutSo(W, s, r)
           V == sleep(U, t, s, why)
<1>1. b \in TaskRec /\ b.at = "going" /\ b.on = s /\ b.why = why
  BY DEF TaskRec, AllSocks, Timeo
<1>2. U \in SoWorld /\ U.task = W.task /\ U.so[s] = r /\ \A x \in AllSocks : x # s => U.so[x] = W.so[x]
  BY PutSock DEF SoOK
<1> HIDE DEF U
<1>3. V \in SoWorld /\ V.so = U.so /\ V.task[t] = b /\ \A u \in Tasks : u # t => V.task[u] = U.task[u]
  <2>1. V = PutTk(U, t, b)
    BY DEF sleep, PutTk
  <2> HIDE DEF V, b
  <2> QED BY <1>1, <1>2, <2>1, PutTask
<1> HIDE DEF V, b
<1>4. W.task[t].at \notin {"going", "blocked"}
  BY DEF SoOK, Used
<1>5. \A u \in Tasks : u # t => V.task[u] = W.task[u]
  BY <1>2, <1>3
<1>6. V.so[s] = r /\ \A x \in AllSocks : x # s => V.so[x] = W.so[x]
  BY <1>2, <1>3
<1>7. \A x \in AllSocks : \A which : x # s \/ why \notin which => Waits(V, x, which) = Waits(W, x, which)
  BY <1>1, <1>3, <1>4, <1>5 DEF Waits, Sleepers
<1>8. \A x : \A which : \A u \in Waits(W, x, which) : V.task[u] = W.task[u]
  BY <1>4, <1>5 DEF Waits, Sleepers
<1>9. why \in {"read", "write"} => Waits(W, s, {why}) = {} /\ Waits(V, s, {why}) = {t}
  BY <1>1, <1>3, <1>4, <1>5 DEF Waits, Sleepers, Alike, Apart
<1>10. why \in Timeo => Waits(V, s, Timeo) = {t}
  BY <1>1, <1>3, <1>4, <1>5 DEF Waits, Sleepers, Alike, Apart
<1>11. Used(V, Tasks)
  <2>1. Using(V, Tasks, t)
    BY <1>1, <1>3, <1>5, <1>6 DEF Using, Reason, Timeo, Apart
  <2>2. ASSUME NEW u \in Tasks, u # t, W.task[u].at # "idle" PROVE Using(V, Tasks, u)
    <3>1. Using(W, Tasks \ {t}, u)
      BY <2>2 DEF SoOK, Used
    <3>2. \A x \in AllSocks : V.so[x].alive = W.so[x].alive /\ V.so[x].fd = W.so[x].fd /\ V.so[x].flags = W.so[x].flags
      BY <1>6 DEF SameSock, LikeSock
    <3>3. W.task[u].on = s => ~Alike(why, W.task[u].why) /\ W.task[u].why # "linger"
      BY <2>2 DEF Alike, Apart
    <3> DEFINE x == W.task[u].on
    <3>4. V.task[u] = W.task[u] /\ x \in AllSocks
      BY <1>5, <2>2, <3>1 DEF Using
    <3>5. \A v \in Tasks : V.task[v].at # "idle" /\ V.task[v].on = x =>
            v = u \/ ~(Alike(V.task[v].why, W.task[u].why) \/ W.task[u].why = "linger")
      <4>1. CASE x = s
        BY <1>1, <1>3, <1>5, <3>1, <3>3, <4>1 DEF Using
      <4>2. CASE x # s
        BY <1>1, <1>3, <1>5, <3>1, <4>2 DEF Using
      <4> QED BY <4>1, <4>2
    <3>6. W.task[u].why = "linger" =>
            {"cantrcvmore", "cantsendmore"} \subseteq V.so[x].flags
      <4>1. CASE x = s
        BY <3>3, <4>1
      <4>2. CASE x # s
        BY <1>1, <1>3, <1>5, <3>1, <3>2, <4>2 DEF Using
      <4> QED BY <4>1, <4>2
    <3> QED BY <3>1, <3>2, <3>4, <3>5, <3>6 DEF Using
  <2> QED BY <1>1, <1>3, <1>5, <2>1, <2>2 DEF Used
<1>12. ASSUME NEW x \in AllSocks, x # s
       PROVE  /\ Counted(V, V.so[x].rcv, x, "read") /\ Counted(V, V.so[x].snd, x, "write")
              /\ \A u \in Waits(V, x, Timeo) : V.task[u].at = "blocked" => V.so[x].timeo = 0
              /\ Sound(x, V.so[x]) /\ ReadWaits(V, x) /\ WriteWaits(V, x) /\ TimeoWaits(V, x)
  BY <1>6, <1>7, <1>8, <1>12 DEF SoOK, Counts, Counted, ReadWaits, WriteWaits, TimeoWaits
<1>13. /\ Counted(W, W.so[s].rcv, s, "read") /\ Counted(W, W.so[s].snd, s, "write")
       /\ ReadWaits(W, s) /\ WriteWaits(W, s) /\ TimeoWaits(W, s) /\ Sound(s, W.so[s])
       /\ \A u \in Waits(W, s, Timeo) : W.task[u].at = "blocked" => W.so[s].timeo = 0
  BY DEF SoOK, Counts
<1>14. W.so[s].rcv.want \in Nat /\ W.so[s].snd.want \in Nat /\ W.so[s].rcv.sem \in {0, 1} /\ W.so[s].snd.sem \in {0, 1}
  BY WorldIs DEF SoOK, SoBuf
<1>15. Counted(V, V.so[s].rcv, s, "read") /\ ReadWaits(V, s)
  <2>1. CASE why = "read"
    <3>1. Waits(W, s, {"read"}) = {} /\ Waits(V, s, {"read"}) = {t}
      BY <1>9, <2>1
    <3>2. W.so[s].rcv.want = 0 /\ W.so[s].rcv.sem = 0
      BY <1>13, <3>1 DEF Counted
    <3>3. r.rcv.want = 1 /\ r.rcv.sem = 0
      BY <3>2, <2>1 DEF OneMore
    <3>4. V.task[t].at = "going"
      BY <1>1, <1>3
    <3>5. Counted(V, V.so[s].rcv, s, "read")
      BY <1>6, <3>1, <3>3, <3>4 DEF Counted
    <3>6. ReadWaits(V, s)
      BY <1>6, <2>1 DEF ReadWaits, Reason
    <3> QED BY <3>5, <3>6
  <2>2. CASE why # "read"
    <3>1. Waits(V, s, {"read"}) = Waits(W, s, {"read"})
      BY <1>7, <2>2
    <3> QED BY <1>6, <1>8, <1>13, <2>2, <3>1, SMTT(30) DEF Counted, ReadWaits, OneMore, SameSock, LikeSock
  <2> QED BY <2>1, <2>2
<1>16. Counted(V, V.so[s].snd, s, "write") /\ WriteWaits(V, s)
  <2>1. CASE why = "write"
    <3>1. Waits(W, s, {"write"}) = {} /\ Waits(V, s, {"write"}) = {t}
      BY <1>9, <2>1
    <3>2. W.so[s].snd.want = 0 /\ W.so[s].snd.sem = 0
      BY <1>13, <3>1 DEF Counted
    <3>3. r.snd.want = 1 /\ r.snd.sem = 0
      BY <3>2, <2>1 DEF OneMore
    <3>4. V.task[t].at = "going"
      BY <1>1, <1>3
    <3>5. Counted(V, V.so[s].snd, s, "write")
      BY <1>6, <3>1, <3>3, <3>4 DEF Counted
    <3>6. WriteWaits(V, s)
      BY <1>6, <2>1 DEF WriteWaits, Reason
    <3> QED BY <3>5, <3>6
  <2>2. CASE why # "write"
    <3>1. Waits(V, s, {"write"}) = Waits(W, s, {"write"})
      BY <1>7, <2>2
    <3> QED BY <1>6, <1>8, <1>13, <2>2, <3>1, SMTT(30) DEF Counted, WriteWaits, OneMore, SameSock, LikeSock
  <2> QED BY <2>1, <2>2
<1>17. TimeoWaits(V, s) /\ \A u \in Waits(V, s, Timeo) : V.task[u].at = "blocked" => V.so[s].timeo = 0
  <2>1. CASE why \in Timeo
    BY <1>1, <1>3, <1>6, <1>10, <2>1 DEF TimeoWaits, Reason
  <2>2. CASE why \notin Timeo
    <3>1. Waits(V, s, Timeo) = Waits(W, s, Timeo)
      BY <1>7, <2>2
    <3> QED BY <1>6, <1>8, <1>13, <2>2, <3>1 DEF TimeoWaits, SameSock, LikeSock
  <2> QED BY <2>1, <2>2
<1>18. Sound(s, V.so[s])
  BY <1>6, <1>13 DEF Sound, Linked, SameSock, LikeSock
<1>19. Queued(V)
  BY <1>6, SockNames, ZenonT(60) DEF SoOK, Queued, SameSock, LikeSock
<1>20. Counts(V)
  BY <1>12, <1>15, <1>16, <1>17 DEF Counts
<1>21. SoOK(V, Tasks)
  BY <1>3, <1>11, <1>12, <1>15, <1>16, <1>17, <1>18, <1>19, <1>20 DEF SoOK
<1> QED
  BY <1>21 DEF V, U

-----------------------------------------------------------------------------
(***************************************************************************)
(* Closing.                                                                *)
(***************************************************************************)
\* Nobody but the tasks outside X is in s.
Nobody(W, X, s) == \A u \in X : W.task[u].at # "idle" => W.task[u].on # s

\* The reasons to sleep in a socket stay when little of it changes.
LEMMA ReasonsSame ==
    ASSUME NEW W, NEW V, NEW s \in AllSocks, Reasons(W, s), V.task = W.task,
           NEW r, V.so[s] = r, r.timeo = W.so[s].timeo, r.rcv.sem = W.so[s].rcv.sem, r.snd.sem = W.so[s].snd.sem,
           r.error = W.so[s].error \/ ~r.error, r.flags = W.so[s].flags, r.listen = W.so[s].listen, r.q = W.so[s].q,
           r.rcv.cc = W.so[s].rcv.cc \/ r.rcv.cc = 0, r.snd.cc = W.so[s].snd.cc
    PROVE  Reasons(V, s)
<1>1. \A x : \A which : Waits(V, x, which) = Waits(W, x, which)
  BY DEF Waits, Sleepers
<1> QED
  BY <1>1 DEF Reasons, ReadWaits, WriteWaits, TimeoWaits

\* Tasks that are the same for the account.
LEMMA SameTasks ==
    ASSUME NEW U, NEW W, NEW V, \A t \in Tasks : SameTask(U.task[t], W.task[t]),
           \A t \in Tasks : SameTask(W.task[t], V.task[t])
    PROVE  /\ \A t \in Tasks : SameTask(U.task[t], V.task[t])
           /\ \A X \in SUBSET Tasks : \A s : Nobody(U, X, s) => Nobody(V, X, s)
  BY DEF SameTask, Nobody

\* tcp_disconnect of a socket that a program holds.
LEMMA tcp_disconnectOK ==
    ASSUME NEW X, NEW W, NEW s \in Conns, SoOK(W, X), W.so[s].pcb # "none", W.so[s].fd,
           NEW V, V = tcp_disconnect(W, s)
    PROVE  /\ SoOK(V, X) /\ V.so[s].fd /\ \A t \in Tasks : SameTask(W.task[t], V.task[t])
           /\ "connected" \in V.so[s].flags => {"cantrcvmore", "cantsendmore"} \subseteq V.so[s].flags
<1> DEFINE r == W.so[s]
<1>1. s \in AllSocks /\ s # Listener /\ W \in SoWorld /\ r \in SoRec /\ But(W, X, s) /\ Sound(s, r)
  BY SockNames, WorldIs, ButOK DEF SoOK
<1>2. r.alive /\ ~r.error /\ r.head = "none" /\ ~r.listen /\ r.pcb # "listen"
  BY <1>1, SockNames DEF Sound, Linked, SoRec
<1>3. CASE r.pcb = "syn"
  <2>1. V = tcp_close(W, s)
    BY <1>3 DEF tcp_disconnect
  <2> QED BY <1>1, <1>2, <2>1, SockNames, tcp_closeOK
<1> DEFINE U == soisdisconnecting(W, s)
           F == (r.flags \ {"connecting"}) \cup {"disconnecting", "cantrcvmore", "cantsendmore"}
<1>4. But(U, X, s) /\ Reasons(U, s) /\ Turned(W, U, s, F)
  BY <1>1, soisdisconnectingOK
<1>5. CASE r.pcb = "closing" /\ "disconnecting" \notin r.flags
  <2>1. V = soisdisconnected(U, s)
    BY <1>2, <1>5 DEF tcp_disconnect
  <2> HIDE DEF U
  <2>2. But(V, X, s) /\ Reasons(V, s)
        /\ Turned(U, V, s, (U.so[s].flags \ {"connecting", "connected", "disconnecting"}) \cup {"cantrcvmore", "cantsendmore"})
    BY <1>1, <1>4, <2>1, soisdisconnectedOK
  <2>3. /\ V.so[s].alive = r.alive /\ V.so[s].fd = r.fd /\ V.so[s].error = r.error /\ V.so[s].head = r.head
        /\ V.so[s].listen = r.listen /\ V.so[s].pcb = r.pcb
        /\ "connected" \notin V.so[s].flags /\ "disconnecting" \notin V.so[s].flags
    BY <1>4, <2>2 DEF Turned, LikeSock
  <2>4. Sound(s, V.so[s])
    BY <1>1, <1>2, <1>5, <2>3 DEF Sound, Linked
  <2>5. \A t \in Tasks : SameTask(W.task[t], V.task[t])
    BY <1>4, <2>2, SameTasks DEF Turned
  <2> QED BY <1>1, <1>2, <2>2, <2>3, <2>4, <2>5, ButOK
<1>6. CASE r.pcb # "syn" /\ ~(r.pcb = "closing" /\ "disconnecting" \notin r.flags)
  <2> DEFINE u == U.so[s]
             v == [u EXCEPT !.pcb = "closing", !.rcv.cc = 0]
  <2>1. V = [U EXCEPT !.so[s].pcb = "closing", !.so[s].rcv.cc = 0]
    BY <1>2, <1>6 DEF tcp_disconnect
  <2>2. U \in SoWorld /\ u \in SoRec /\ u.rcv \in SoBuf
    BY <1>1, <1>4, WorldIs DEF Turned
  <2>3. /\ u.alive = r.alive /\ u.fd = r.fd /\ u.error = r.error /\ u.head = r.head
        /\ u.listen = r.listen /\ {"cantrcvmore", "cantsendmore"} \subseteq u.flags
    BY <1>4 DEF Turned, LikeSock
  <2> HIDE DEF U
  <2>4. [u.rcv EXCEPT !.cc = 0] \in SoBuf
    BY <2>2 DEF SoBuf
  <2>5. v = [u EXCEPT !.pcb = "closing", !.rcv = [u.rcv EXCEPT !.cc = 0]]
    BY <2>2 DEF SoRec
  <2>6. v \in SoRec /\ v.pcb = "closing" /\ v.rcv = [u.rcv EXCEPT !.cc = 0]
        /\ v.alive = u.alive /\ v.fd = u.fd /\ v.error = u.error /\ v.head = u.head /\ v.listen = u.listen
        /\ v.flags = u.flags /\ v.q0 = u.q0 /\ v.q = u.q /\ v.timeo = u.timeo /\ v.snd = u.snd
    BY <2>2, <2>4, <2>5 DEF SoRec
  <2>7. v.rcv.cc = 0 /\ v.rcv.want = u.rcv.want /\ v.rcv.sem = u.rcv.sem
    BY <2>2, <2>6 DEF SoBuf
  <2>12. V = PutSo(U, s, v)
    <3> DEFINE f == [U.so EXCEPT ![s].pcb = "closing", ![s].rcv.cc = 0]
               g == [U.so EXCEPT ![s] = v]
    <3>1. V = [U EXCEPT !.so = f]
      BY <2>1
    <3>2. U.so \in [AllSocks -> SoRec]
      BY <2>2, WorldIs
    <3>3. f = g
      BY <1>1, <3>2
    <3> QED BY <3>1, <3>3 DEF PutSo
  <2> HIDE DEF v
  <2>8. Plain(u, v)
    BY <2>6, <2>7 DEF Plain
  <2>9. But(V, X, s) /\ V.so[s] = v /\ V.task = U.task
    BY <1>1, <1>4, <2>8, <2>12, PlainOK
  <2>13. /\ v.timeo = u.timeo /\ v.rcv.sem = u.rcv.sem /\ v.snd.sem = u.snd.sem /\ v.error = u.error
         /\ v.flags = u.flags /\ v.listen = u.listen /\ v.q = u.q /\ v.rcv.cc = 0 /\ v.snd.cc = u.snd.cc
    BY <2>6, <2>7
  <2> HIDE DEF u
  <2>10. Reasons(V, s)
    BY <1>1, <1>4, <2>9, <2>13, ReasonsSame DEF u
  <2>11. Sound(s, v)
    BY <1>1, <1>2, <2>3, <2>6 DEF Sound, Linked
  <2> QED BY <1>1, <1>2, <1>4, <2>3, <2>6, <2>9, <2>10, <2>11, ButOK DEF Turned
<1> QED
  BY <1>3, <1>5, <1>6

\* soclose of a connection, from drop on.
LEMMA soclose_dropOK ==
    ASSUME NEW X, NEW W, NEW s \in Conns, SoOK(W, X), W.so[s].fd, Nobody(W, X, s)
    PROVE  SoOK(soclose_drop(W, s), X)
<1> DEFINE U == IF W.so[s].pcb = "none" THEN W
                ELSE IF W.so[s].pcb = "listen" THEN tcp_close(W, s) ELSE tcp_disconnect(W, s)
           u == U.so[s]
           v == [u EXCEPT !.fd = FALSE]
           V == PutSo(U, s, v)
<1>1. s \in AllSocks /\ s # Listener /\ X \in SUBSET Tasks /\ Sound(s, W.so[s])
  BY SockNames DEF SoOK, Used
<1>2. W.so[s].pcb # "listen"
  BY <1>1 DEF Sound, Linked
<1>3. SoOK(U, X) /\ u.fd /\ Nobody(U, X, s)
  <2>1. CASE W.so[s].pcb = "none"
    BY <2>1
  <2>2. CASE W.so[s].pcb # "none"
    <3>1. U = tcp_disconnect(W, s)
      BY <1>2, <2>2
    <3> HIDE DEF U
    <3>2. SoOK(U, X) /\ u.fd /\ \A t \in Tasks : SameTask(W.task[t], U.task[t])
      BY <2>2, <3>1, tcp_disconnectOK
    <3> QED BY <1>1, <3>2 DEF Nobody, SameTask
  <2> QED BY <2>1, <2>2
<1>4. soclose_drop(W, s) = sofree(V, s)
  BY DEF soclose_drop, PutSo
<1> HIDE DEF U
<1>5. But(U, X, s) /\ U \in SoWorld /\ u \in SoRec /\ Sound(s, u)
  BY <1>1, <1>3, ButOK, WorldIs DEF SoOK
<1>6. u.head = "none"
  BY <1>1, <1>3, <1>5 DEF Sound, Linked, SoRec
<1>7. /\ v \in SoRec /\ ~v.fd /\ v.alive = u.alive /\ v.head = u.head /\ v.error = u.error /\ v.pcb = u.pcb
      /\ v.flags = u.flags /\ v.listen = u.listen /\ v.rcv = u.rcv /\ v.snd = u.snd
  BY <1>5 DEF SoRec
<1> HIDE DEF v
<1>8. But(V, X, s) /\ Reasons(V, s) /\ V.so[s] = v
  BY <1>3, <1>5, <1>6, <1>7, AloneOK DEF Nobody
<1>9. Linked(s, v)
  BY <1>1, <1>5, <1>7 DEF Sound, Linked
<1> HIDE DEF V
<1>10. SoOK(sofree(V, s), X)
  BY <1>8, <1>9, sofreeOK
<1> QED
  BY <1>4, <1>10

\* A listening socket without connections is freed.
LEMMA ListenerGone ==
    ASSUME NEW X, NEW W, But(W, X, Listener), W.so[Listener].q0 = <<>>, W.so[Listener].q = <<>>,
           Nobody(W, X, Listener)
    PROVE  SoOK(PutSo(W, Listener, NoSock), X)
<1> DEFINE V == PutSo(W, Listener, NoSock)
<1>1. W \in SoWorld /\ Listener \in AllSocks
  BY SockNames DEF But, Core
<1>2. V \in SoWorld /\ V.task = W.task /\ V.so[Listener] = NoSock /\ \A x \in AllSocks : x # Listener => V.so[x] = W.so[x]
  BY <1>1, NoSockIs, PutSock
<1> HIDE DEF V
<1>3. Used(V, X)
  <2>1. Used(W, X)
    BY DEF But, Core
  <2>2. \A t \in X : W.task[t].at # "idle" => LET x == W.task[t].on IN
          V.so[x].alive = W.so[x].alive /\ V.so[x].fd = W.so[x].fd /\ V.so[x].flags = W.so[x].flags
    <3>1. \A t \in X : W.task[t].at # "idle" => W.task[t].on \in AllSocks /\ W.task[t].on # Listener
      BY <2>1 DEF Used, Using, Nobody
    <3> QED BY <1>2, <3>1
  <2> QED BY <1>2, <2>1, <2>2, UsedSame
<1>4. \A x : \A which : Waits(V, x, which) = Waits(W, x, which)
  BY <1>2 DEF Waits, Sleepers
<1>5. \A which : Waits(V, Listener, which) = {}
  BY <1>2 DEF Waits, Sleepers, But, Core, Used, Nobody
<1>6. Counted(V, V.so[Listener].rcv, Listener, "read") /\ Counted(V, V.so[Listener].snd, Listener, "write")
  BY <1>2, <1>5, NoSockIs DEF Counted
<1>7. Counts(V)
  BY <1>2, <1>4, <1>5, <1>6 DEF But, Core, Counts, Counted
<1>8. Queued(V)
  <2>1. NoDup(<<>>) /\ \A x : ~Member(<<>>, x)
    BY DEF NoDup, Member
  <2>2. \A x \in Conns : V.so[x].head # Listener
    BY <1>2, <2>1, SockNames DEF But, Core, Queued
  <2>3. Len(<<>>) + Len(<<>>) <= (3 * qlimit) \div 2 + 1
    BY SocketAssumption
  <2> QED BY <1>2, <2>1, <2>2, <2>3, NoSockIs DEF Queued
<1>9. Reasons(V, Listener)
  BY <1>5 DEF Reasons, ReadWaits, WriteWaits, TimeoWaits
<1>10. ASSUME NEW x \in AllSocks, x # Listener PROVE Reasons(V, x) /\ Sound(x, V.so[x])
  BY <1>2, <1>4, <1>10 DEF But, Reasons, ReadWaits, WriteWaits, TimeoWaits
<1>11. But(V, X, Listener)
  BY <1>2, <1>3, <1>7, <1>8, <1>10 DEF But, Core
<1>12. SoOK(V, X)
  BY <1>1, <1>2, <1>9, <1>11, NoSockIs, ButOK
<1> QED
  BY <1>12 DEF V

\* soclose of a listening socket, from drop on.
LEMMA ListenerClosed ==
    ASSUME NEW X, NEW W, SoOK(W, X), W.so[Listener].q0 = <<>>, W.so[Listener].q = <<>>, W.so[Listener].alive,
           Nobody(W, X, Listener)
    PROVE  SoOK(soclose_drop(W, Listener), X)
<1> DEFINE s == Listener
           r == W.so[Listener]
           p == [r EXCEPT !.pcb = "none"]
           U == PutSo(W, Listener, p)
           D == soisdisconnected(U, Listener)
           d == [D.so[Listener] EXCEPT !.fd = FALSE]
           E == PutSo(D, Listener, d)
<1>1. Listener \in AllSocks /\ W \in SoWorld /\ r \in SoRec /\ But(W, X, Listener) /\ Sound(Listener, r) /\ X \in SUBSET Tasks
  BY SockNames, WorldIs, ButOK DEF SoOK, Used
<1>2. r.pcb = "listen" /\ r.fd /\ r.head = "none"
  BY <1>1 DEF Sound, Linked
<1>3. /\ Plain(r, p) /\ p.fd = r.fd /\ p.pcb = "none" /\ p.q0 = r.q0 /\ p.q = r.q /\ p.head = r.head
  BY <1>1 DEF SoRec, Plain
<1>4. tcp_close(W, Listener) = sofree(D, Listener)
  BY DEF tcp_close, PutSo
<1> HIDE DEF p
<1>5. But(U, X, Listener) /\ U.so[Listener] = p /\ U.task = W.task
  BY <1>1, <1>3, PlainOK
<1> HIDE DEF U
<1>6. /\ But(D, X, Listener)
      /\ Turned(U, D, Listener, (U.so[Listener].flags \ {"connecting", "connected", "disconnecting"}) \cup {"cantrcvmore", "cantsendmore"})
  BY <1>1, <1>5, soisdisconnectedOK
<1> HIDE DEF D
<1>7. /\ D.so[Listener].fd /\ D.so[Listener].pcb = "none" /\ D.so[Listener].q0 = <<>> /\ D.so[Listener].q = <<>>
      /\ D.so[Listener].head = "none" /\ D \in SoWorld
  BY <1>2, <1>3, <1>5, <1>6 DEF Turned, LikeSock
<1>8. Nobody(D, X, Listener)
  BY <1>1, <1>5, <1>6 DEF Turned, SameTask, Nobody
<1>9. tcp_close(W, Listener) = D
  BY <1>4, <1>7 DEF sofree
<1>10. soclose_drop(W, Listener) = sofree(E, Listener)
  BY <1>2, <1>9 DEF soclose_drop, PutSo
<1>11. D.so[Listener] \in SoRec
  BY <1>1, <1>7, WorldIs
<1>12. d \in SoRec /\ ~d.fd /\ d.pcb = "none" /\ d.head = "none"
  BY <1>7, <1>11 DEF SoRec
<1>13. sofree(E, Listener) = PutSo(D, Listener, NoSock)
  <2>1. E.so[Listener] = d
    BY <1>1, <1>7, <1>12, PutSock
  <2>2. sofree(E, Listener) = [E EXCEPT !.so[Listener] = NoSock]
    BY <1>12, <2>1 DEF sofree, soqremque
  <2>3. D.so \in [AllSocks -> SoRec]
    BY <1>7, WorldIs
  <2> QED BY <1>1, <2>2, <2>3 DEF PutSo
<1>14. SoOK(PutSo(D, Listener, NoSock), X)
  BY <1>6, <1>7, <1>8, ListenerGone
<1> QED
  BY <1>10, <1>13, <1>14

AnyWorld(W) == TRUE
Ending == INSTANCE SeqLemmas WITH Op <- tcp_close, Holds <- AnyWorld

\* One connection of a queue is aborted.
LEMMA AbortOne ==
    ASSUME NEW X, NEW W, SoOK(W, X), NEW s \in Conns, NEW V, V = tcp_close(W, s)
    PROVE  /\ SoOK(V, X) /\ V.so[Listener].alive = W.so[Listener].alive
           /\ \A t \in Tasks : SameTask(W.task[t], V.task[t])
           /\ \A x : InQueues(V, x) => InQueues(W, x) /\ x # s
<1>1. s \in AllSocks /\ s # Listener /\ But(W, X, s) /\ Sound(s, W.so[s])
  BY SockNames, ButOK DEF SoOK
<1>2. /\ ~W.so[s].listen /\ (~W.so[s].alive => ~W.so[s].fd /\ W.so[s].head = "none")
      /\ (W.so[s].head = Listener => W.so[s].alive /\ ~W.so[s].fd)
  BY <1>1 DEF Sound, Linked
<1>3. /\ SoOK(V, X) /\ V.so[Listener].alive = W.so[Listener].alive
      /\ \A t \in Tasks : SameTask(W.task[t], V.task[t])
      /\ \A x : InQueues(V, x) => InQueues(W, x)
      /\ ~W.so[s].fd => ~InQueues(V, s)
  BY <1>1, <1>2, tcp_closeOK
<1>4. InQueues(W, s) => ~W.so[s].fd
  BY <1>2 DEF InQueues, SoOK, Queued
<1> QED
  BY <1>3, <1>4

\* The queues are empty when every connection in them has been aborted.
LEMMA AbortOK ==
    ASSUME NEW X, NEW W, SoOK(W, X), NEW V, V = Abort(W, Listener)
    PROVE  /\ SoOK(V, X) /\ V.so[Listener].alive = W.so[Listener].alive
           /\ V.so[Listener].q0 = <<>> /\ V.so[Listener].q = <<>>
           /\ \A t \in Tasks : SameTask(W.task[t], V.task[t])
<1> DEFINE a == W.so[Listener].q0
           b == W.so[Listener].q
           c == a \o b
           n == Len(c)
           A(i) == Ending!Fold(W, SubSeq(c, 1, i))
           P(i) == /\ SoOK(A(i), X) /\ A(i).so[Listener].alive = W.so[Listener].alive
                   /\ \A t \in Tasks : SameTask(W.task[t], A(i).task[t])
                   /\ \A x : InQueues(A(i), x) => \E j \in i + 1 .. n : c[j] = x
<1>1. W \in SoWorld /\ a \in Seq(Conns) /\ b \in Seq(Conns)
  BY SockNames, WorldIs DEF SoOK, SoRec
<1> HIDE DEF a, b
<1>2. c \in Seq(Conns) /\ n \in Nat
  BY <1>1
<1>3. \A x : Member(a, x) \/ Member(b, x) => \E j \in 1 .. n : c[j] = x
  <2>1. ASSUME NEW x, NEW i \in 1 .. Len(a), a[i] = x PROVE \E j \in 1 .. n : c[j] = x
    <3>1. i \in 1 .. n /\ c[i] = x
      BY <1>1, <2>1
    <3> QED BY <3>1
  <2>2. ASSUME NEW x, NEW i \in 1 .. Len(b), b[i] = x PROVE \E j \in 1 .. n : c[j] = x
    <3>1. Len(a) + i \in 1 .. n /\ c[Len(a) + i] = x
      BY <1>1, <2>2
    <3> QED BY <3>1
  <2> QED BY <2>1, <2>2 DEF Member
<1> HIDE DEF c
<1>5. \A x : InQueues(W, x) => \E j \in 0 + 1 .. n : c[j] = x
  <2>1. 0 + 1 = 1
    OBVIOUS
  <2> QED BY <1>3, <2>1 DEF InQueues, a, b
<1>6. A(0) = W
  <2>1. SubSeq(c, 1, 0) = <<>>
    BY <1>2
  <2> QED BY <2>1, Ending!FoldEmpty
<1>7. P(0)
  BY <1>5, <1>6 DEF SameTask
<1>8. ASSUME NEW i \in 0 .. n - 1, P(i) PROVE P(i + 1)
  <2> DEFINE s == c[i + 1]
             B == A(i)
             C == A(i + 1)
  <2>1. s \in Conns
    BY <1>2
  <2>2. C = tcp_close(B, s)
    BY <1>2, Ending!FoldPrefix
  <2>3. /\ SoOK(B, X) /\ B.so[Listener].alive = W.so[Listener].alive
        /\ \A t \in Tasks : SameTask(W.task[t], B.task[t])
        /\ \A x : InQueues(B, x) => \E j \in i + 1 .. n : c[j] = x
    BY <1>8
  <2> HIDE DEF A, s, B, C
  <2>4. /\ SoOK(C, X) /\ C.so[Listener].alive = B.so[Listener].alive
        /\ \A t \in Tasks : SameTask(B.task[t], C.task[t])
        /\ \A x : InQueues(C, x) => InQueues(B, x) /\ x # s
    BY <2>1, <2>2, <2>3, AbortOne
  <2>5. \A t \in Tasks : SameTask(W.task[t], C.task[t])
    BY <2>3, <2>4, SameTasks
  <2>6. ASSUME NEW x, InQueues(C, x) PROVE \E j \in i + 1 + 1 .. n : c[j] = x
    <3>1. PICK j \in i + 1 .. n : c[j] = x
      BY <2>3, <2>4, <2>6
    <3>2. x # c[i + 1]
      BY <2>4, <2>6 DEF s
    <3>3. j \in i + 1 + 1 .. n
      BY <1>2, <3>1, <3>2
    <3> QED BY <3>1, <3>3
  <2> QED BY <2>3, <2>4, <2>5, <2>6 DEF C
<1>9. P(n)
  <2> DEFINE Bad == {i \in 0 .. n : ~P(i)}
  <2> HIDE DEF P
  <2>1. ASSUME Bad # {} PROVE FALSE
    <3>1. Bad \in SUBSET Nat
      OBVIOUS
    <3>2. PICK m \in Bad : \A k \in Bad : m <= k
      BY <2>1, <3>1, NatMin
    <3>3. m \in 0 .. n /\ ~P(m) /\ m # 0
      BY <1>7, <3>2
    <3>4. m - 1 \in 0 .. n - 1 /\ m - 1 \in 0 .. n /\ ~(m <= m - 1) /\ (m - 1) + 1 = m
      BY <1>2, <3>3
    <3>5. P(m - 1)
      BY <3>2, <3>4
    <3>6. P((m - 1) + 1)
      BY <1>8, <3>4, <3>5
    <3> QED BY <3>3, <3>4, <3>6
  <2>2. n \in 0 .. n
    BY <1>2
  <2> QED BY <2>1, <2>2
<1>10. V = A(n)
  <2>1. SubSeq(c, 1, n) = c
    BY <1>2
  <2>2. V = FoldLeft(tcp_close, W, c)
    BY Zenon DEF Abort, a, b, c
  <2>3. Ending!Fold(W, c) = FoldLeft(tcp_close, W, c)
    BY Zenon DEF Ending!Fold, Ending!FoldLeft, FoldLeft, Ending!MapThenFoldSet, MapThenFoldSet, Max, Ending!Max
  <2> QED BY <2>1, <2>2, <2>3
<1> HIDE DEF A
<1>11. \A x : ~InQueues(V, x)
  BY <1>2, <1>9, <1>10
<1>12. V \in SoWorld /\ V.so[Listener].q0 \in Seq(Conns) /\ V.so[Listener].q \in Seq(Conns)
  BY <1>9, <1>10, SockNames, WorldIs DEF SoOK, SoRec
<1>13. \A q \in Seq(Conns) : (\A x : ~Member(q, x)) => q = <<>>
  <2>1. \A q \in Seq(Conns) : q # <<>> => 1 \in 1 .. Len(q)
    OBVIOUS
  <2> QED BY <2>1 DEF Member
<1>14. V.so[Listener].q0 = <<>> /\ V.so[Listener].q = <<>>
  BY <1>11, <1>12, <1>13 DEF InQueues
<1> QED
  BY <1>9, <1>10, <1>14

-----------------------------------------------------------------------------
(***************************************************************************)
(* The calls of a task t, which is not in the account while it runs.       *)
(***************************************************************************)
\* Only in a socket that t may use: the others in it do something else.
Mine(W, t, s, why) ==
    /\ W.so[s].alive /\ W.so[s].fd
    /\ \A u \in Tasks \ {t} : W.task[u].at # "idle" /\ W.task[u].on = s => Apart(W.task[u].why, why)

\* One that nobody else reads, or writes.
Sole(W, t, s, op) ==
    /\ W.so[s].alive /\ W.so[s].fd
    /\ \A u \in Tasks \ {t} : W.task[u].at # "idle" /\ W.task[u].on = s => W.task[u].why # op

\* It may be slept in as long as it can be read, or written: nobody closes it.
LEMMA SoleMine ==
    ASSUME NEW W, NEW t \in Tasks, SoOK(W, Tasks \ {t}), NEW s \in AllSocks, NEW op \in {"read", "write"},
           Sole(W, t, s, op), ~ {"cantrcvmore", "cantsendmore"} \subseteq W.so[s].flags
    PROVE  Mine(W, t, s, op)
<1>1. ASSUME NEW u \in Tasks \ {t}, W.task[u].at # "idle", W.task[u].on = s PROVE Apart(W.task[u].why, op)
  <2>1. Using(W, Tasks \ {t}, u)
    BY <1>1 DEF SoOK, Used
  <2>2. W.task[u].why # "linger" /\ W.task[u].why # op
    BY <1>1, <2>1 DEF Using, Sole
  <2> QED BY <2>2 DEF Apart, Alike, Timeo
<1> QED
  BY <1>1 DEF Mine, Sole

\* A socket that stays what it is.
LEMMA PutSame ==
    ASSUME NEW W \in SoWorld, NEW s \in AllSocks
    PROVE  PutSo(W, s, W.so[s]) = W
  BY WorldIs DEF SoWorld, PutSo

\* Going to sleep on so_timeoSem.
LEMMA TimeoOK ==
    ASSUME NEW W, NEW t \in Tasks, SoOK(W, Tasks \ {t}), NEW s \in AllSocks, NEW why \in Timeo,
           Mine(W, t, s, why), s = Listener <=> why = "accept", Reason(W.so[s], why)
    PROVE  SoOK(sleep(W, t, s, why), Tasks)
<1> DEFINE r == W.so[s]
<1>1. W \in SoWorld /\ r \in SoRec /\ r.rcv \in SoBuf /\ r.snd \in SoBuf
  BY WorldIs DEF SoOK
<1>2. OneMore(r.rcv, r.rcv, FALSE) /\ OneMore(r.snd, r.snd, FALSE) /\ SameSock(r, r)
  BY DEF OneMore, SameSock, LikeSock
<1>3. why \in {"read", "write"} \cup Timeo /\ (why = "read") = FALSE /\ (why = "write") = FALSE
  BY DEF Timeo
<1>4. SoOK(sleep(PutSo(W, s, r), t, s, why), Tasks)
  BY <1>1, <1>2, <1>3, sleepOK DEF Mine
<1> QED
  BY <1>1, <1>4, PutSame

\* soclose while the connection lingers, and after.
LEMMA LingerOK ==
    ASSUME NEW W, NEW t \in Tasks, SoOK(W, Tasks \ {t}), NEW s \in Conns, W.so[s].fd, Nobody(W, Tasks \ {t}, s),
           "connected" \in W.so[s].flags => {"cantrcvmore", "cantsendmore"} \subseteq W.so[s].flags
    PROVE  SoOK(Linger(W, t, s), Tasks)
<1>1. s \in AllSocks /\ s # Listener /\ Sound(s, W.so[s])
  BY SockNames DEF SoOK
<1>2. CASE LingerOf[s] /\ "connected" \in W.so[s].flags
  <2>1. Linger(W, t, s) = sleep(W, t, s, "linger")
    BY <1>2 DEF Linger
  <2>2. ~W.so[s].error /\ W.so[s].alive
    BY <1>1, <1>2 DEF Sound, Linked
  <2>3. Reason(W.so[s], "linger") /\ Mine(W, t, s, "linger") /\ "linger" \in Timeo
    BY <1>2, <2>2 DEF Reason, Mine, Nobody, Timeo
  <2> QED BY <1>1, <2>1, <2>3, TimeoOK
<1>3. CASE ~(LingerOf[s] /\ "connected" \in W.so[s].flags)
  <2>1. Linger(W, t, s) = done(soclose_drop(W, s), t)
    BY <1>3 DEF Linger
  <2> QED BY <2>1, soclose_dropOK, doneOK
<1> QED
  BY <1>2, <1>3

\* The close of a connection, and of the listening socket.
LEMMA socloseOK ==
    ASSUME NEW W, NEW t \in Tasks, SoOK(W, Tasks \ {t}), NEW s \in AllSocks, W.so[s].fd, Nobody(W, Tasks \ {t}, s)
    PROVE  SoOK(soclose(W, t, s), Tasks)
<1> DEFINE X == Tasks \ {t}
           r == W.so[s]
<1>1. Sound(s, r)
  BY DEF SoOK
<1>2. CASE s = Listener
  <2> DEFINE U == Abort(W, Listener)
  <2>1. r.alive /\ r.listen
    BY <1>1, <1>2 DEF Sound, Linked
  <2>2. /\ SoOK(U, X) /\ U.so[Listener].alive = W.so[Listener].alive
        /\ U.so[Listener].q0 = <<>> /\ U.so[Listener].q = <<>>
        /\ \A u \in Tasks : SameTask(W.task[u], U.task[u])
    BY AbortOK
  <2> HIDE DEF U
  <2>3. U.so[Listener].flags = {}
    BY <1>2, <2>1, <2>2, SockNames DEF SoOK, Sound, Linked
  <2>4. Nobody(U, X, Listener)
    BY <1>2, <2>2 DEF Nobody, SameTask
  <2>5. soclose(W, t, s) = done(soclose_drop(U, Listener), t)
    BY <1>2, <2>1, <2>3 DEF soclose, U
  <2>6. SoOK(soclose_drop(U, Listener), X)
    BY <1>2, <2>1, <2>2, <2>4, ListenerClosed
  <2> QED BY <2>5, <2>6, doneOK
<1>3. CASE s # Listener
  <2> DEFINE U == IF {"connected", "disconnecting"} \cap r.flags = {"connected"} THEN tcp_disconnect(W, s) ELSE W
  <2>1. ~r.listen /\ s \in Conns
    BY <1>1, <1>3, SockNames DEF Sound, Linked
  <2>2. soclose(W, t, s) = IF r.pcb # "none" /\ "connected" \in r.flags THEN Linger(U, t, s)
                           ELSE done(soclose_drop(W, s), t)
    BY <2>1 DEF soclose
  <2>3. CASE r.pcb # "none" /\ "connected" \in r.flags
    <3>1. CASE "disconnecting" \in r.flags
      <4>1. U = W
        BY <3>1
      <4>2. {"cantrcvmore", "cantsendmore"} \subseteq r.flags
        BY <1>1, <2>3, <3>1 DEF Sound, Linked
      <4> QED BY <2>1, <2>2, <2>3, <4>1, <4>2, LingerOK
    <3>2. CASE "disconnecting" \notin r.flags
      <4>1. U = tcp_disconnect(W, s)
        BY <2>3, <3>2
      <4> HIDE DEF U
      <4>2. /\ SoOK(U, X) /\ U.so[s].fd /\ \A u \in Tasks : SameTask(W.task[u], U.task[u])
            /\ "connected" \in U.so[s].flags => {"cantrcvmore", "cantsendmore"} \subseteq U.so[s].flags
        BY <2>1, <2>3, <4>1, tcp_disconnectOK
      <4>3. Nobody(U, X, s)
        BY <4>2 DEF Nobody, SameTask
      <4>4. SoOK(Linger(U, t, s), Tasks)
        BY <2>1, <4>2, <4>3, LingerOK
      <4> QED BY <2>2, <2>3, <4>4
    <3> QED BY <3>1, <3>2
  <2>4. CASE ~(r.pcb # "none" /\ "connected" \in r.flags)
    <3>1. soclose(W, t, s) = done(soclose_drop(W, s), t)
      BY <2>2, <2>4
    <3> QED BY <2>1, <3>1, soclose_dropOK, doneOK
  <2> QED BY <2>3, <2>4
<1> QED
  BY <1>2, <1>3

\* A change of a socket that leaves its links and the reasons to sleep in it.
LEMMA PlainSame ==
    ASSUME NEW X, NEW W, SoOK(W, X), NEW s \in AllSocks, NEW r, Plain(W.so[s], r),
           r.error = W.so[s].error \/ ~r.error, r.flags = W.so[s].flags, r.listen = W.so[s].listen, r.pcb = W.so[s].pcb,
           r.rcv.cc = W.so[s].rcv.cc \/ r.rcv.cc = 0 \/ Waits(W, s, {"read"}) = {},
           r.snd.cc = W.so[s].snd.cc \/ Waits(W, s, {"write"}) = {},
           NEW V, V = PutSo(W, s, r)
    PROVE  SoOK(V, X)
<1>1. But(W, X, s) /\ Reasons(W, s) /\ Sound(s, W.so[s])
  BY ButOK
<1>2. But(V, X, s) /\ V.so[s] = r /\ V.task = W.task
  BY <1>1, PlainOK
<1>3. \A x : \A which : Waits(V, x, which) = Waits(W, x, which)
  BY <1>2 DEF Waits, Sleepers
<1>4. Reasons(V, s)
  BY <1>1, <1>2, <1>3 DEF Reasons, ReadWaits, WriteWaits, TimeoWaits, Plain
<1>5. Sound(s, r)
  BY <1>1 DEF Sound, Linked, Plain
<1> QED
  BY <1>2, <1>4, <1>5, ButOK

\* The bytes are counted for the bound alone.
LEMMA BytesOK ==
    ASSUME NEW X, NEW W, NEW n \in Nat, NEW V, V = [W EXCEPT !.bytes = n], W \in SoWorld
    PROVE  /\ V \in SoWorld /\ V.so = W.so /\ V.task = W.task
           /\ SoOK(W, X) => SoOK(V, X)
           /\ \A s \in AllSocks : But(W, X, s) => But(V, X, s)
<1>1. V \in SoWorld /\ V.so = W.so /\ V.task = W.task
  BY DEF SoWorld
<1>2. \A x : \A which : Waits(V, x, which) = Waits(W, x, which)
  BY <1>1 DEF Waits, Sleepers
<1>3. Used(W, X) => Used(V, X)
  BY <1>1, UsedSame
<1>4. Counts(W) => Counts(V)
  BY <1>1, <1>2 DEF Counts, Counted
<1>5. Queued(W) => Queued(V)
  BY <1>1 DEF Queued
<1>6. \A x : Reasons(W, x) => Reasons(V, x)
  BY <1>1, <1>2 DEF Reasons, ReadWaits, WriteWaits, TimeoWaits
<1>7. \A s \in AllSocks : But(W, X, s) => But(V, X, s)
  BY <1>1, <1>3, <1>4, <1>5, <1>6 DEF But, Core
<1>8. SoOK(W, X) => SoOK(V, X)
  BY <1>1, <1>6, <1>7, SockNames, ButOK
<1> QED
  BY <1>1, <1>7, <1>8

\* A socket's error has been told.
LEMMA ErrorTold ==
    ASSUME NEW W, NEW t \in Tasks, SoOK(W, Tasks \ {t}), NEW s \in AllSocks
    PROVE  SoOK(done([W EXCEPT !.so[s].error = FALSE], t), Tasks)
<1> DEFINE r == [W.so[s] EXCEPT !.error = FALSE]
           V == PutSo(W, s, r)
<1>1. W.so[s] \in SoRec
  BY WorldIs DEF SoOK
<1>2. /\ Plain(W.so[s], r) /\ ~r.error /\ r.flags = W.so[s].flags /\ r.listen = W.so[s].listen /\ r.pcb = W.so[s].pcb
      /\ r.rcv.cc = W.so[s].rcv.cc /\ r.snd.cc = W.so[s].snd.cc
  BY <1>1 DEF SoRec, Plain
<1>3. [W EXCEPT !.so[s].error = FALSE] = V
  BY DEF PutSo
<1> HIDE DEF r
<1>4. SoOK(V, Tasks \ {t})
  BY <1>2, PlainSame
<1> HIDE DEF V
<1> QED
  BY <1>3, <1>4, doneOK

\* soreceive of a byte: nobody else reads the socket.
LEMMA ReadOK ==
    ASSUME NEW W, NEW t \in Tasks, SoOK(W, Tasks \ {t}), NEW s \in Conns, Sole(W, t, s, "read")
    PROVE  SoOK(ReadByte(W, t, s), Tasks)
<1> DEFINE r == W.so[s]
           X == Tasks \ {t}
<1>1. s \in AllSocks /\ s # Listener /\ W \in SoWorld /\ r \in SoRec /\ r.rcv \in SoBuf
  BY SockNames, WorldIs DEF SoOK
<1>2. Waits(W, s, {"read"}) = {}
  BY DEF Waits, Sleepers, Sole, SoOK, Used
<1>3. CASE r.rcv.cc > 0
  <2> DEFINE d == [r.rcv EXCEPT !.cc = @ - 1]
             v == [r EXCEPT !.rcv = d]
             V == PutSo(W, s, v)
  <2>1. d \in SoBuf /\ d.want = r.rcv.want /\ d.sem = r.rcv.sem
    BY <1>1, <1>3 DEF SoBuf
  <2>2. ReadByte(W, t, s) = done([W EXCEPT !.so[s].rcv.cc = @ - 1], t)
    BY <1>3 DEF ReadByte
  <2>3. [W EXCEPT !.so[s].rcv.cc = @ - 1] = V
    BY DEF PutSo
  <2> HIDE DEF d
  <2>4. /\ Plain(r, v) /\ v.error = r.error /\ v.flags = r.flags /\ v.listen = r.listen /\ v.pcb = r.pcb /\ v.snd.cc = r.snd.cc
    BY <1>1, <2>1 DEF SoRec, Plain
  <2> HIDE DEF v
  <2>5. SoOK(V, X)
    BY <1>1, <1>2, <2>4, PlainSame
  <2> HIDE DEF V
  <2> QED BY <2>2, <2>3, <2>5, doneOK
<1>4. CASE ~(r.rcv.cc > 0) /\ r.error
  <2>1. ReadByte(W, t, s) = done([W EXCEPT !.so[s].error = FALSE], t)
    BY <1>4 DEF ReadByte
  <2> QED BY <1>1, <2>1, ErrorTold
<1>5. CASE ~(r.rcv.cc > 0) /\ ~r.error /\ ("cantrcvmore" \in r.flags \/ {"connected", "connecting"} \cap r.flags = {})
  <2>1. ReadByte(W, t, s) = done(W, t)
    BY <1>5 DEF ReadByte
  <2> QED BY <2>1, doneOK
<1>6. CASE ~(r.rcv.cc > 0) /\ ~r.error /\ ~("cantrcvmore" \in r.flags \/ {"connected", "connecting"} \cap r.flags = {})
  <2> DEFINE d == [r.rcv EXCEPT !.want = @ + 1]
             v == [r EXCEPT !.rcv = d]
  <2>1. d \in SoBuf /\ d.cc = r.rcv.cc /\ d.cc = 0 /\ OneMore(r.rcv, d, TRUE)
    BY <1>1, <1>6 DEF SoBuf, OneMore
  <2>2. ReadByte(W, t, s) = sleep(PutSo(W, s, v), t, s, "read")
    BY <1>6 DEF ReadByte, PutSo
  <2> HIDE DEF d
  <2>3. /\ v \in SoRec /\ SameSock(r, v) /\ v.timeo = r.timeo /\ v.rcv = d /\ v.snd = r.snd
    BY <1>1, <2>1 DEF SoRec, SameSock, LikeSock
  <2>4. v.alive /\ v.fd /\ OneMore(r.snd, v.snd, FALSE)
    BY <2>3 DEF Sole, SameSock, LikeSock, OneMore
  <2>5. Reason(v, "read")
    BY <1>6, <2>1, <2>3 DEF Reason, SameSock, LikeSock
  <2>7. Mine(W, t, s, "read")
    BY <1>1, <1>6, SoleMine
  <2> HIDE DEF v
  <2>6. SoOK(sleep(PutSo(W, s, v), t, s, "read"), Tasks)
    BY <1>1, <2>1, <2>3, <2>4, <2>5, <2>7, sleepOK DEF Mine
  <2> QED BY <2>2, <2>6
<1> QED
  BY <1>3, <1>4, <1>5, <1>6

\* sosend of a byte: nobody else writes the socket.
LEMMA SendOK ==
    ASSUME NEW W, NEW t \in Tasks, SoOK(W, Tasks \ {t}), NEW s \in Conns, Sole(W, t, s, "write")
    PROVE  SoOK(sosend(W, t, s), Tasks)
<1> DEFINE r == W.so[s]
           X == Tasks \ {t}
<1>1. s \in AllSocks /\ s # Listener /\ W \in SoWorld /\ r \in SoRec /\ r.snd \in SoBuf /\ W.bytes \in Nat
  BY SockNames, WorldIs DEF SoOK
<1>2. Waits(W, s, {"write"}) = {}
  BY DEF Waits, Sleepers, Sole, SoOK, Used
<1>3. CASE "cantsendmore" \in r.flags \/ r.error \/ "connected" \notin r.flags
  <2>1. sosend(W, t, s) = done(W, t)
    BY <1>3 DEF sosend
  <2> QED BY <2>1, doneOK
<1>4. CASE ~("cantsendmore" \in r.flags \/ r.error \/ "connected" \notin r.flags) /\ r.snd.cc = hiwat
  <2> DEFINE d == [r.snd EXCEPT !.want = @ + 1]
             v == [r EXCEPT !.snd = d]
  <2>1. d \in SoBuf /\ d.cc = r.snd.cc /\ OneMore(r.snd, d, TRUE)
    BY <1>1 DEF SoBuf, OneMore
  <2>2. sosend(W, t, s) = sleep(PutSo(W, s, v), t, s, "write")
    BY <1>4 DEF sosend, PutSo
  <2> HIDE DEF d
  <2>3. /\ v \in SoRec /\ SameSock(r, v) /\ v.timeo = r.timeo /\ v.snd = d /\ v.rcv = r.rcv
    BY <1>1, <2>1 DEF SoRec, SameSock, LikeSock
  <2>4. v.alive /\ v.fd /\ OneMore(r.rcv, v.rcv, FALSE)
    BY <2>3 DEF Sole, SameSock, LikeSock, OneMore
  <2>5. Reason(v, "write")
    BY <1>4, <2>1, <2>3 DEF Reason, SameSock, LikeSock
  <2>7. Mine(W, t, s, "write")
    BY <1>1, <1>4, SoleMine
  <2> HIDE DEF v
  <2>6. SoOK(sleep(PutSo(W, s, v), t, s, "write"), Tasks)
    BY <1>1, <2>1, <2>3, <2>4, <2>5, <2>7, sleepOK DEF Mine
  <2> QED BY <2>2, <2>6
<1>5. CASE ~("cantsendmore" \in r.flags \/ r.error \/ "connected" \notin r.flags) /\ r.snd.cc # hiwat
  <2> DEFINE d == [r.snd EXCEPT !.cc = @ + 1]
             v == [r EXCEPT !.snd = d]
             V == PutSo(W, s, v)
             n == Min({W.bytes + 1, MaxData})
             B == [V EXCEPT !.bytes = n]
  <2>1. d \in SoBuf /\ d.want = r.snd.want /\ d.sem = r.snd.sem
    BY <1>1 DEF SoBuf
  <2>2. sosend(W, t, s) = done(B, t)
    BY <1>5 DEF sosend, PutSo
  <2> HIDE DEF d
  <2>3. /\ Plain(r, v) /\ v.error = r.error /\ v.flags = r.flags /\ v.listen = r.listen /\ v.pcb = r.pcb /\ v.rcv.cc = r.rcv.cc
    BY <1>1, <2>1 DEF SoRec, Plain
  <2> HIDE DEF v
  <2>4. SoOK(V, X)
    BY <1>1, <1>2, <2>3, PlainSame
  <2> HIDE DEF V
  <2>5. n \in Nat
    <3> DEFINE a == W.bytes + 1
    <3>1. a \in Nat /\ MaxData \in Nat
      BY <1>1, SocketAssumption
    <3> HIDE DEF a
    <3>2. \E m \in {a, MaxData} : \A k \in {a, MaxData} : m <= k
      BY <3>1
    <3>3. Min({a, MaxData}) \in {a, MaxData}
      BY <3>2 DEF Min
    <3> QED BY <3>1, <3>3 DEF a
  <2> HIDE DEF n
  <2>6. SoOK(B, X)
    BY <2>4, <2>5, BytesOK DEF SoOK
  <2> HIDE DEF B
  <2> QED BY <2>2, <2>6, doneOK
<1> QED
  BY <1>3, <1>4, <1>5

\* accept takes the first connection that is complete off its queue.
LEMMA acceptOK ==
    ASSUME NEW W, NEW t \in Tasks, SoOK(W, Tasks \ {t}), Mine(W, t, Listener, "accept")
    PROVE  SoOK(accept(W, t, Listener), Tasks)
<1> DEFINE h == W.so[Listener]
           X == Tasks \ {t}
<1>1. Listener \in AllSocks /\ W \in SoWorld /\ h \in SoRec /\ W.so \in [AllSocks -> SoRec]
  BY SockNames, WorldIs DEF SoOK
<1>2. CASE h.error \/ ~h.listen
  <2>1. accept(W, t, Listener) = done([W EXCEPT !.so[Listener].error = FALSE], t)
    BY <1>2 DEF accept
  <2> QED BY <1>1, <2>1, ErrorTold
<1>3. CASE ~h.error /\ h.listen /\ h.q = <<>>
  <2>1. accept(W, t, Listener) = sleep(W, t, Listener, "accept")
    BY <1>3 DEF accept
  <2>2. Reason(h, "accept") /\ "accept" \in Timeo
    BY <1>3 DEF Reason, Timeo
  <2> QED BY <1>1, <2>1, <2>2, TimeoOK
<1>4. CASE ~h.error /\ h.listen /\ h.q # <<>>
  <2> DEFINE c == Head(h.q)
             r == [W.so[c] EXCEPT !.head = "none", !.fd = TRUE]
             V == PutSo(PutSo(W, Listener, LeftBy(h, c)), c, r)
  <2>1. h.q \in Seq(Conns)
    BY <1>1 DEF SoRec
  <2>2. c \in Conns /\ Member(h.q, c)
    <3>1. \A q \in Seq(Conns) : q # <<>> => Head(q) = q[1] /\ 1 \in 1 .. Len(q) /\ Head(q) \in Conns
      OBVIOUS
    <3> QED BY <1>4, <2>1, <3>1 DEF Member
  <2>3. c \in AllSocks /\ c # Listener /\ W.so[c] \in SoRec /\ W.so[c].head = Listener /\ Sound(c, W.so[c])
    BY <1>1, <2>2, SockNames, WorldIs DEF SoOK, Queued
  <2>4. accept(W, t, Listener) = done([soqremque(W, c) EXCEPT !.so[c].fd = TRUE], t)
    BY <1>4 DEF accept
  <2> HIDE DEF c
  <2>5. [soqremque(W, c) EXCEPT !.so[c].fd = TRUE] = V
    <3>1. soqremque(W, c) = [W EXCEPT !.so[Listener].q0 = RemoveFirst(@, c), !.so[Listener].q = RemoveFirst(@, c), !.so[c].head = "none"]
      BY <2>3, SockNames DEF soqremque
    <3> DEFINE f == [W.so EXCEPT ![Listener].q0 = RemoveFirst(@, c), ![Listener].q = RemoveFirst(@, c), ![c].head = "none", ![c].fd = TRUE]
               g == [W.so EXCEPT ![Listener] = LeftBy(h, c), ![c] = r]
    <3>2. [soqremque(W, c) EXCEPT !.so[c].fd = TRUE] = [W EXCEPT !.so = f]
      BY <3>1
    <3>3. f = g
      BY <1>1, <2>3 DEF LeftBy
    <3> QED BY <3>2, <3>3 DEF PutSo
  <2>6. /\ r \in SoRec /\ r.head = "none" /\ r.fd /\ r.rcv = W.so[c].rcv /\ r.snd = W.so[c].snd
        /\ r.alive = W.so[c].alive /\ r.error = W.so[c].error /\ r.pcb = W.so[c].pcb /\ r.flags = W.so[c].flags
        /\ r.listen = W.so[c].listen
    BY <2>3 DEF SoRec
  <2> HIDE DEF r
  <2>7. \A u \in X : W.task[u].at # "idle" => W.task[u].on # c
    BY <2>3 DEF SoOK, Used, Using, Sound, Linked
  <2>8. But(W, X, c)
    BY <2>3, ButOK
  <2>9. But(V, X, c) /\ Reasons(V, c) /\ V.so[c] = r
    BY <2>2, <2>6, <2>7, <2>8, GoneOK
  <2>10. Sound(c, r)
    BY <2>3, <2>6, SockNames DEF Sound, Linked
  <2> HIDE DEF V
  <2>11. SoOK(V, X)
    BY <2>3, <2>9, <2>10, ButOK
  <2> QED BY <2>4, <2>5, <2>11, doneOK
<1> QED
  BY <1>2, <1>3, <1>4

\* connect sleeps until the connection is there or has failed.
LEMMA connectOK ==
    ASSUME NEW W, NEW t \in Tasks, SoOK(W, Tasks \ {t}), NEW s \in Conns, Mine(W, t, s, "connect")
    PROVE  SoOK(connect(W, t, s), Tasks)
<1>1. s \in AllSocks /\ s # Listener
  BY SockNames
<1>2. CASE "connecting" \in W.so[s].flags /\ ~W.so[s].error
  <2>1. connect(W, t, s) = sleep(W, t, s, "connect")
    BY <1>2 DEF connect
  <2>2. Reason(W.so[s], "connect") /\ "connect" \in Timeo
    BY <1>2 DEF Reason, Timeo
  <2> QED BY <1>1, <2>1, <2>2, TimeoOK
<1>3. CASE ~("connecting" \in W.so[s].flags /\ ~W.so[s].error)
  <2>1. connect(W, t, s) = done([W EXCEPT !.so[s].error = FALSE], t)
    BY <1>3 DEF connect
  <2> QED BY <1>1, <2>1, ErrorTold
<1> QED
  BY <1>2, <1>3

\* A task that was woken and goes on where it slept.
LEMMA ContinueOK ==
    ASSUME NEW W, NEW t \in Tasks, SoOK(W, Tasks), W.task[t].at = "ready"
    PROVE  SoOK(Continue(W, t), Tasks)
<1> DEFINE s == W.task[t].on
           why == W.task[t].why
<1>1. SoOK(W, Tasks \ {t}) /\ W \in SoWorld
  BY LeaveOK DEF SoOK
<1>2. Using(W, Tasks, t)
  BY DEF SoOK, Used
<1>3. s \in AllSocks /\ why # "none" /\ W.so[s].alive /\ W.so[s].fd /\ (s = Listener <=> why = "accept")
  BY <1>2 DEF Using
<1>4. s # Listener => s \in Conns
  BY <1>3, SockNames
<1>5. Mine(W, t, s, why) \/ why = "linger"
  <2>1. ASSUME NEW u \in Tasks \ {t}, W.task[u].at # "idle", W.task[u].on = s, why # "linger"
        PROVE  Apart(W.task[u].why, why)
    <3>1. Using(W, Tasks, u)
      BY <2>1 DEF SoOK, Used
    <3>2. W.task[u].why # "linger"
      BY <2>1, <3>1 DEF Using
    <3>3. ~Alike(W.task[u].why, why)
      BY <1>2, <2>1 DEF Using
    <3> QED BY <2>1, <3>2, <3>3 DEF Apart
  <2> QED BY <1>3, <2>1 DEF Mine
<1>6. why = "linger" => Nobody(W, Tasks \ {t}, s) /\ {"cantrcvmore", "cantsendmore"} \subseteq W.so[s].flags
  BY <1>2 DEF Using, Nobody
<1>7. why \in {"read", "write", "accept", "connect", "linger"}
  BY <1>1, <1>3, WorldIs DEF TaskRec, Timeo
<1>13. why \in {"read", "write"} => Sole(W, t, s, why)
  BY <1>5 DEF Mine, Sole, Apart, Alike
<1> HIDE DEF s, why
<1>8. CASE why = "read"
  <2>1. Continue(W, t) = ReadByte(W, t, s)
    BY <1>8 DEF Continue, s, why
  <2> QED BY <1>1, <1>3, <1>4, <1>8, <1>13, <2>1, ReadOK
<1>9. CASE why = "write"
  <2>1. Continue(W, t) = sosend(W, t, s)
    BY <1>9 DEF Continue, s, why
  <2> QED BY <1>1, <1>3, <1>4, <1>9, <1>13, <2>1, SendOK
<1>10. CASE why = "accept"
  <2>1. Continue(W, t) = accept(W, t, s)
    BY <1>10 DEF Continue, s, why
  <2> QED BY <1>1, <1>3, <1>5, <1>10, <2>1, acceptOK
<1>11. CASE why = "connect"
  <2>1. Continue(W, t) = connect(W, t, s)
    BY <1>11 DEF Continue, s, why
  <2> QED BY <1>1, <1>3, <1>4, <1>5, <1>11, <2>1, connectOK
<1>12. CASE why = "linger"
  <2>1. Continue(W, t) = Linger(W, t, s)
    BY <1>12 DEF Continue, s, why
  <2> QED BY <1>1, <1>3, <1>4, <1>6, <1>12, <2>1, LingerOK
<1> QED
  BY <1>7, <1>8, <1>9, <1>10, <1>11, <1>12

\* A connection that comes into being.
LEMMA NewSock ==
    ASSUME NEW X, NEW W, SoOK(W, X), NEW s \in Conns, ~W.so[s].alive
    PROVE  But(W, X, s) /\ W.so[s].head = "none" /\ Nobody(W, X, s)
<1>1. s \in AllSocks /\ Sound(s, W.so[s])
  BY SockNames DEF SoOK
<1> QED
  BY <1>1, ButOK DEF SoOK, Sound, Linked, Used, Using, Nobody

\* socket and connect.
LEMMA ConnectOK ==
    ASSUME SoInv, NEW t \in Tasks, NEW s \in AllSocks, Connect(t, s)
    PROVE  SoInv'
<1> DEFINE X == Tasks \ {t}
           a == [NoSock EXCEPT !.alive = TRUE, !.fd = TRUE, !.pcb = "syn"]
           b == [a EXCEPT !.flags = (@ \ {"connected", "disconnecting"}) \cup {"connecting"}]
           V == PutSo(w, s, b)
<1>1. s \in Conns /\ ~w.so[s].alive /\ w.task[t] = NoTask /\ w.so \in [AllSocks -> SoRec] /\ w \in SoWorld
  BY WorldIs DEF Connect, SoInv, SoOK
<1>2. w' = connect(soisconnecting(PutSo(w, s, a), s), t, s)
  BY DEF Connect, PutSo
<1>3. soisconnecting(PutSo(w, s, a), s) = V
  <2> DEFINE P == PutSo(w, s, a)
  <2>1. [a EXCEPT !.flags = (a.flags \ {"connected", "disconnecting"}) \cup {"connecting"}] = b
    OBVIOUS
  <2> HIDE DEF a, b
  <2>2. P = [w EXCEPT !.so = [w.so EXCEPT ![s] = a]]
    BY DEF PutSo
  <2>3. P.so = [w.so EXCEPT ![s] = a]
    BY <1>1, <2>2 DEF SoWorld
  <2>4. P.so[s] = a
    BY <1>1, <2>3
  <2> HIDE DEF P
  <2>5. soisconnecting(P, s) = [P EXCEPT !.so = [P.so EXCEPT ![s] = b]]
    BY <2>1, <2>4 DEF soisconnecting, Flag
  <2>6. [P.so EXCEPT ![s] = b] = [w.so EXCEPT ![s] = b]
    BY <1>1, <2>3
  <2>7. soisconnecting(P, s) = [w EXCEPT !.so = [w.so EXCEPT ![s] = b]]
    BY <1>1, <2>2, <2>5, <2>6 DEF SoWorld
  <2> QED BY <2>7 DEF P, PutSo
<1>4. /\ b \in SoRec /\ b.alive /\ b.fd /\ b.pcb = "syn" /\ b.flags = {"connecting"} /\ b.head = "none" /\ ~b.error /\ ~b.listen
      /\ b.rcv.want = 0 /\ b.rcv.sem = 0 /\ b.snd.want = 0 /\ b.snd.sem = 0
  BY NoSockIs DEF SoRec
<1> HIDE DEF b
<1>5. SoOK(w, X)
  BY <1>1, LeaveOK DEF SoInv, NoTask
<1>6. But(w, X, s) /\ w.so[s].head = "none" /\ Nobody(w, X, s)
  BY <1>1, <1>5, NewSock
<1>7. But(V, X, s) /\ Reasons(V, s) /\ V.task = w.task /\ V.so[s] = b
  BY <1>1, <1>4, <1>6, AloneOK DEF Nobody
<1>8. Sound(s, b)
  BY <1>1, <1>4, SockNames DEF Sound, Linked
<1> HIDE DEF V
<1>9. SoOK(V, X)
  BY <1>7, <1>8, ButOK
<1>10. Mine(V, t, s, "connect")
  BY <1>4, <1>6, <1>7 DEF Mine, Nobody
<1>11. SoOK(connect(V, t, s), Tasks)
  BY <1>1, <1>9, <1>10, connectOK
<1> QED
  BY <1>2, <1>3, <1>11 DEF SoInv

\* The steps of a task that is free.
LEMMA CallOK ==
    ASSUME SoInv, NEW t \in Tasks, NEW s \in AllSocks, Read(t, s) \/ Write(t, s) \/ Close(t, s) \/ Accept(t)
    PROVE  SoInv'
<1> DEFINE X == Tasks \ {t}
<1>1. w.task[t] = NoTask
  BY DEF Read, Write, Close, Accept, Free
<1>2. SoOK(w, X) /\ w \in SoWorld
  BY <1>1, LeaveOK DEF SoInv, NoTask, SoOK
<1>3. ASSUME NEW x \in AllSocks, NEW op, Free(t, x, op) PROVE Sole(w, t, x, op)
  BY <1>2, <1>3 DEF Free, Sleepers, Sole, SoOK, Sound, Linked
<1>8. Sole(w, t, Listener, "accept") => Mine(w, t, Listener, "accept")
  BY <1>2 DEF Sole, Mine, Apart, Alike, Timeo, SoOK, Used, Using
<1>4. CASE Read(t, s)
  <2>1. Sole(w, t, s, "read") /\ s \in Conns /\ w' = ReadByte(w, t, s)
    BY <1>3, <1>4, SockNames DEF Read
  <2> QED BY <1>2, <2>1, ReadOK DEF SoInv
<1>5. CASE Write(t, s)
  <2>1. Sole(w, t, s, "write") /\ s \in Conns /\ w' = sosend(w, t, s)
    BY <1>3, <1>5, SockNames DEF Write
  <2> QED BY <1>2, <2>1, SendOK DEF SoInv
<1>6. CASE Accept(t)
  <2>1. Mine(w, t, Listener, "accept") /\ w' = accept(w, t, Listener)
    BY <1>3, <1>6, <1>8, SockNames DEF Accept
  <2> QED BY <1>2, <2>1, acceptOK DEF SoInv
<1>7. CASE Close(t, s)
  <2>1. w.so[s].fd /\ w' = soclose(w, t, s)
    BY <1>7 DEF Close
  <2>2. Nobody(w, X, s)
    <3>1. ASSUME NEW u \in X, w.task[u].at # "idle", w.task[u].on = s PROVE FALSE
      <4>1. w.task[u].why # "none"
        BY <1>2, <3>1 DEF SoOK, Used, Using
      <4>2. w.task[u].why \in {"read", "write"} \cup Timeo
        BY <1>2, <4>1, WorldIs DEF TaskRec
      <4> QED BY <1>7, <3>1, <4>2 DEF Close, Sleepers
    <3> QED BY <3>1 DEF Nobody
  <2> QED BY <1>2, <2>1, <2>2, socloseOK DEF SoInv
<1> QED
  BY <1>4, <1>5, <1>6, <1>7

-----------------------------------------------------------------------------
(***************************************************************************)
(* The steps of the protocol.                                              *)
(***************************************************************************)
\* A socket with a connection is not the listening one.
LEMMA HasConn ==
    ASSUME SoInv, NEW s \in AllSocks, w.so[s].pcb \notin {"none", "listen"} \/ (s # Listener /\ w.so[s].pcb # "none")
    PROVE  /\ s \in Conns /\ s # Listener /\ But(w, Tasks, s) /\ Sound(s, w.so[s]) /\ Reasons(w, s) /\ w \in SoWorld
           /\ w.so[s] \in SoRec /\ w.so[s].rcv \in SoBuf /\ w.so[s].snd \in SoBuf /\ w.bytes \in Nat
           /\ w.so[s].alive /\ ~w.so[s].error /\ ~w.so[s].listen
<1>1. But(w, Tasks, s) /\ Sound(s, w.so[s]) /\ Reasons(w, s) /\ w \in SoWorld
  BY ButOK DEF SoInv, SoOK
<1>2. s # Listener
  BY <1>1 DEF Sound, Linked
<1> QED
  BY <1>1, <1>2, SockNames, WorldIs DEF Sound, Linked

\* One flag that ends the transfer is set, and those who wait are woken.
LEMMA CantOK ==
    ASSUME SoInv, NEW s \in Conns, w.so[s].pcb # "none",
           \/ w' = socantrcvmore(w, s)
           \/ w' = socantsendmore(w, s)
    PROVE  SoInv'
<1> DEFINE R == Flag(w, s, {}, {"cantrcvmore"})
           S == Flag(w, s, {}, {"cantsendmore"})
           r == w.so[s]
<1>1. /\ s \in AllSocks /\ s # Listener /\ But(w, Tasks, s) /\ Sound(s, r) /\ Reasons(w, s)
  BY SockNames, HasConn
<1>2. ASSUME NEW on \in {"cantrcvmore", "cantsendmore"}, NEW U, U = Flag(w, s, {}, {on})
      PROVE  /\ But(U, Tasks, s) /\ Sound(s, U.so[s]) /\ TimeoWaits(U, s)
             /\ on = "cantrcvmore" => WriteWaits(U, s)
             /\ on = "cantsendmore" => ReadWaits(U, s)
  <2>1. {on} \in SUBSET Flags /\ {} \cap {"cantrcvmore", "cantsendmore"} = {}
    BY DEF Flags
  <2>2. But(U, Tasks, s) /\ Turned(w, U, s, (r.flags \ {}) \cup {on})
    BY <1>1, <1>2, <2>1, FlagOK
  <2>3. LikeSock(r, U.so[s]) /\ U.so[s].flags = r.flags \cup {on}
    BY <2>2 DEF Turned
  <2>4. Sound(s, U.so[s])
    BY <1>1, <2>3 DEF Sound, Linked, LikeSock
  <2>5. U.task = w.task /\ U.so[s].timeo = r.timeo /\ U.so[s].rcv = r.rcv /\ U.so[s].snd = r.snd
    <3>1. w \in SoWorld /\ r \in SoRec
      BY HasConn, <1>1
    <3>2. w.so \in [AllSocks -> SoRec]
      BY <3>1, WorldIs
    <3> DEFINE v == [r EXCEPT !.flags = (@ \ {}) \cup {on}]
    <3>3. U = [w EXCEPT !.so = [w.so EXCEPT ![s] = v]]
      BY <1>2 DEF Flag
    <3>4. v.timeo = r.timeo /\ v.rcv = r.rcv /\ v.snd = r.snd
      BY <3>1 DEF SoRec
    <3> HIDE DEF v
    <3> QED BY <1>1, <3>1, <3>2, <3>3, <3>4 DEF SoWorld
  <2>6. \A which : Waits(U, s, which) = Waits(w, s, which)
    BY <2>5 DEF Waits, Sleepers
  <2> QED BY <1>1, <2>2, <2>3, <2>4, <2>5, <2>6 DEF Reasons, ReadWaits, WriteWaits, TimeoWaits, LikeSock
<1>3. CASE w' = socantrcvmore(w, s)
  <2> DEFINE V == sorwakeup(R, s)
  <2>1. w' = V
    BY <1>3 DEF socantrcvmore
  <2>2. But(R, Tasks, s) /\ Sound(s, R.so[s]) /\ TimeoWaits(R, s) /\ WriteWaits(R, s)
    BY <1>2
  <2> HIDE DEF R
  <2>3. /\ Kept(R, V) /\ Counts(V) /\ ReadWaits(V, s)
        /\ \A x \in AllSocks : /\ TimeoWaits(R, x) => TimeoWaits(V, x)
                               /\ WriteWaits(R, x) => WriteWaits(V, x)
                               /\ x # s /\ ReadWaits(R, x) => ReadWaits(V, x)
    BY <1>1, <2>2, sorwakeupOK DEF But
  <2> HIDE DEF V
  <2>4. \A x \in AllSocks : x # s /\ Reasons(R, x) => Reasons(V, x)
    BY <2>3 DEF Reasons
  <2>5. But(V, Tasks, s) /\ Sound(s, V.so[s])
    BY <1>1, <2>2, <2>3, <2>4, ButKept
  <2>6. Reasons(V, s)
    BY <1>1, <2>2, <2>3 DEF Reasons
  <2>7. SoOK(V, Tasks)
    BY <1>1, <2>5, <2>6, ButOK
  <2> QED BY <2>1, <2>7 DEF SoInv
<1>4. CASE w' = socantsendmore(w, s)
  <2> DEFINE V == sowwakeup(S, s)
  <2>1. w' = V
    BY <1>4 DEF socantsendmore
  <2>2. But(S, Tasks, s) /\ Sound(s, S.so[s]) /\ TimeoWaits(S, s) /\ ReadWaits(S, s)
    BY <1>2
  <2> HIDE DEF S
  <2>3. /\ Kept(S, V) /\ Counts(V) /\ WriteWaits(V, s)
        /\ \A x \in AllSocks : /\ TimeoWaits(S, x) => TimeoWaits(V, x)
                               /\ ReadWaits(S, x) => ReadWaits(V, x)
                               /\ x # s /\ WriteWaits(S, x) => WriteWaits(V, x)
    BY <1>1, <2>2, sowwakeupOK DEF But
  <2> HIDE DEF V
  <2>4. \A x \in AllSocks : x # s /\ Reasons(S, x) => Reasons(V, x)
    BY <2>3 DEF Reasons
  <2>5. But(V, Tasks, s) /\ Sound(s, V.so[s])
    BY <1>1, <2>2, <2>3, <2>4, ButKept
  <2>6. Reasons(V, s)
    BY <1>1, <2>2, <2>3 DEF Reasons
  <2>7. SoOK(V, Tasks)
    BY <1>1, <2>5, <2>6, ButOK
  <2> QED BY <2>1, <2>7 DEF SoInv
<1> QED
  BY <1>3, <1>4

\* FinReceived, Shutdown, OurFinAcked, Expired and Reset.
LEMMA EndOK ==
    ASSUME SoInv, NEW s \in AllSocks,
           FinReceived(s) \/ Shutdown(s) \/ OurFinAcked(s) \/ Expired(s) \/ Reset(s)
    PROVE  SoInv'
<1> DEFINE r == w.so[s]
<1>1. CASE FinReceived(s)
  BY <1>1, HasConn, CantOK DEF FinReceived
<1>2. CASE Shutdown(s)
  <2>1. s # Listener /\ r.pcb # "none"
    BY <1>2 DEF Shutdown, SoInv, SoOK, Sound, Linked
  <2> QED BY <1>2, <2>1, HasConn, CantOK DEF Shutdown
<1>3. CASE OurFinAcked(s)
  <2> DEFINE V == soisdisconnected(w, s)
  <2>1. w' = V /\ r.pcb = "closing"
    BY <1>3 DEF OurFinAcked
  <2>2. s \in Conns /\ s # Listener /\ But(w, Tasks, s) /\ Sound(s, r) /\ r.alive /\ ~r.error /\ ~r.listen
    BY <2>1, HasConn
  <2>3. But(V, Tasks, s) /\ Reasons(V, s)
        /\ Turned(w, V, s, (r.flags \ {"connecting", "connected", "disconnecting"}) \cup {"cantrcvmore", "cantsendmore"})
    BY <2>2, soisdisconnectedOK
  <2> HIDE DEF V
  <2>4. /\ V.so[s].alive = r.alive /\ V.so[s].fd = r.fd /\ V.so[s].error = r.error /\ V.so[s].head = r.head
        /\ V.so[s].listen = r.listen /\ V.so[s].pcb = r.pcb /\ "disconnecting" \notin V.so[s].flags
    BY <2>3 DEF Turned, LikeSock
  <2>5. Sound(s, V.so[s])
    BY <2>1, <2>2, <2>4 DEF Sound, Linked
  <2>6. SoOK(V, Tasks)
    BY <2>3, <2>5, ButOK
  <2> QED BY <2>1, <2>6 DEF SoInv
<1>4. CASE Expired(s)
  <2>1. w' = tcp_close(w, s) /\ r.pcb = "closing"
    BY <1>4 DEF Expired
  <2>2. s \in Conns
    BY <2>1, HasConn
  <2> QED BY <2>1, <2>2, AbortOne DEF SoInv
<1>5. CASE Reset(s)
  <2> DEFINE v == [r EXCEPT !.error = TRUE]
             U == PutSo(w, s, v)
  <2>1. w' = tcp_close(U, s) /\ s # Listener /\ r.pcb # "none"
    BY <1>5 DEF Reset, PutSo
  <2>2. s \in Conns /\ But(w, Tasks, s) /\ Sound(s, r) /\ r.alive /\ ~r.listen /\ r \in SoRec
    BY <2>1, HasConn
  <2>3. Plain(r, v) /\ v.listen = r.listen /\ v.alive = r.alive /\ v.fd = r.fd /\ v.head = r.head
    BY <2>2 DEF Plain, SoRec
  <2> HIDE DEF v
  <2>4. But(U, Tasks, s) /\ U.so[s] = v
    BY <2>2, <2>3, PlainOK
  <2> HIDE DEF U
  <2>5. r.head = Listener => ~r.fd
    BY <2>2 DEF Sound, Linked
  <2>6. SoOK(tcp_close(U, s), Tasks)
    BY <2>2, <2>3, <2>4, <2>5, tcp_closeOK
  <2> QED BY <2>1, <2>6 DEF SoInv
<1> QED
  BY <1>1, <1>2, <1>3, <1>4, <1>5

\* Data: a byte for a reader.
LEMMA DataOK ==
    ASSUME SoInv, NEW s \in AllSocks, Data(s)
    PROVE  SoInv'
<1> DEFINE r == w.so[s]
           d == [r.rcv EXCEPT !.cc = @ + 1]
           v == [r EXCEPT !.rcv = d]
           U == PutSo(w, s, v)
           n == w.bytes + 1
           B == [U EXCEPT !.bytes = n]
           V == sorwakeup(B, s)
<1>1. r.pcb = "est" /\ w' = V
  BY DEF Data, PutSo
<1>2. /\ s \in Conns /\ But(w, Tasks, s) /\ Sound(s, r) /\ Reasons(w, s) /\ w \in SoWorld
      /\ r \in SoRec /\ r.rcv \in SoBuf /\ w.bytes \in Nat
  BY <1>1, HasConn
<1>3. d \in SoBuf /\ d.want = r.rcv.want /\ d.sem = r.rcv.sem /\ n \in Nat
  BY <1>2 DEF SoBuf
<1> HIDE DEF d, n
<1>4. Plain(r, v) /\ v.error = r.error /\ v.flags = r.flags /\ v.listen = r.listen /\ v.pcb = r.pcb /\ v.snd = r.snd
  BY <1>2, <1>3 DEF SoRec, Plain
<1> HIDE DEF v
<1>5. But(U, Tasks, s) /\ U.so[s] = v /\ U.task = w.task /\ U \in SoWorld
  BY <1>2, <1>4, PlainOK
<1> HIDE DEF U
<1>6. But(B, Tasks, s) /\ B.so = U.so /\ B.task = U.task
  BY <1>3, <1>5, BytesOK
<1> HIDE DEF B
<1>7. \A which : Waits(B, s, which) = Waits(w, s, which)
  BY <1>5, <1>6 DEF Waits, Sleepers
<1>8. TimeoWaits(B, s) /\ WriteWaits(B, s)
  BY <1>2, <1>4, <1>5, <1>6, <1>7 DEF Reasons, TimeoWaits, WriteWaits, Plain
<1>9. Sound(s, B.so[s])
  BY <1>2, <1>4, <1>5, <1>6 DEF Sound, Linked, Plain
<1>10. /\ Kept(B, V) /\ Counts(V) /\ ReadWaits(V, s)
       /\ \A x \in AllSocks : /\ TimeoWaits(B, x) => TimeoWaits(V, x)
                              /\ WriteWaits(B, x) => WriteWaits(V, x)
                              /\ x # s /\ ReadWaits(B, x) => ReadWaits(V, x)
  BY <1>6, sorwakeupOK DEF But
<1> HIDE DEF V
<1>11. \A x \in AllSocks : x # s /\ Reasons(B, x) => Reasons(V, x)
  BY <1>10 DEF Reasons
<1>12. But(V, Tasks, s) /\ Sound(s, V.so[s])
  BY <1>6, <1>9, <1>10, <1>11, ButKept
<1>13. SoOK(V, Tasks)
  BY <1>8, <1>10, <1>12, ButOK DEF Reasons
<1> QED
  BY <1>1, <1>13 DEF SoInv

\* SendAcked: room for a writer.
LEMMA SendAckedOK ==
    ASSUME SoInv, NEW s \in AllSocks, SendAcked(s)
    PROVE  SoInv'
<1> DEFINE r == w.so[s]
           d == [r.snd EXCEPT !.cc = @ - 1]
           v == [r EXCEPT !.snd = d]
           B == PutSo(w, s, v)
           V == sowwakeup(B, s)
<1>1. r.pcb \in {"est", "closing"} /\ r.snd.cc > 0 /\ w' = V
  BY DEF SendAcked, PutSo
<1>2. /\ s \in Conns /\ But(w, Tasks, s) /\ Sound(s, r) /\ Reasons(w, s) /\ w \in SoWorld
      /\ r \in SoRec /\ r.snd \in SoBuf
  BY <1>1, HasConn
<1>3. d \in SoBuf /\ d.want = r.snd.want /\ d.sem = r.snd.sem
  BY <1>1, <1>2 DEF SoBuf
<1> HIDE DEF d
<1>4. Plain(r, v) /\ v.error = r.error /\ v.flags = r.flags /\ v.listen = r.listen /\ v.pcb = r.pcb /\ v.rcv = r.rcv
  BY <1>2, <1>3 DEF SoRec, Plain
<1> HIDE DEF v
<1>5. But(B, Tasks, s) /\ B.so[s] = v /\ B.task = w.task
  BY <1>2, <1>4, PlainOK
<1> HIDE DEF B
<1>6. \A which : Waits(B, s, which) = Waits(w, s, which)
  BY <1>5 DEF Waits, Sleepers
<1>7. TimeoWaits(B, s) /\ ReadWaits(B, s)
  BY <1>2, <1>4, <1>5, <1>6 DEF Reasons, TimeoWaits, ReadWaits, Plain
<1>8. Sound(s, B.so[s])
  BY <1>2, <1>4, <1>5 DEF Sound, Linked, Plain
<1>9. /\ Kept(B, V) /\ Counts(V) /\ WriteWaits(V, s)
      /\ \A x \in AllSocks : /\ TimeoWaits(B, x) => TimeoWaits(V, x)
                             /\ ReadWaits(B, x) => ReadWaits(V, x)
                             /\ x # s /\ WriteWaits(B, x) => WriteWaits(V, x)
  BY <1>5, sowwakeupOK DEF But
<1> HIDE DEF V
<1>10. \A x \in AllSocks : x # s /\ Reasons(B, x) => Reasons(V, x)
  BY <1>9 DEF Reasons
<1>11. But(V, Tasks, s) /\ Sound(s, V.so[s])
  BY <1>5, <1>8, <1>9, <1>10, ButKept
<1>12. SoOK(V, Tasks)
  BY <1>7, <1>9, <1>11, ButOK DEF Reasons
<1> QED
  BY <1>1, <1>12 DEF SoInv

\* ksleep takes the semaphore, or is blocked.
LEMMA semTakeOK ==
    ASSUME SoInv, NEW t \in Tasks, semTake(t)
    PROVE  SoInv'
<1> DEFINE s == w.task[t].on
           why == w.task[t].why
           r == w.so[s]
<1>1. w \in SoWorld /\ w.task[t] \in TaskRec /\ w.task[t].at = "going" /\ Using(w, Tasks, t)
  BY WorldIs DEF SoInv, SoOK, Used, semTake
<1>2. s \in AllSocks /\ why \in {"read", "write"} \cup Timeo
  BY <1>1 DEF Using, TaskRec
<1>3. /\ Counted(w, r.rcv, s, "read") /\ Counted(w, r.snd, s, "write") /\ But(w, Tasks, s) /\ Reasons(w, s) /\ Sound(s, r)
      /\ r \in SoRec /\ r.rcv \in SoBuf /\ r.snd \in SoBuf
  BY <1>1, <1>2, ButOK, WorldIs DEF SoInv, SoOK, Counts
<1>4. \A at \in {"blocked", "ready"} :
        [w.task[t] EXCEPT !.at = at] \in TaskRec /\ [w.task[t] EXCEPT !.at = at].at = at
        /\ [w.task[t] EXCEPT !.at = at].on = s /\ [w.task[t] EXCEPT !.at = at].why = why
  BY <1>1 DEF TaskRec
<1>5. \A which : why \in which => t \in Waits(w, s, which)
  BY <1>1 DEF Waits, Sleepers
<1>6. \A u \in Tasks : w.task[u].at # "idle" /\ w.task[u].on = s => u = t \/ ~Alike(w.task[u].why, why)
  BY <1>1 DEF Using
<1>7. ASSUME NEW U, U.so = w.so, U \in SoWorld, U.task[t].on = s, U.task[t].why = why, U.task[t].at \in {"blocked", "ready"},
             \A u \in Tasks : u # t => U.task[u] = w.task[u]
      PROVE  Used(U, Tasks)
  <2>1. \A u \in Tasks : U.task[u].on = w.task[u].on /\ U.task[u].why = w.task[u].why
                         /\ (U.task[u].at # "idle" <=> w.task[u].at # "idle")
    BY <1>1, <1>7
  <2>2. ASSUME NEW u \in Tasks, U.task[u].at # "idle" PROVE Using(U, Tasks, u)
    <3>1. Using(w, Tasks, u)
      BY <2>1, <2>2 DEF SoInv, SoOK, Used
    <3> QED BY <1>7, <2>1, <3>1 DEF Using
  <2> QED BY <2>2 DEF Used
<1>8. Queued(w)
  BY DEF SoInv, SoOK
<1>9. CASE SemOf(s, why) = 0
  <2> DEFINE b == [w.task[t] EXCEPT !.at = "blocked"]
             V == PutTk(w, t, b)
  <2>1. w' = V
    BY <1>9 DEF semTake, PutTk
  <2>2. b \in TaskRec /\ b.at = "blocked" /\ b.on = s /\ b.why = why
    BY <1>4
  <2> HIDE DEF b
  <2>3. V \in SoWorld /\ V.so = w.so /\ V.task[t] = b /\ \A u \in Tasks : u # t => V.task[u] = w.task[u]
    BY <1>1, <2>2, PutTask
  <2> HIDE DEF V
  <2>4. \A x : \A which : Waits(V, x, which) = Waits(w, x, which)
    BY <1>1, <2>2, <2>3 DEF Waits, Sleepers
  <2>5. Used(V, Tasks)
    BY <1>7, <2>2, <2>3
  <2>6. /\ why = "read" => r.rcv.sem = 0
        /\ why = "write" => r.snd.sem = 0
        /\ why \in Timeo => r.timeo = 0
    BY <1>2, <1>9 DEF SemOf, Timeo
  <2>7. ASSUME NEW x \in AllSocks
        PROVE  /\ Counted(V, V.so[x].rcv, x, "read") /\ Counted(V, V.so[x].snd, x, "write")
               /\ \A u \in Waits(V, x, Timeo) : V.task[u].at = "blocked" => V.so[x].timeo = 0
    <3>1. /\ Counted(w, w.so[x].rcv, x, "read") /\ Counted(w, w.so[x].snd, x, "write")
          /\ \A u \in Waits(w, x, Timeo) : w.task[u].at = "blocked" => w.so[x].timeo = 0
      BY DEF SoInv, SoOK, Counts
    <3>2. \A which : t \in Waits(w, x, which) => x = s /\ why \in which
      BY DEF Waits, Sleepers
    <3>3. \A op : \A u \in Waits(w, x, {op}) : u \in Tasks
      BY DEF Waits, Sleepers
    <3>4. Counted(V, V.so[x].rcv, x, "read")
      BY <2>3, <2>4, <2>6, <3>1, <3>2, <3>3, ZenonT(60) DEF Counted
    <3>5. Counted(V, V.so[x].snd, x, "write")
      BY <2>3, <2>4, <2>6, <3>1, <3>2, <3>3, ZenonT(60) DEF Counted
    <3>6. \A u \in Waits(V, x, Timeo) : V.task[u].at = "blocked" => V.so[x].timeo = 0
      <4>1. \A u \in Waits(w, x, Timeo) : u \in Tasks
        BY DEF Waits, Sleepers
      <4> QED BY <2>3, <2>4, <2>6, <3>1, <3>2, <4>1
    <3> QED BY <3>4, <3>5, <3>6
  <2>8. \A x \in AllSocks : Reasons(V, x)
    <3>1. \A x \in AllSocks : Reasons(w, x)
      BY DEF SoInv, SoOK, Reasons
    <3>2. \A u \in Tasks : V.task[u].why = w.task[u].why
      BY <2>2, <2>3
    <3>3. \A x : \A u \in Waits(w, x, Timeo) : u \in Tasks
      BY DEF Waits, Sleepers
    <3> QED BY <2>3, <2>4, <3>1, <3>2, <3>3 DEF Reasons, ReadWaits, WriteWaits, TimeoWaits
  <2>9. Counts(V) /\ Queued(V)
    BY <1>8, <2>3, <2>7 DEF Counts, Queued
  <2>10. SoOK(V, Tasks)
    BY <2>3, <2>5, <2>8, <2>9 DEF SoOK, Reasons, SoInv
  <2> QED BY <2>1, <2>10 DEF SoInv
<1> DEFINE b == [w.task[t] EXCEPT !.at = "ready"]
           U == PutTk(w, t, b)
           v == IF why = "read" THEN [r EXCEPT !.rcv = [r.rcv EXCEPT !.sem = 0]]
                ELSE IF why = "write" THEN [r EXCEPT !.snd = [r.snd EXCEPT !.sem = 0]]
                ELSE [r EXCEPT !.timeo = 0]
           V == PutSo(U, s, v)
<1>10. CASE SemOf(s, why) # 0
  <2>1. w' = V
    <3>1. w' = LET W1 == U IN
                 IF why = "read" THEN [W1 EXCEPT !.so[s].rcv.sem = 0]
                 ELSE IF why = "write" THEN [W1 EXCEPT !.so[s].snd.sem = 0]
                 ELSE [W1 EXCEPT !.so[s].timeo = 0]
      BY <1>10 DEF semTake, PutTk
    <3>2. U.so = w.so
      BY DEF PutTk
    <3> HIDE DEF U
    <3>3. why = "read" => w' = [U EXCEPT !.so[s].rcv.sem = 0]
      BY <3>1
    <3>4. why = "write" => w' = [U EXCEPT !.so[s].snd.sem = 0]
      BY <3>1
    <3>5. why \notin {"read", "write"} => w' = [U EXCEPT !.so[s].timeo = 0]
      BY <3>1
    <3> QED BY <3>2, <3>3, <3>4, <3>5 DEF PutSo
  <2>2. b \in TaskRec /\ b.at = "ready" /\ b.on = s /\ b.why = why
    BY <1>4
  <2> HIDE DEF b
  <2>3. U \in SoWorld /\ U.so = w.so /\ U.task[t] = b /\ \A u \in Tasks : u # t => U.task[u] = w.task[u]
    BY <1>1, <2>2, PutTask
  <2> HIDE DEF U
  <2>4. Used(U, Tasks)
    BY <1>7, <2>2, <2>3
  <2>5. /\ v \in SoRec /\ SameSock(r, v)
        /\ why = "read" => v.rcv.sem = 0 /\ v.rcv.want = r.rcv.want /\ v.snd = r.snd /\ v.timeo = r.timeo
        /\ why = "write" => v.snd.sem = 0 /\ v.snd.want = r.snd.want /\ v.rcv = r.rcv /\ v.timeo = r.timeo
        /\ why \in Timeo => v.timeo = 0 /\ v.rcv = r.rcv /\ v.snd = r.snd
    <3>1. CASE why = "read"
      <4> DEFINE d == [r.rcv EXCEPT !.sem = 0]
      <4>1. d \in SoBuf /\ d.cc = r.rcv.cc /\ d.want = r.rcv.want /\ d.sem = 0
        BY <1>3 DEF SoBuf
      <4>2. v = [r EXCEPT !.rcv = d]
        BY <3>1
      <4> HIDE DEF d
      <4> QED BY <1>3, <3>1, <4>1, <4>2 DEF SoRec, SameSock, LikeSock, Timeo
    <3>2. CASE why = "write"
      <4> DEFINE d == [r.snd EXCEPT !.sem = 0]
      <4>1. d \in SoBuf /\ d.cc = r.snd.cc /\ d.want = r.snd.want /\ d.sem = 0
        BY <1>3 DEF SoBuf
      <4>2. v = [r EXCEPT !.snd = d]
        BY <3>2
      <4> HIDE DEF d
      <4> QED BY <1>3, <3>2, <4>1, <4>2 DEF SoRec, SameSock, LikeSock, Timeo
    <3>3. CASE why \in Timeo
      <4>1. v = [r EXCEPT !.timeo = 0]
        BY <3>3 DEF Timeo
      <4> QED BY <1>3, <3>3, <4>1 DEF SoRec, SameSock, LikeSock, Timeo
    <3> QED BY <1>2, <3>1, <3>2, <3>3
  <2> HIDE DEF v
  <2>6. V \in SoWorld /\ V.task = U.task /\ V.so[s] = v /\ \A x \in AllSocks : x # s => V.so[x] = w.so[x]
    BY <1>2, <2>3, <2>5, PutSock
  <2> HIDE DEF V
  <2>7. \A x \in AllSocks : \A which : (x # s \/ why \notin which) =>
           Waits(V, x, which) = Waits(w, x, which) /\ \A u \in Waits(w, x, which) : V.task[u] = w.task[u]
    BY <2>2, <2>3, <2>6 DEF Waits, Sleepers
  <2>8. why \in {"read", "write"} => Waits(V, s, {why}) = {}
    BY <1>6, <2>2, <2>3, <2>6 DEF Waits, Sleepers, Alike
  <2>9. why \in Timeo => Waits(V, s, Timeo) = {}
    BY <1>6, <2>2, <2>3, <2>6 DEF Waits, Sleepers, Alike
  <2>10. Used(V, Tasks)
    <3>1. \A u \in Tasks : U.task[u].at # "idle" => LET x == U.task[u].on IN
            V.so[x].alive = U.so[x].alive /\ V.so[x].fd = U.so[x].fd /\ V.so[x].flags = U.so[x].flags
      <4>1. \A x \in AllSocks : V.so[x].alive = U.so[x].alive /\ V.so[x].fd = U.so[x].fd /\ V.so[x].flags = U.so[x].flags
        BY <2>3, <2>5, <2>6 DEF SameSock, LikeSock
      <4>2. \A u \in Tasks : U.task[u].at # "idle" => U.task[u].on \in AllSocks
        BY <2>4 DEF Used, Using
      <4> QED BY <4>1, <4>2
    <3> QED BY <2>4, <2>6, <3>1, UsedSame
  <2>11. /\ why = "read" => r.rcv.want = 0
         /\ why = "write" => r.snd.want = 0
    <3>1. CASE why = "read"
      <4>1. r.rcv.want + r.rcv.sem = 1 /\ r.rcv.want \in Nat /\ r.rcv.sem = 1
        BY <1>3, <1>5, <1>10, <3>1 DEF Counted, SemOf, SoBuf
      <4> QED BY <3>1, <4>1
    <3>2. CASE why = "write"
      <4>1. r.snd.want + r.snd.sem = 1 /\ r.snd.want \in Nat /\ r.snd.sem = 1
        BY <1>3, <1>5, <1>10, <3>2 DEF Counted, SemOf, SoBuf
      <4> QED BY <3>2, <4>1
    <3> QED BY <3>1, <3>2
  <2>12. Counted(V, V.so[s].rcv, s, "read") /\ ReadWaits(V, s)
    <3>1. CASE why = "read"
      BY <2>5, <2>6, <2>8, <2>11, <3>1 DEF Counted, ReadWaits
    <3>2. CASE why # "read"
      <4>1. v.rcv = r.rcv /\ Waits(V, s, {"read"}) = Waits(w, s, {"read"}) /\ \A u \in Waits(w, s, {"read"}) : V.task[u] = w.task[u]
        BY <1>2, <2>5, <2>7, <3>2
      <4> QED BY <1>3, <2>5, <2>6, <4>1, ZenonT(60) DEF Counted, ReadWaits, Reasons, SameSock, LikeSock
    <3> QED BY <3>1, <3>2
  <2>13. Counted(V, V.so[s].snd, s, "write") /\ WriteWaits(V, s)
    <3>1. CASE why = "write"
      BY <2>5, <2>6, <2>8, <2>11, <3>1 DEF Counted, WriteWaits
    <3>2. CASE why # "write"
      <4>1. v.snd = r.snd /\ Waits(V, s, {"write"}) = Waits(w, s, {"write"}) /\ \A u \in Waits(w, s, {"write"}) : V.task[u] = w.task[u]
        BY <1>2, <2>5, <2>7, <3>2
      <4> QED BY <1>3, <2>5, <2>6, <4>1, ZenonT(60) DEF Counted, WriteWaits, Reasons, SameSock, LikeSock
    <3> QED BY <3>1, <3>2
  <2>14. TimeoWaits(V, s) /\ \A u \in Waits(V, s, Timeo) : V.task[u].at = "blocked" => V.so[s].timeo = 0
    <3>1. CASE why \in Timeo
      BY <2>9, <3>1 DEF TimeoWaits
    <3>2. CASE why \notin Timeo
      <4>1. v.timeo = r.timeo /\ Waits(V, s, Timeo) = Waits(w, s, Timeo) /\ \A u \in Waits(w, s, Timeo) : V.task[u] = w.task[u]
        BY <1>2, <2>5, <2>7, <3>2
      <4>2. \A u \in Waits(w, s, Timeo) : w.task[u].at = "blocked" => r.timeo = 0
        BY <1>2 DEF SoInv, SoOK, Counts
      <4> QED BY <1>3, <2>5, <2>6, <4>1, <4>2, ZenonT(60) DEF TimeoWaits, Reasons, SameSock, LikeSock
    <3> QED BY <3>1, <3>2
  <2>15. ASSUME NEW x \in AllSocks, x # s
         PROVE  /\ Counted(V, V.so[x].rcv, x, "read") /\ Counted(V, V.so[x].snd, x, "write")
                /\ \A u \in Waits(V, x, Timeo) : V.task[u].at = "blocked" => V.so[x].timeo = 0
                /\ Sound(x, V.so[x]) /\ ReadWaits(V, x) /\ WriteWaits(V, x) /\ TimeoWaits(V, x)
    BY <2>6, <2>7, <2>15 DEF SoInv, SoOK, Counts, Counted, ReadWaits, WriteWaits, TimeoWaits
  <2>16. Sound(s, V.so[s])
    BY <1>3, <2>5, <2>6 DEF Sound, Linked, SameSock, LikeSock
  <2>17. Queued(V)
    <3>1. \A x \in AllSocks : V.so[x].q0 = w.so[x].q0 /\ V.so[x].q = w.so[x].q /\ V.so[x].head = w.so[x].head
      BY <2>5, <2>6 DEF SameSock, LikeSock
    <3> QED BY <1>8, <3>1, SockNames DEF Queued
  <2>18. Counts(V)
    BY <2>12, <2>13, <2>14, <2>15 DEF Counts
  <2>19. SoOK(V, Tasks)
    BY <2>6, <2>10, <2>12, <2>13, <2>14, <2>15, <2>16, <2>17, <2>18 DEF SoOK
  <2> QED BY <2>1, <2>19 DEF SoInv
<1> QED
  BY <1>9, <1>10

\* The listening socket when s joins q0 or q.
JoinedAs(h, g) ==
    /\ g \in SoRec /\ g.alive = h.alive /\ g.fd = h.fd /\ g.flags = h.flags /\ g.error = h.error
    /\ g.head = h.head /\ g.listen = h.listen /\ g.pcb = h.pcb /\ g.timeo = h.timeo
    /\ g.rcv = h.rcv /\ g.snd = h.snd

\* A connection s that nobody sleeps in becomes r, and the queues change with it.
LEMMA QueuesOK ==
    ASSUME NEW X, NEW W, NEW s \in Conns, SoOK(W, X), Nobody(W, X, s), NEW g, JoinedAs(W.so[Listener], g),
           NEW r \in SoRec, Sound(s, r),
           r.rcv = W.so[s].rcv \/ (r.rcv.want = 0 /\ r.rcv.sem = 0),
           r.snd = W.so[s].snd \/ (r.snd.want = 0 /\ r.snd.sem = 0),
           NEW V, V = PutSo(PutSo(W, Listener, g), s, r), Queued(V)
    PROVE  But(V, X, Listener) /\ V.so[Listener] = g /\ V.task = W.task /\ ReadWaits(V, Listener) /\ WriteWaits(V, Listener)
           /\ Sound(Listener, g) /\ (g.q = W.so[Listener].q => TimeoWaits(V, Listener))
<1> DEFINE h == W.so[Listener]
           U == PutSo(W, Listener, g)
<1>1. W \in SoWorld /\ g \in SoRec /\ s # Listener /\ s \in AllSocks /\ Listener \in AllSocks
  BY SockNames DEF SoOK, JoinedAs
<1>2. U \in SoWorld /\ U.task = W.task /\ U.so[Listener] = g /\ \A x \in AllSocks : x # Listener => U.so[x] = W.so[x]
  BY <1>1, PutSock
<1>3. V = PutSo(U, s, r)
  OBVIOUS
<1> HIDE DEF U
<1>4. V \in SoWorld /\ V.task = U.task /\ V.so[s] = r /\ \A x \in AllSocks : x # s => V.so[x] = U.so[x]
  BY <1>2, <1>3, SockNames, PutSock
<1>5. V.task = W.task /\ V.so[Listener] = g /\ \A x \in AllSocks : x # s /\ x # Listener => V.so[x] = W.so[x]
  BY <1>1, <1>2, <1>4
<1>6. Used(V, X)
  <2>1. Used(W, X)
    BY DEF SoOK
  <2>2. \A t \in X : W.task[t].at # "idle" => LET x == W.task[t].on IN
          V.so[x].alive = W.so[x].alive /\ V.so[x].fd = W.so[x].fd /\ V.so[x].flags = W.so[x].flags
    <3>1. \A x \in AllSocks : x # s => V.so[x].alive = W.so[x].alive /\ V.so[x].fd = W.so[x].fd /\ V.so[x].flags = W.so[x].flags
      BY <1>5 DEF JoinedAs
    <3>2. \A t \in X : W.task[t].at # "idle" => W.task[t].on \in AllSocks /\ W.task[t].on # s
      BY <2>1 DEF Used, Using, Nobody
    <3> QED BY <3>1, <3>2
  <2> QED BY <1>5, <2>1, <2>2, UsedSame, ZenonT(60)
<1>7. \A x : \A which : Waits(V, x, which) = Waits(W, x, which)
  BY <1>5 DEF Waits, Sleepers
<1>8. \A which : Waits(V, s, which) = {}
  BY <1>5 DEF Waits, Sleepers, SoOK, Used, Nobody
<1>9. \A x \in AllSocks : x # s => V.so[x].rcv = W.so[x].rcv /\ V.so[x].snd = W.so[x].snd /\ V.so[x].timeo = W.so[x].timeo
  BY <1>5 DEF JoinedAs
<1>10. Counted(W, W.so[s].rcv, s, "read") /\ Counted(W, W.so[s].snd, s, "write")
  BY <1>1 DEF SoOK, Counts
<1>11. Counted(V, V.so[s].rcv, s, "read") /\ Counted(V, V.so[s].snd, s, "write")
  BY <1>4, <1>7, <1>8, <1>10 DEF Counted
<1>12. Counts(V)
  BY <1>5, <1>7, <1>8, <1>9, <1>11 DEF SoOK, Counts, Counted
<1>13. Reasons(V, s)
  BY <1>8 DEF Reasons, ReadWaits, WriteWaits, TimeoWaits
<1>14. ASSUME NEW x \in AllSocks, x # Listener PROVE Reasons(V, x) /\ Sound(x, V.so[x])
  <2>1. CASE x = s
    BY <1>4, <1>13, <2>1
  <2>2. CASE x # s
    <3>1. Reasons(W, x) /\ Sound(x, W.so[x]) /\ V.so[x] = W.so[x]
      BY <1>5, <1>14, <2>2 DEF SoOK, Reasons
    <3> QED BY <1>5, <1>7, <3>1 DEF Reasons, ReadWaits, WriteWaits, TimeoWaits
  <2> QED BY <2>1, <2>2
<1>15. ReadWaits(V, Listener) /\ WriteWaits(V, Listener) /\ Sound(Listener, g)
       /\ (g.q = W.so[Listener].q => TimeoWaits(V, Listener))
  <2>1. ReadWaits(W, Listener) /\ WriteWaits(W, Listener) /\ TimeoWaits(W, Listener) /\ Sound(Listener, h)
    BY <1>1 DEF SoOK
  <2>2. Sound(Listener, g)
    BY <2>1 DEF JoinedAs, Sound, Linked
  <2> QED BY <1>5, <1>7, <2>1, <2>2 DEF JoinedAs, ReadWaits, WriteWaits, TimeoWaits
<1> QED
  BY <1>4, <1>5, <1>6, <1>12, <1>14, <1>15 DEF But, Core

\* A SYN for the listening socket makes a connection in q0.
LEMMA sonewconnOK ==
    ASSUME SoInv, NEW s \in AllSocks, sonewconn(s)
    PROVE  SoInv'
<1> DEFINE h == w.so[Listener]
           r == [NoSock EXCEPT !.alive = TRUE, !.head = Listener, !.pcb = "syn", !.flags = h.flags]
           g == [h EXCEPT !.q0 = Append(@, s)]
           V == PutSo(PutSo(w, Listener, g), s, r)
           m == (3 * qlimit) \div 2
<1>1. /\ s \in Conns /\ ~w.so[s].alive /\ h.pcb = "listen" /\ Len(h.q) + Len(h.q0) <= m
      /\ w' = [w EXCEPT !.so[s] = r, !.so[Listener].q0 = Append(@, s)]
  BY DEF sonewconn
<1>2. /\ w \in SoWorld /\ w.so \in [AllSocks -> SoRec] /\ h \in SoRec /\ s # Listener /\ s \in AllSocks /\ Listener \in AllSocks
      /\ Sound(Listener, h) /\ Sound(s, w.so[s]) /\ Queued(w) /\ SoOK(w, Tasks)
  BY <1>1, SockNames, WorldIs DEF SoInv, SoOK
<1>3. h.alive /\ h.flags = {}
  BY <1>1, <1>2 DEF Sound, Linked
<1>4. w' = V
  <2> DEFINE f == [w.so EXCEPT ![s] = r, ![Listener].q0 = Append(@, s)]
             e == [w.so EXCEPT ![Listener] = g, ![s] = r]
  <2>1. w' = [w EXCEPT !.so = f]
    BY <1>1
  <2>2. f = e
    BY <1>2
  <2> QED BY <2>1, <2>2 DEF PutSo
<1>5. But(w, Tasks, s) /\ w.so[s].head = "none" /\ Nobody(w, Tasks, s)
  BY <1>1, <1>2, NewSock
<1>6. h.q0 \in Seq(Conns) /\ h.q \in Seq(Conns)
  BY <1>2 DEF SoRec
<1>7. NoDup(h.q0) /\ ~Member(h.q0, s) /\ ~Member(h.q, s)
  BY <1>1, <1>2, <1>5, SockNames DEF Queued
<1> DEFINE q == h.q0
<1>8. /\ Append(q, s) \in Seq(Conns) /\ NoDup(Append(q, s)) /\ Len(Append(q, s)) = Len(q) + 1
      /\ \A x : Member(Append(q, s), x) <=> Member(q, x) \/ x = s
  <2> HIDE DEF q
  <2>1. q \in Seq(Conns) /\ NoDup(q) /\ ~Member(q, s)
    BY <1>6, <1>7 DEF q
  <2> QED BY <1>1, <2>1, AppendOK
<1>9. JoinedAs(h, g) /\ g.q0 = Append(q, s) /\ g.q = h.q
  BY <1>2, <1>8 DEF JoinedAs, SoRec
<1>10. /\ r \in SoRec /\ r.alive /\ r.head = Listener /\ r.pcb = "syn" /\ r.flags = {} /\ ~r.fd /\ ~r.error /\ ~r.listen
       /\ r.rcv.want = 0 /\ r.rcv.sem = 0 /\ r.snd.want = 0 /\ r.snd.sem = 0
  BY <1>3, NoSockIs DEF SoRec
<1> HIDE DEF r, g
<1>11. Sound(s, r)
  BY <1>2, <1>10 DEF Sound, Linked
<1>12. V.so[Listener] = g /\ V.so[s] = r /\ \A x \in AllSocks : x # s /\ x # Listener => V.so[x] = w.so[x]
  <2> DEFINE U == PutSo(w, Listener, g)
  <2>1. U \in SoWorld /\ U.so[Listener] = g /\ \A x \in AllSocks : x # Listener => U.so[x] = w.so[x]
    BY <1>2, <1>9, PutSock DEF JoinedAs
  <2> HIDE DEF U
  <2>2. V = PutSo(U, s, r)
    BY DEF U
  <2>3. V.so[s] = r /\ \A x \in AllSocks : x # s => V.so[x] = U.so[x]
    BY <1>2, <1>10, <2>1, <2>2, PutSock
  <2> QED BY <1>2, <2>1, <2>3
<1>13. Queued(V)
  <2>1. Len(g.q0) + Len(g.q) <= m + 1
    <3>1. m \in Int
      BY SocketAssumption
    <3>2. \A a \in Seq(Conns) : Len(a) \in Nat
      OBVIOUS
    <3>3. Len(h.q) \in Nat /\ Len(q) \in Nat
      BY <1>6, <3>2
    <3>4. Len(g.q0) = Len(q) + 1 /\ Len(g.q) = Len(h.q)
      BY <1>8, <1>9
    <3>5. Len(h.q) + Len(q) <= m
      BY <1>1
    <3>6. \A i, j \in Nat : \A k \in Int : i + j <= k => j + 1 + i <= k + 1
      OBVIOUS
    <3> HIDE DEF m, q
    <3>7. Len(q) + 1 + Len(h.q) <= m + 1
      BY <3>1, <3>3, <3>5, <3>6, Zenon
    <3> QED BY <3>4, <3>7
  <2>2. \A x \in Conns : ~ (Member(g.q0, x) /\ Member(g.q, x))
    BY <1>2, <1>7, <1>8, <1>9 DEF Queued
  <2>3. \A x \in Conns : V.so[x].head = Listener <=> Member(g.q0, x) \/ Member(g.q, x)
    BY <1>2, <1>8, <1>9, <1>10, <1>12, SockNames DEF Queued
  <2>4. NoDup(g.q0) /\ NoDup(g.q)
    BY <1>2, <1>8, <1>9 DEF Queued
  <2> QED BY <1>12, <2>1, <2>2, <2>3, <2>4 DEF Queued
<1>14. /\ But(V, Tasks, Listener) /\ V.so[Listener] = g /\ ReadWaits(V, Listener) /\ WriteWaits(V, Listener)
       /\ Sound(Listener, g) /\ (g.q = w.so[Listener].q => TimeoWaits(V, Listener))
  BY <1>1, <1>2, <1>5, <1>9, <1>10, <1>11, <1>13, QueuesOK
<1> HIDE DEF V
<1>15. SoOK(V, Tasks)
  BY <1>2, <1>9, <1>14, ButOK DEF Reasons
<1> QED
  BY <1>4, <1>15 DEF SoInv

\* A connection that is complete goes from q0 to q, or those who wait for it
\* are woken.
LEMMA EstablishedOK ==
    ASSUME SoInv, NEW s \in AllSocks, Established(s)
    PROVE  SoInv'
<1> DEFINE r == w.so[s]
           p == [r EXCEPT !.pcb = "est"]
           P == PutSo(w, s, p)
           F == (r.flags \ {"connecting", "disconnecting"}) \cup {"connected"}
           h == w.so[Listener]
<1>1. r.pcb = "syn" /\ w' = soisconnected(P, s)
  BY DEF Established, PutSo
<1>2. /\ s \in Conns /\ s # Listener /\ But(w, Tasks, s) /\ Sound(s, r) /\ w \in SoWorld /\ r \in SoRec
      /\ r.alive /\ ~r.error /\ ~r.listen
  BY <1>1, HasConn
<1>3. w.so \in [AllSocks -> SoRec] /\ h \in SoRec /\ Listener \in AllSocks /\ Queued(w) /\ SoOK(w, Tasks)
  BY <1>2, SockNames, WorldIs DEF SoInv, SoOK
<1>4. /\ Plain(r, p) /\ p.alive = r.alive /\ p.fd = r.fd /\ p.head = r.head /\ p.listen = r.listen /\ p.error = r.error
      /\ p.pcb = "est" /\ p.flags = r.flags
  BY <1>2 DEF SoRec, Plain
<1>5. But(P, Tasks, s) /\ P.so[s] = p /\ P.task = w.task /\ \A x \in AllSocks : x # s => P.so[x] = w.so[x]
  <2> HIDE DEF p
  <2> QED BY <1>2, <1>4, PlainOK
<1>6. CASE r.head # "none" /\ Member(h.q0, s)
  <2> DEFINE v == [p EXCEPT !.flags = F]
             g == [h EXCEPT !.q0 = RemoveFirst(@, s), !.q = Append(@, s)]
             U == PutSo(PutSo(w, Listener, g), s, v)
             A == sorwakeup(U, Listener)
             V == WakeTimeo(A, Listener)
  <2>1. r.head = Listener
    BY <1>2, <1>6 DEF SoRec
  <2>2. P.so[Listener] = h /\ P.so[s].head = Listener /\ Listener # "none" /\ Contains(h.q0, s)
    BY <1>2, <1>3, <1>4, <1>5, <1>6, <2>1, SockNames DEF Contains, Member
  <2> DEFINE W1 == Flag(P, s, {"connecting", "disconnecting"}, {"connected"})
  <2>3. w' = WakeTimeo(sorwakeup([W1 EXCEPT !.so[Listener].q0 = RemoveFirst(@, s), !.so[Listener].q = Append(@, s)], Listener), Listener)
    <3> HIDE DEF P
    <3> QED BY <1>1, <2>2 DEF soisconnected
  <2>4. [W1 EXCEPT !.so[Listener].q0 = RemoveFirst(@, s), !.so[Listener].q = Append(@, s)] = U
    <3> DEFINE so1 == [w.so EXCEPT ![s] = v]
               so2 == [W1.so EXCEPT ![Listener].q0 = RemoveFirst(@, s), ![Listener].q = Append(@, s)]
               e == [w.so EXCEPT ![Listener] = g, ![s] = v]
    <3>1. [p EXCEPT !.flags = (p.flags \ {"connecting", "disconnecting"}) \cup {"connected"}] = v
      BY <1>4
    <3>2. P = [w EXCEPT !.so = [w.so EXCEPT ![s] = p]]
      BY DEF PutSo
    <3> HIDE DEF v, p
    <3>3. W1 = [w EXCEPT !.so = so1]
      <4>1. P.so = [w.so EXCEPT ![s] = p]
        BY <1>2, <3>2 DEF SoWorld
      <4>2. P.so[s] = p
        BY <1>2, <1>3, <4>1
      <4> HIDE DEF P
      <4>3. W1 = [P EXCEPT !.so = [P.so EXCEPT ![s] = v]]
        BY <3>1, <4>2 DEF Flag
      <4>4. [P.so EXCEPT ![s] = v] = so1
        BY <1>3, <4>1
      <4> QED BY <1>2, <3>2, <4>3, <4>4 DEF SoWorld
    <3>4. W1.so = so1
      BY <1>2, <3>3 DEF SoWorld
    <3> HIDE DEF W1
    <3>5. [W1 EXCEPT !.so[Listener].q0 = RemoveFirst(@, s), !.so[Listener].q = Append(@, s)] = [W1 EXCEPT !.so = so2]
      OBVIOUS
    <3>6. so1[Listener] = h
      BY <1>2, <1>3
    <3>7. so2 = e
      <4>1. so2 = [so1 EXCEPT ![Listener].q0 = RemoveFirst(@, s), ![Listener].q = Append(@, s)]
        BY <3>4
      <4> QED BY <1>2, <1>3, <3>6, <4>1
    <3> HIDE DEF so1, so2, e
    <3>8. [W1 EXCEPT !.so = so2] = [w EXCEPT !.so = e]
      BY <1>2, <3>3, <3>7 DEF SoWorld
    <3> QED BY <3>5, <3>8 DEF PutSo, e
  <2>5. w' = V
    BY <2>3, <2>4
  <2>6. /\ v \in SoRec /\ v.alive = r.alive /\ v.fd = r.fd /\ v.head = r.head /\ v.listen = r.listen /\ v.error = r.error
        /\ v.pcb = "est" /\ v.flags = F /\ v.rcv = r.rcv /\ v.snd = r.snd
    BY <1>2 DEF SoRec
  <2>7. h.q0 \in Seq(Conns) /\ h.q \in Seq(Conns) /\ NoDup(h.q0) /\ NoDup(h.q) /\ ~Member(h.q, s)
    BY <1>2, <1>3, <1>6 DEF SoRec, Queued
  <2> DEFINE a == h.q0
             b == h.q
             c == RemoveFirst(a, s)
             d == Append(b, s)
  <2>8. /\ c \in Seq(Conns) /\ NoDup(c) /\ (\A x : Member(c, x) <=> Member(a, x) /\ x # s) /\ Len(c) = Len(a) - 1
        /\ d \in Seq(Conns) /\ NoDup(d) /\ (\A x : Member(d, x) <=> Member(b, x) \/ x = s) /\ Len(d) = Len(b) + 1
    <3> HIDE DEF a, b
    <3>1. a \in Seq(Conns) /\ b \in Seq(Conns) /\ NoDup(a) /\ NoDup(b) /\ ~Member(b, s) /\ Member(a, s)
      BY <1>6, <2>7 DEF a, b
    <3>2. c \in Seq(Conns) /\ NoDup(c) /\ (\A x : Member(c, x) <=> Member(a, x) /\ x # s) /\ Len(c) = Len(a) - 1
      BY <3>1, RemoveOK
    <3>3. d \in Seq(Conns) /\ NoDup(d) /\ (\A x : Member(d, x) <=> Member(b, x) \/ x = s) /\ Len(d) = Len(b) + 1
      BY <1>2, <3>1, AppendOK
    <3> QED BY <3>2, <3>3
  <2>9. JoinedAs(h, g) /\ g.q0 = c /\ g.q = d
    BY <1>3, <2>8 DEF JoinedAs, SoRec
  <2> HIDE DEF g, v, c, d
  <2>10. Sound(s, v)
    BY <1>2, <2>1, <2>6 DEF Sound, Linked
  <2>11. Nobody(w, Tasks, s)
    BY <1>2, <1>3, <2>1 DEF SoOK, Used, Using, Sound, Linked, Nobody
  <2>12. U.so[Listener] = g /\ U.so[s] = v /\ \A x \in AllSocks : x # s /\ x # Listener => U.so[x] = w.so[x]
    <3> DEFINE E == PutSo(w, Listener, g)
    <3>1. E \in SoWorld /\ E.so[Listener] = g /\ \A x \in AllSocks : x # Listener => E.so[x] = w.so[x]
      BY <1>2, <1>3, <2>9, PutSock DEF JoinedAs
    <3> HIDE DEF E
    <3>2. U = PutSo(E, s, v)
      BY DEF E
    <3>3. U.so[s] = v /\ \A x \in AllSocks : x # s => U.so[x] = E.so[x]
      BY <2>6, <3>1, <3>2, SockNames, PutSock
    <3> QED BY <1>2, <1>3, <3>1, <3>3
  <2>13. Queued(U)
    <3>1. Len(g.q0) + Len(g.q) <= (3 * qlimit) \div 2 + 1
      <4>1. \A q \in Seq(Conns) : Len(q) \in Nat
        OBVIOUS
      <4>2. Len(a) \in Nat /\ Len(b) \in Nat
        BY <2>7, <4>1
      <4>3. \A i, j \in Nat : (i - 1) + (j + 1) = i + j
        OBVIOUS
      <4>4. Len(g.q0) = Len(a) - 1 /\ Len(g.q) = Len(b) + 1
        BY <2>8, <2>9
      <4> HIDE DEF a, b
      <4>5. Len(g.q0) + Len(g.q) = Len(a) + Len(b)
        BY <4>2, <4>3, <4>4, Zenon
      <4> QED BY <1>3, <4>5 DEF Queued, a, b
    <3>2. \A x \in Conns : ~ (Member(g.q0, x) /\ Member(g.q, x))
      BY <1>3, <2>8, <2>9 DEF Queued
    <3>3. \A x \in Conns : U.so[x].head = Listener <=> Member(g.q0, x) \/ Member(g.q, x)
      <4>1. \A x \in Conns : w.so[x].head = Listener <=> Member(a, x) \/ Member(b, x)
        BY <1>3 DEF Queued
      <4>2. \A x \in Conns : U.so[x].head = w.so[x].head
        BY <2>6, <2>12, SockNames
      <4> QED BY <1>6, <2>8, <2>9, <4>1, <4>2
    <3> QED BY <2>8, <2>9, <2>12, <3>1, <3>2, <3>3 DEF Queued
  <2>14. /\ But(U, Tasks, Listener) /\ U.so[Listener] = g /\ ReadWaits(U, Listener) /\ WriteWaits(U, Listener)
         /\ Sound(Listener, g)
    BY <1>2, <1>3, <2>6, <2>9, <2>10, <2>11, <2>13, QueuesOK
  <2> HIDE DEF U
  <2>15. /\ Kept(U, A) /\ Counts(A) /\ ReadWaits(A, Listener)
         /\ \A x \in AllSocks : /\ TimeoWaits(U, x) => TimeoWaits(A, x)
                                /\ WriteWaits(U, x) => WriteWaits(A, x)
                                /\ x # Listener /\ ReadWaits(U, x) => ReadWaits(A, x)
    BY <1>3, <2>14, sorwakeupOK DEF But
  <2> HIDE DEF A
  <2>16. \A x \in AllSocks : x # Listener /\ Reasons(U, x) => Reasons(A, x)
    BY <2>15 DEF Reasons
  <2>17. But(A, Tasks, Listener) /\ Sound(Listener, A.so[Listener]) /\ WriteWaits(A, Listener)
    BY <1>3, <2>14, <2>15, <2>16, ButKept
  <2>18. /\ Kept(A, V) /\ Counts(V) /\ TimeoWaits(V, Listener)
         /\ \A x \in AllSocks : /\ ReadWaits(A, x) => ReadWaits(V, x)
                                /\ WriteWaits(A, x) => WriteWaits(V, x)
                                /\ x # Listener /\ TimeoWaits(A, x) => TimeoWaits(V, x)
    BY <1>3, <2>17, WakeTimeoOK DEF But
  <2> HIDE DEF V
  <2>19. \A x \in AllSocks : x # Listener /\ Reasons(A, x) => Reasons(V, x)
    BY <2>18 DEF Reasons
  <2>20. But(V, Tasks, Listener) /\ Sound(Listener, V.so[Listener])
    BY <1>3, <2>17, <2>18, <2>19, ButKept
  <2>21. SoOK(V, Tasks)
    BY <1>3, <2>15, <2>17, <2>18, <2>20, ButOK DEF Reasons
  <2> QED BY <2>5, <2>21 DEF SoInv
<1>7. CASE ~(r.head # "none" /\ Member(h.q0, s))
  <2> HIDE DEF p, P
  <2> DEFINE U == Flag(P, s, {"connecting", "disconnecting"}, {"connected"})
             V == sowwakeup(sorwakeup(WakeTimeo(U, s), s), s)
  <2>1. w' = V
    <3>1. ~(P.so[s].head # "none" /\ Contains(P.so[P.so[s].head].q0, s))
      <4>1. P.so[s].head \in {"none", Listener}
        BY <1>2, <1>4, <1>5 DEF SoRec
      <4>2. P.so[Listener] = h
        BY <1>2, <1>3, <1>5
      <4> QED BY <1>4, <1>5, <1>7, <4>1, <4>2 DEF Contains, Member
    <3> QED BY <1>1, <3>1 DEF soisconnected
  <2>2. But(U, Tasks, s) /\ Turned(P, U, s, (P.so[s].flags \ {"connecting", "disconnecting"}) \cup {"connected"})
    <3>1. {"connected"} \in SUBSET Flags /\ {"connecting", "disconnecting"} \cap {"cantrcvmore", "cantsendmore"} = {}
      BY DEF Flags
    <3> QED BY <1>5, <3>1, FlagOK
  <2> HIDE DEF U
  <2>3. But(V, Tasks, s) /\ Reasons(V, s) /\ Turned(P, V, s, (P.so[s].flags \ {"connecting", "disconnecting"}) \cup {"connected"})
    BY <1>5, <2>2, TurnedOK
  <2> HIDE DEF V
  <2>4. /\ V.so[s].alive = r.alive /\ V.so[s].fd = r.fd /\ V.so[s].error = r.error /\ V.so[s].head = r.head
        /\ V.so[s].listen = r.listen /\ V.so[s].pcb = "est" /\ "disconnecting" \notin V.so[s].flags
    BY <1>4, <1>5, <2>3 DEF Turned, LikeSock
  <2>5. Sound(s, V.so[s])
    BY <1>2, <2>4 DEF Sound, Linked
  <2>6. SoOK(V, Tasks)
    BY <2>3, <2>5, ButOK
  <2> QED BY <2>1, <2>6 DEF SoInv
<1> QED
  BY <1>6, <1>7

-----------------------------------------------------------------------------
(***************************************************************************)
(* The theorems.                                                           *)
(***************************************************************************)
\* The invariant holds when the program starts to listen.
LEMMA SoInitOK == SoInit => SoInv
<1> SUFFICES ASSUME SoInit PROVE SoInv
  OBVIOUS
<1> DEFINE l == [NoSock EXCEPT !.alive = TRUE, !.fd = TRUE, !.listen = TRUE, !.pcb = "listen"]
<1>1. /\ w.so = [s \in AllSocks |-> IF s = Listener THEN l ELSE NoSock]
      /\ w.task = [t \in Tasks |-> NoTask] /\ w.bytes = 0
      /\ w = [so |-> w.so, task |-> w.task, bytes |-> 0]
  BY DEF SoInit
<1>2. NoTask \in TaskRec /\ NoTask.at = "idle"
  BY DEF NoTask, TaskRec
<1>3. /\ l \in SoRec /\ l.alive /\ l.fd /\ l.listen /\ l.pcb = "listen" /\ l.flags = {} /\ l.head = "none" /\ ~l.error
      /\ l.q0 = <<>> /\ l.q = <<>> /\ l.rcv.want = 0 /\ l.rcv.sem = 0 /\ l.snd.want = 0 /\ l.snd.sem = 0
  BY NoSockIs DEF SoRec
<1> HIDE DEF l
<1>4. w \in SoWorld
  <2>1. w.so \in [AllSocks -> SoRec]
    BY <1>1, <1>3, NoSockIs
  <2>2. w.task \in [Tasks -> TaskRec]
    BY <1>1, <1>2
  <2> QED BY <1>1, <2>1, <2>2 DEF SoWorld
<1>5. \A x \in AllSocks : /\ Sound(x, w.so[x]) /\ w.so[x].rcv.want = 0 /\ w.so[x].rcv.sem = 0 /\ w.so[x].snd.want = 0
                          /\ w.so[x].snd.sem = 0 /\ w.so[x].head = "none"
  <2>1. Sound(Listener, l)
    BY <1>3, SockNames DEF Sound, Linked
  <2> QED BY <1>1, <1>3, <2>1, NoSockIs
<1>6. \A t \in Tasks : w.task[t].at = "idle"
  BY <1>1, <1>2
<1>7. \A x : \A which : Waits(w, x, which) = {}
  BY <1>6 DEF Waits, Sleepers
<1>8. Used(w, Tasks)
  BY <1>6 DEF Used
<1>9. Counts(w)
  BY <1>5, <1>7 DEF Counts, Counted
<1>10. Queued(w)
  <2>1. w.so[Listener].q0 = <<>> /\ w.so[Listener].q = <<>>
    BY <1>1, <1>3, SockNames
  <2>2. NoDup(<<>>) /\ \A x : ~Member(<<>>, x)
    BY DEF NoDup, Member
  <2>3. Len(<<>>) + Len(<<>>) <= (3 * qlimit) \div 2 + 1
    BY SocketAssumption
  <2> QED BY <1>5, <2>1, <2>2, <2>3, SockNames DEF Queued
<1> QED
  BY <1>4, <1>5, <1>7, <1>8, <1>9, <1>10 DEF SoInv, SoOK, ReadWaits, WriteWaits, TimeoWaits

\* Every step keeps it.
LEMMA SoNextOK == SoInv /\ [SoNext]_w => SoInv'
<1> SUFFICES ASSUME SoInv, [SoNext]_w PROVE SoInv'
  OBVIOUS
<1>1. CASE UNCHANGED w
  BY <1>1 DEF SoInv
<1>2. ASSUME NEW t \in Tasks, NEW s \in AllSocks, Read(t, s) \/ Write(t, s) \/ Close(t, s) \/ Connect(t, s)
      PROVE  SoInv'
  BY <1>2, CallOK, ConnectOK
<1>3. ASSUME NEW t \in Tasks, Accept(t) \/ semTake(t) \/ ResumeTask(t) PROVE SoInv'
  <2>1. CASE Accept(t)
    BY <2>1, CallOK, SockNames
  <2>2. CASE semTake(t)
    BY <2>2, semTakeOK
  <2>3. CASE ResumeTask(t)
    BY <2>3, ContinueOK DEF ResumeTask, SoInv
  <2> QED BY <1>3, <2>1, <2>2, <2>3
<1>4. ASSUME NEW s \in AllSocks,
             \/ sonewconn(s) \/ Established(s) \/ Data(s) \/ SendAcked(s) \/ Shutdown(s)
             \/ FinReceived(s) \/ OurFinAcked(s) \/ Expired(s) \/ Reset(s)
      PROVE  SoInv'
  BY <1>4, sonewconnOK, EstablishedOK, DataOK, SendAckedOK, EndOK
<1> QED
  BY <1>1, <1>2, <1>3, <1>4 DEF SoNext

\* No task sleeps on when what it waits for has happened: whoever is blocked
\* in read, write, accept, connect or close has a reason to be, whatever
\* wakeup, ksleep and the protocol did in between (sbwait, ksleep, wakeup).
THEOREM SleepersNeverForgotten == SoSpec => []NoSleeperForgotten
<1>1. SoInv => NoSleeperForgotten
  <2> SUFFICES ASSUME SoInv, NEW t \in Tasks, w.task[t].at = "blocked"
               PROVE  LET s == w.so[w.task[t].on] IN
                      /\ s.alive /\ ~s.error
                      /\ w.task[t].why = "read" => s.rcv.cc = 0 /\ "cantrcvmore" \notin s.flags
                      /\ w.task[t].why = "write" => s.snd.cc = hiwat /\ "cantsendmore" \notin s.flags
                      /\ w.task[t].why = "accept" => s.q = <<>> /\ s.listen
                      /\ w.task[t].why = "connect" => "connecting" \in s.flags
                      /\ w.task[t].why = "linger" => "connected" \in s.flags
    BY DEF NoSleeperForgotten
  <2> DEFINE x == w.task[t].on
             why == w.task[t].why
  <2>1. Using(w, Tasks, t) /\ w \in SoWorld
    BY DEF SoInv, SoOK, Used
  <2>2. x \in AllSocks /\ why \in {"read", "write"} \cup Timeo /\ w.so[x].alive
    <3>1. w.task[t] \in TaskRec
      BY <2>1, WorldIs
    <3> QED BY <2>1, <3>1 DEF Using, TaskRec
  <2>3. \A which : why \in which => t \in Waits(w, x, which)
    BY DEF Waits, Sleepers
  <2>4. /\ Counted(w, w.so[x].rcv, x, "read") /\ Counted(w, w.so[x].snd, x, "write")
        /\ \A u \in Waits(w, x, Timeo) : w.task[u].at = "blocked" => w.so[x].timeo = 0
        /\ ReadWaits(w, x) /\ WriteWaits(w, x) /\ TimeoWaits(w, x)
    BY <2>2 DEF SoInv, SoOK, Counts
  <2>5. CASE why = "read"
    BY <2>2, <2>3, <2>4, <2>5 DEF Counted, ReadWaits
  <2>6. CASE why = "write"
    BY <2>2, <2>3, <2>4, <2>6 DEF Counted, WriteWaits
  <2>7. CASE why \in Timeo
    BY <2>2, <2>3, <2>4, <2>7 DEF TimeoWaits, Timeo
  <2> QED BY <2>2, <2>5, <2>6, <2>7
<1> QED
  BY <1>1, SoInitOK, SoNextOK, PTL DEF SoSpec

\* A connection is in one place: in one queue of the listening socket, or held
\* by a program, or kept by the protocol, and else it is freed; no queue grows
\* past its limit (soqinsque, soqremque, sofree, soclose).
THEOREM AlwaysOnePlace == SoSpec => []OnePlace
<1>1. SoInv => OnePlace
  <2> SUFFICES ASSUME SoInv PROVE OnePlace
    OBVIOUS
  <2> DEFINE h == w.so[Listener]
             a == h.q0
             b == h.q
             c == a \o b
             At(s) == {i \in DOMAIN c : c[i] = s}
  <2>1. w \in SoWorld /\ h \in SoRec /\ Queued(w)
    BY SockNames, WorldIs DEF SoInv, SoOK
  <2>2. a \in Seq(Conns) /\ b \in Seq(Conns) /\ NoDup(a) /\ NoDup(b)
    BY <2>1 DEF SoRec, Queued
  <2>3. /\ \A s \in Conns : ~(Member(a, s) /\ Member(b, s))
        /\ \A s \in Conns : w.so[s].head = Listener <=> Member(a, s) \/ Member(b, s)
        /\ Len(a) + Len(b) <= (3 * qlimit) \div 2 + 1
    BY <2>1 DEF Queued
  <2> HIDE DEF a, b
  <2>4. /\ Len(a) \in Nat /\ Len(b) \in Nat /\ DOMAIN c = 1 .. Len(a) + Len(b)
        /\ \A i \in 1 .. Len(a) : c[i] = a[i]
        /\ \A i \in Len(a) + 1 .. Len(a) + Len(b) : c[i] = b[i - Len(a)]
    BY <2>2
  <2>5. ASSUME NEW s \in Conns
        PROVE  Cardinality(At(s)) = IF w.so[s].head = Listener THEN 1 ELSE 0
    <3>1. CASE w.so[s].head # Listener
      <4>1. ~Member(a, s) /\ ~Member(b, s)
        BY <2>3, <3>1
      <4>2. ASSUME NEW i \in At(s) PROVE FALSE
        <5>1. CASE i \in 1 .. Len(a)
          BY <2>4, <4>1, <4>2, <5>1 DEF Member
        <5>2. CASE i \notin 1 .. Len(a)
          <6>1. i \in Len(a) + 1 .. Len(a) + Len(b) /\ i - Len(a) \in 1 .. Len(b)
            BY <2>4, <4>2, <5>2
          <6> QED BY <2>4, <4>1, <4>2, <6>1 DEF Member
        <5> QED BY <5>1, <5>2
      <4>3. At(s) = {}
        BY <4>2
      <4> QED BY <3>1, <4>3, FS_EmptySet
    <3>2. CASE w.so[s].head = Listener
      <4>1. \E k : At(s) = {k}
        <5>1. CASE Member(a, s)
          <6>1. PICK k \in 1 .. Len(a) : a[k] = s
            BY <5>1 DEF Member
          <6>2. k \in At(s)
            BY <2>4, <6>1
          <6>3. ASSUME NEW i \in At(s) PROVE i = k
            <7>1. CASE i \in 1 .. Len(a)
              BY <2>2, <2>4, <6>1, <6>3, <7>1 DEF NoDup
            <7>2. CASE i \notin 1 .. Len(a)
              <8>1. i \in Len(a) + 1 .. Len(a) + Len(b) /\ i - Len(a) \in 1 .. Len(b)
                BY <2>4, <6>3, <7>2
              <8>2. Member(b, s)
                BY <2>4, <6>3, <8>1 DEF Member
              <8> QED BY <2>3, <5>1, <8>2
            <7> QED BY <7>1, <7>2
          <6>4. At(s) = {k}
            <7> HIDE DEF At
            <7> QED BY <6>2, <6>3
          <6> QED BY <6>4
        <5>2. CASE Member(b, s)
          <6>1. PICK k \in 1 .. Len(b) : b[k] = s
            BY <5>2 DEF Member
          <6> DEFINE m == Len(a) + k
          <6>2. m \in At(s)
            <7>1. m \in Len(a) + 1 .. Len(a) + Len(b) /\ m - Len(a) = k /\ m \in DOMAIN c
              BY <2>4, <6>1
            <7> QED BY <2>4, <6>1, <7>1
          <6>3. ASSUME NEW i \in At(s) PROVE i = m
            <7>1. CASE i \in 1 .. Len(a)
              <8>1. Member(a, s)
                BY <2>4, <6>3, <7>1 DEF Member
              <8> QED BY <2>3, <5>2, <8>1
            <7>2. CASE i \notin 1 .. Len(a)
              <8>1. i \in Len(a) + 1 .. Len(a) + Len(b) /\ i - Len(a) \in 1 .. Len(b)
                BY <2>4, <6>3, <7>2
              <8>2. b[i - Len(a)] = s
                BY <2>4, <6>3, <8>1
              <8>3. i - Len(a) = k
                BY <2>2, <6>1, <8>1, <8>2 DEF NoDup
              <8>4. \A x \in Nat : \A y, z \in Int : y - x = z => y = x + z
                OBVIOUS
              <8>5. Len(a) \in Nat /\ i \in Int /\ k \in Int
                BY <2>4, <6>1, <8>1
              <8> QED BY <8>3, <8>4, <8>5
            <7> QED BY <7>1, <7>2
          <6>4. At(s) = {m}
            <7> HIDE DEF At, m
            <7> QED BY <6>2, <6>3
          <6> QED BY <6>4
        <5> QED BY <2>3, <3>2, <5>1, <5>2
      <4> QED BY <3>2, <4>1, FS_Singleton
    <3> QED BY <3>1, <3>2
  <2>6. \A s \in Conns : Sound(s, w.so[s])
    BY SockNames DEF SoInv, SoOK
  <2> HIDE DEF At
  <2>7. ASSUME NEW s \in Conns
        PROVE  /\ Cardinality(At(s)) = (IF w.so[s].alive /\ w.so[s].head = Listener THEN 1 ELSE 0)
               /\ w.so[s].alive => w.so[s].fd \/ Cardinality(At(s)) = 1 \/ w.so[s].pcb # "none"
               /\ w.so[s].fd => Cardinality(At(s)) = 0
    BY <2>5, <2>6 DEF Sound, Linked
  <2> QED BY <2>3, <2>7 DEF OnePlace, At, a, b
<1> QED
  BY <1>1, SoInitOK, SoNextOK, PTL DEF SoSpec
=============================================================================
