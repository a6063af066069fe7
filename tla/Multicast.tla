----------------------------- MODULE Multicast -----------------------------
(***************************************************************************)
(* Group membership: the multicast options of a socket (ip_output.c), the  *)
(* records of the groups an interface listens to (in.c), IGMP (igmp.c) and *)
(* the delivery of multicast datagrams to UDP sockets (udp_usrreq.c), on   *)
(* hosts of one network, each with one interface.                          *)
(*                                                                         *)
(* The network hands a frame to the input queues of all the other hosts at *)
(* the same moment; a full queue drops it.                                 *)
(***************************************************************************)
EXTENDS Integers, Sequences, SequencesExt, FiniteSets

CONSTANTS
    Hosts, Socks,
    HostOf,         \* HostOf[s]: the host of socket s
    Groups,
    Joins,          \* Joins[s]: the groups that socket s may join
    Tuned,          \* the sockets that set the other options
    Reuse,          \* the sockets with SO_REUSEADDR or SO_REUSEPORT
    MaxDelay,       \* IGMP_RANDOM_DELAY is one of 1 .. MaxDelay
    Shortages,      \* which allocations and ioctls of in_addmulti may fail:
                    \* a subset of {"inm", "ioctl", "pcb"}
    Limits,         \* how many queries and datagrams a behaviour has, and which groups
    MaxQueue        \* length of an input queue

ASSUME MulticastAssumption ==
    /\ \A s \in Socks : HostOf[s] \in Hosts /\ Joins[s] \subseteq Groups
    /\ IsFiniteSet(Groups) /\ Tuned \subseteq Socks
    /\ MaxDelay \in Nat /\ MaxQueue \in Nat
    /\ Limits \subseteq [queries : Nat, sends : Nat, groups : SUBSET Groups]

VARIABLES
    host,           \* host[h]: its group records, igmp_timers_are_running and
                    \* the groups its interface was told to receive
    imo,            \* imo[s]: inp_moptions of socket s; DefaultImo if it has none
    ipintrq,        \* ipintrq[h]: its input queue
    left,           \* how many queries and datagrams may still be sent
    asked,          \* the hosts that took the last query from their queues
    heard,          \* the groups reported on the network since the last query
    got             \* which socket got which datagram, how often

mcVars == <<host, imo, ipintrq, left, asked, heard, got>>

\* What holds without a block of options, and what a new block is filled with.
DefaultImo == [ifp |-> "none", ttl |-> 1, loop |-> TRUE, mem |-> <<>>]

NewInm(delay) == [ref |-> 1, timer |-> delay, pcbs |-> <<>>, freed |-> FALSE]

Without(f, x) == [y \in DOMAIN f \ {x} |-> f[y]]
With(f, x, v) == [y \in DOMAIN f \cup {x} |-> IF y = x THEN v ELSE f[y]]

\* A frame reaches every other host whose queue is not full.
Broadcast(q, h, frame) ==
    [k \in Hosts |-> IF k # h /\ Len(q[k]) < MaxQueue THEN Append(q[k], frame) ELSE q[k]]

\* igmp_sendreport: host r[1] reports that it is a member of group r[2].
Report(q, r) == Broadcast(q, r[1], [type |-> "report", group |-> r[2]])

(***************************************************************************)
(* in.c.  in_addmulti returns the record for the socket to keep, ok, and   *)
(* whether igmp_joingroup sent a report.                                   *)
(***************************************************************************)
Added(hs, ok, report) == [h |-> hs, ok |-> ok, report |-> report]

in_addmulti(hs, g, s, delay, short) ==
    IF g \in DOMAIN hs.inm
    THEN \* the record is counted once more, but none is returned
         LET counted == [hs EXCEPT !.inm[g].ref = @ + 1] IN
         Added(IF short = "pcb" THEN counted
               ELSE [counted EXCEPT !.inm[g].pcbs = <<s>> \o @], FALSE, FALSE)
    ELSE IF short \in {"inm", "ioctl"} THEN Added(hs, FALSE, FALSE)
    ELSE LET new == [hs EXCEPT !.inm = With(@, g, NewInm(delay)),
                               !.filter = @ \cup {g},
                               !.running = TRUE]
         IN  IF short = "pcb" THEN Added([new EXCEPT !.inm[g].freed = TRUE], FALSE, TRUE)
             ELSE Added([new EXCEPT !.inm[g].pcbs = <<s>>], TRUE, TRUE)

\* Mutant: a record whose count is 1 before is kept.
in_delmulti_OffByOne(hs, g, s) ==
    LET r == hs.inm[g] IN
    IF r.ref > 0 THEN [hs EXCEPT !.inm[g].ref = @ - 1, !.inm[g].pcbs = RemoveFirst(@, s), !.inm[g].freed = TRUE]
    ELSE [hs EXCEPT !.inm = Without(@, g), !.filter = @ \ {g}]

in_delmulti(hs, g, s) ==
    LET r == [hs.inm[g] EXCEPT !.pcbs = RemoveFirst(@, s), !.ref = @ - 1] IN
    IF r.ref = 0 THEN [hs EXCEPT !.inm = Without(@, g), !.filter = @ \ {g}]
    ELSE [hs EXCEPT !.inm[g] = [r EXCEPT !.freed = TRUE]]

(***************************************************************************)
(* ip_setmoptions.  The block of options is made when it is missing, and   *)
(* freed at the end when all of it is at its defaults: a socket has one    *)
(* exactly when imo[s] is not DefaultImo.  (The options that matter to a   *)
(* sender only are set while something is still to be sent.)               *)
(***************************************************************************)
SetOption(s, o) ==
    /\ left.sends > 0
    /\ imo' = [imo EXCEPT ![s] = o]
    /\ UNCHANGED <<host, ipintrq, left, asked, heard, got>>

MULTICAST_IF(s, ifp) == SetOption(s, [imo[s] EXCEPT !.ifp = ifp])
MULTICAST_TTL(s, ttl) == SetOption(s, [imo[s] EXCEPT !.ttl = ttl])
MULTICAST_LOOP(s, loop) == SetOption(s, [imo[s] EXCEPT !.loop = loop])

\* Another membership of the same socket in the same group is refused.
ADD_MEMBERSHIP(s, g, delay, short) ==
    LET h == HostOf[s]
        a == in_addmulti(host[h], g, s, delay, short)
    IN  /\ ~Contains(imo[s].mem, g)
        /\ host' = [host EXCEPT ![h] = a.h]
        /\ imo' = [imo EXCEPT ![s].mem = IF a.ok THEN Append(@, g) ELSE @]
        /\ ipintrq' = IF a.report THEN Report(ipintrq, <<h, g>>) ELSE ipintrq
        /\ heard' = IF a.report THEN heard \cup {g} ELSE heard
        /\ UNCHANGED <<left, asked, got>>

DROP_MEMBERSHIP(s, g) ==
    /\ Contains(imo[s].mem, g)
    /\ host' = [host EXCEPT ![HostOf[s]] = in_delmulti(@, g, s)]
    /\ imo' = [imo EXCEPT ![s].mem = RemoveFirst(@, g)]
    /\ UNCHANGED <<ipintrq, left, asked, heard, got>>

\* ip_freemoptions, when the socket is closed: all its memberships <<g, s>>
Leave(hs, m) == in_delmulti(hs, m[1], m[2])

ip_freemoptions(s) ==
    /\ imo[s] # DefaultImo
    /\ host' = [host EXCEPT ![HostOf[s]] =
                  FoldLeft(Leave, @, [i \in DOMAIN imo[s].mem |-> <<imo[s].mem[i], s>>])]
    /\ imo' = [imo EXCEPT ![s] = DefaultImo]
    /\ UNCHANGED <<ipintrq, left, asked, heard, got>>

(***************************************************************************)
(* IGMP.                                                                   *)
(***************************************************************************)
\* A query starts the timers that do not run, a report stops one.
igmp_input(hs, f, delay) ==
    IF f.type = "query"
    THEN [hs EXCEPT !.inm = [g \in DOMAIN @ |-> IF @[g].timer = 0 THEN [@[g] EXCEPT !.timer = delay[g]] ELSE @[g]],
                    !.running = @ \/ \E g \in DOMAIN hs.inm : hs.inm[g].timer = 0]
    ELSE IF f.group \in DOMAIN hs.inm THEN [hs EXCEPT !.inm[f.group].timer = 0]
    ELSE hs

\* igmp_sendreport for each of the groups gs
igmp_sendreport(h, gs) ==
    /\ ipintrq' = FoldLeft(Report, ipintrq, SetToSeq({h} \X gs))
    /\ heard' = heard \cup gs

Due(h) == {g \in DOMAIN host[h].inm : host[h].inm[g].timer = 1}

\* Mutant: the flag is left to the last record.
Running_LastWins(inm) == \A g \in DOMAIN inm : inm[g].timer > 1

\* igmp_timers_are_running after a run of the timers
Running(inm) == \E g \in DOMAIN inm : inm[g].timer > 1

Ticked(inm) == [g \in DOMAIN inm |-> [inm[g] EXCEPT !.timer = IF @ = 0 THEN 0 ELSE @ - 1]]

igmp_fasttimo(h) ==
    /\ host[h].running
    /\ host' = [host EXCEPT ![h].inm = Ticked(@),
                            ![h].running = Running(host[h].inm)]
    /\ igmp_sendreport(h, Due(h))
    /\ UNCHANGED <<imo, left, asked, got>>

\* The router asks for the groups of this network.
Query ==
    /\ left.queries > 0 /\ left' = [left EXCEPT !.queries = @ - 1]
    /\ heard' = {} /\ asked' = {}
    /\ ipintrq' = [k \in Hosts |-> IF Len(ipintrq[k]) < MaxQueue
                                   THEN Append(ipintrq[k], [type |-> "query", n |-> left.queries]) ELSE ipintrq[k]]
    /\ UNCHANGED <<host, imo, got>>

(***************************************************************************)
(* Datagrams.                                                              *)
(***************************************************************************)
\* The sockets of the record, up to the first that does not share its port.
Receivers(hs, g) ==
    IF g \notin DOMAIN hs.inm THEN {}
    ELSE LET p == hs.inm[g].pcbs IN
         {p[i] : i \in {i \in 1 .. Len(p) : \A j \in 1 .. i - 1 : p[j] \in Reuse}}

McastInput(hs, f) ==
    got' = [x \in DOMAIN got |-> IF x[1] \in Receivers(hs, f.group) /\ x[2] = f.id THEN got[x] + 1 ELSE got[x]]

\* ip_output: a copy is looped back if this host is a member and the socket
\* does not forbid it; a time to live of 0 keeps the datagram in the host.
SendTo(s, g) ==
    LET h == HostOf[s]
        f == [type |-> "data", group |-> g, id |-> left.sends]
        o == imo[s]
        out == IF o.ttl = 0 THEN ipintrq ELSE Broadcast(ipintrq, h, f)
    IN  /\ left.sends > 0 /\ left' = [left EXCEPT !.sends = @ - 1]
        /\ ipintrq' = IF g \in DOMAIN host[h].inm /\ o.loop /\ Len(out[h]) < MaxQueue
                      THEN [out EXCEPT ![h] = Append(@, f)] ELSE out
        /\ UNCHANGED <<host, imo, asked, heard, got>>

\* IGMP_RANDOM_DELAY for each group: only a query makes use of it.
Delays(f) == IF f.type = "query" THEN [Groups -> 1 .. MaxDelay] ELSE {[g \in Groups |-> MaxDelay]}

\* The network task takes a frame from its queue.
Input(h, delay) ==
    /\ ipintrq' = [ipintrq EXCEPT ![h] = Tail(@)]
    /\ IF Head(ipintrq[h]).type = "data"
       THEN McastInput(host[h], Head(ipintrq[h])) /\ UNCHANGED host
       ELSE host' = [host EXCEPT ![h] = igmp_input(@, Head(ipintrq[h]), delay)] /\ UNCHANGED got
    /\ asked' = IF Head(ipintrq[h]) = [type |-> "query", n |-> left.queries + 1] THEN asked \cup {h} ELSE asked
    /\ UNCHANGED <<imo, left, heard>>

McInit ==
    /\ host = [h \in Hosts |-> [inm |-> <<>>, running |-> FALSE, filter |-> {}]]
    /\ imo = [s \in Socks |-> DefaultImo] /\ ipintrq = [h \in Hosts |-> <<>>]
    /\ left \in Limits /\ asked = {} /\ heard = {}
    /\ got = [x \in Socks \X (1 .. left.sends) |-> 0]

McNext ==
    \/ \E s \in Tuned, ifp \in {"none", "if0"} : MULTICAST_IF(s, ifp)
    \/ \E s \in Tuned, ttl \in 0 .. 1 : MULTICAST_TTL(s, ttl)
    \/ \E s \in Tuned, loop \in BOOLEAN : MULTICAST_LOOP(s, loop)
    \/ \E s \in Socks : \E g \in Joins[s] \cap left.groups, d \in 1 .. MaxDelay, short \in Shortages \cup {"none"} :
          ADD_MEMBERSHIP(s, g, d, short)
    \/ \E s \in Socks : \E g \in Joins[s] \cap left.groups : DROP_MEMBERSHIP(s, g) \/ SendTo(s, g)
    \/ \E s \in Socks : ip_freemoptions(s)
    \/ \E h \in Hosts : igmp_fasttimo(h)
    \/ \E h \in Hosts : ipintrq[h] # <<>> /\ \E d \in Delays(Head(ipintrq[h])) : Input(h, d)
    \/ Query

McSpec == McInit /\ [][McNext]_mcVars

(***************************************************************************)
(* Properties.                                                             *)
(***************************************************************************)
Members(h, g) == {s \in Socks : HostOf[s] = h /\ Contains(imo[s].mem, g)}

\* The group table of a host, the filter of its interface and the memberships
\* of its sockets agree: a group is received exactly while a socket is a
\* member, and no record is freed while the table still holds it
\* (in_addmulti, in_delmulti, ip_setmoptions).
MembershipsMatch ==
    \A h \in Hosts :
        /\ host[h].filter = DOMAIN host[h].inm
        /\ DOMAIN host[h].inm = {g \in Groups : Members(h, g) # {}}
        /\ \A g \in DOMAIN host[h].inm :
              /\ ~host[h].inm[g].freed
              /\ host[h].inm[g].ref = Cardinality(Members(h, g))
              /\ ToSet(host[h].inm[g].pcbs) = Members(h, g)

\* A record that a later lookup can find has not been freed (in_delmulti).
RecordsLive == \A h \in Hosts : \A g \in DOMAIN host[h].inm : ~host[h].inm[g].freed

\* As long as nobody has answered for a group since the last query, every
\* member that took the query from its queue still has its timer running: the
\* hosts that keep silent because another one reports do not all keep silent
\* (igmp_input, igmp_fasttimo).
QueryAnswered ==
    \A h \in asked : \A g \in DOMAIN host[h].inm :
        g \in heard \/ (host[h].inm[g].timer > 0 /\ host[h].running)

\* No socket gets a datagram twice, whatever is looped back (ip_output,
\* ip_mloopback, udp_input).
GotOnce == \A x \in DOMAIN got : got[x] <= 1

\* The memberships are right and bring each datagram once (in_addmulti,
\* in_delmulti, ip_setmoptions, udp_input).
GroupsSound == MembershipsMatch /\ GotOnce
=============================================================================
