------------------------------- MODULE InPcb -------------------------------
(***************************************************************************)
(* Protocol control blocks (in_pcb.c) and UDP (udp_usrreq.c) on one host:  *)
(* binding and connecting sockets, the hash table with its move to the     *)
(* front, the cache of the last block that received, and the delivery of   *)
(* unicast and broadcast datagrams and of errors.                          *)
(***************************************************************************)
EXTENDS Integers, Sequences, SequencesExt, FiniteSets, FiniteSetsExt

CONSTANTS
    UdpSocks,
    Laddrs, Faddrs,         \* the addresses of this host, and others
    FirstLaddr,             \* the first of in_ifaddr
    LocalFor,               \* LocalFor[f]: address of the interface towards f
    MinPort, MaxPort,       \* IPPORT_RESERVED, IPPORT_USERRESERVED
    Fport,                  \* the port that foreign hosts use
    Shared,                 \* sockets with SO_REUSEADDR and SO_REUSEPORT
    HashSize                \* hashmask + 1

\* There is a port to give, and no name stands for two things.
ASSUME UdpAssumption ==
    /\ {MinPort, MaxPort, Fport} \subseteq Nat /\ 0 < MinPort /\ MinPort <= MaxPort
    /\ HashSize \in Nat \ {0}
    /\ "none" \notin UdpSocks /\ "any" \notin Laddrs \cup Faddrs
    /\ FirstLaddr \in Laddrs /\ \A f \in DOMAIN LocalFor : LocalFor[f] \in Laddrs

VARIABLES
    pcb,            \* pcb[s]: the control block of socket s
    udb,            \* the blocks, the newest first
    hash,           \* hash[b]: the blocks in bucket b
    last,           \* udp_last_inpcb, or "none"
    lastport,       \* of udbinfo
    delivered       \* who got the datagram or error just handled, and who
                    \* should have

udpVars == <<pcb, udb, hash, last, lastport, delivered>>

ANY == "any"
Ports == MinPort .. MaxPort
NewPcb == [on |-> TRUE, laddr |-> ANY, lport |-> 0, faddr |-> ANY, fport |-> 0]
Attached == {s \in UdpSocks : pcb[s].on}
Nobody == [to |-> {}, best |-> {}]

\* INP_PCBHASH
Bucket(faddr, lport, fport) == (lport + fport + (IF faddr = ANY THEN 0 ELSE 1)) % HashSize
BucketOf(c) == Bucket(c.faddr, c.lport, c.fport)

Unhashed(h, s) == [b \in DOMAIN h |-> RemoveFirst(h[b], s)]

\* in_pcbrehash: s goes to the front of the bucket of its new addresses c.
in_pcbrehash(h, s, c) == [Unhashed(h, s) EXCEPT ![BucketOf(c)] = <<s>> \o @]

(***************************************************************************)
(* Lookups.                                                                *)
(***************************************************************************)
\* How many wildcards a match of c needs, for in_pcblookup with no foreign
\* address; more than 2 if it does not match.
Wildcards(c, laddr) ==
    (IF c.faddr # ANY THEN 1 ELSE 0)
    + (IF c.laddr = laddr THEN 0 ELSE IF c.laddr = ANY \/ laddr = ANY THEN 1 ELSE 3)

\* in_pcblookup(..., zeroin_addr, 0, laddr, lport, ...): the places in udb of
\* the blocks that match with at most this many wildcards, and the first of
\* those with the fewest.
Matches(laddr, lport, most) ==
    {i \in DOMAIN udb : pcb[udb[i]].lport = lport /\ Wildcards(pcb[udb[i]], laddr) <= most}

in_pcblookup(laddr, lport, most) ==
    LET found == Matches(laddr, lport, most)
        wild(i) == Wildcards(pcb[udb[i]], laddr)
    IN  IF found = {} THEN "none" ELSE udb[Min({i \in found : \A j \in found : wild(i) <= wild(j)})]

\* With SO_REUSEADDR or SO_REUSEPORT only the same address is in the way.
MostWild(s) == IF s \in Shared THEN 0 ELSE 2

Exact(c, faddr, fport, laddr, lport) ==
    c.faddr = faddr /\ c.fport = fport /\ c.lport = lport /\ c.laddr = laddr

\* in_pcblookuphash: the block found, or "none", and the table after it was
\* moved to the front of its bucket.
InBucket(h, b, faddr, fport, laddr, lport) ==
    {i \in DOMAIN h[b] : Exact(pcb[h[b][i]], faddr, fport, laddr, lport)}

in_pcblookuphash(h, faddr, fport, laddr, lport, wildcard) ==
    LET b1 == Bucket(faddr, lport, fport)
        b2 == Bucket(ANY, lport, 0)
        exact == InBucket(h, b1, faddr, fport, laddr, lport)
        local == InBucket(h, b2, ANY, 0, laddr, lport)
        wild  == InBucket(h, b2, ANY, 0, ANY, lport)
        found(i, b) == [inp |-> h[b][i], hash |-> [h EXCEPT ![b] = <<h[b][i]>> \o RemoveFirst(@, h[b][i])]]
    IN  IF exact # {} THEN found(Min(exact), b1)
        ELSE IF wildcard = 1 /\ local # {} THEN found(Min(local), b2)
        ELSE IF wildcard = 1 /\ wild # {} THEN found(Max(wild), b2)
        ELSE [inp |-> "none", hash |-> h]

(***************************************************************************)
(* Requests.                                                               *)
(***************************************************************************)
Request == delivered' = Nobody

in_pcballoc(s) ==
    /\ ~pcb[s].on
    /\ pcb' = [pcb EXCEPT ![s] = NewPcb]
    /\ udb' = <<s>> \o udb
    /\ hash' = in_pcbrehash(hash, s, NewPcb)
    /\ Request /\ UNCHANGED <<last, lastport>>

\* The loop over the ports, from the one after that used last.  It does not end
\* when every port is taken.
FreePorts(s, laddr) == {p \in Ports : Matches(laddr, p, MostWild(s)) = {}}
EphemeralPort(s, laddr) ==
    LET tries(p) == IF p > lastport THEN p - lastport ELSE p - lastport + MaxPort - MinPort + 1 IN
    CHOOSE p \in FreePorts(s, laddr) : \A q \in FreePorts(s, laddr) : tries(p) <= tries(q)

in_pcbbind(s, laddr, lport) ==
    LET t == in_pcblookup(laddr, lport, MostWild(s))
        port == IF lport = 0 THEN EphemeralPort(s, laddr) ELSE lport
        c == [pcb[s] EXCEPT !.laddr = laddr, !.lport = port]
    IN  /\ pcb[s].on /\ pcb[s].lport = 0 /\ pcb[s].laddr = ANY
        /\ lport # 0 /\ t # "none" => s \in Shared /\ t \in Shared
        /\ lport = 0 => FreePorts(s, laddr) # {}
        /\ pcb' = [pcb EXCEPT ![s] = c]
        /\ hash' = in_pcbrehash(hash, s, c)
        /\ lastport' = IF lport = 0 THEN port ELSE lastport
        /\ Request /\ UNCHANGED <<udb, last>>

\* in_pcbladdr: the address the host would use towards faddr
in_pcbladdr(faddr) == IF faddr \in DOMAIN LocalFor THEN LocalFor[faddr] ELSE FirstLaddr

\* The lookup of in_pcbconnect, for the address that s would have.
Rival(s, faddr, fport) ==
    in_pcblookuphash(hash, faddr, fport, IF pcb[s].laddr = ANY THEN in_pcbladdr(faddr) ELSE pcb[s].laddr,
                     pcb[s].lport, 0)

\* The block of s after in_pcbconnect.
Connected(s, faddr, fport) ==
    LET c == pcb[s] IN
    [c EXCEPT !.laddr = IF @ = ANY THEN in_pcbladdr(faddr) ELSE @,
              !.lport = IF c.laddr = ANY /\ @ = 0 THEN EphemeralPort(s, ANY) ELSE @,
              !.faddr = faddr, !.fport = fport]

MayConnect(s, faddr, fport) ==
    /\ pcb[s].on /\ pcb[s].faddr = ANY
    /\ Rival(s, faddr, fport).inp = "none"
    /\ pcb[s].lport = 0 => FreePorts(s, ANY) # {}

in_pcbconnect(s, faddr, fport) ==
    /\ MayConnect(s, faddr, fport)
    /\ pcb' = [pcb EXCEPT ![s] = Connected(s, faddr, fport)]
    /\ hash' = in_pcbrehash(hash, s, pcb'[s])
    /\ lastport' = IF pcb[s].lport = 0 THEN pcb'[s].lport ELSE lastport
    /\ Request /\ UNCHANGED <<udb, last>>

\* EADDRINUSE, of in_pcbconnect and udp_output: only the order of a bucket changes.
ConnectRefused(s, faddr, fport) ==
    /\ pcb[s].on /\ pcb[s].faddr = ANY
    /\ Rival(s, faddr, fport).inp # "none"
    /\ hash' = Rival(s, faddr, fport).hash
    /\ Request /\ UNCHANGED <<pcb, udb, last, lastport>>

\* udp_output with an address: connected for the time of ip_output only.  The
\* port it was given stays.
udp_output(s, faddr, fport) ==
    /\ MayConnect(s, faddr, fport)
    /\ pcb' = [pcb EXCEPT ![s].lport = Connected(s, faddr, fport).lport]
    /\ hash' = in_pcbrehash(hash, s, pcb'[s])
    /\ lastport' = IF pcb[s].lport = 0 THEN pcb'[s].lport ELSE lastport
    /\ Request /\ UNCHANGED <<udb, last>>

\* PRU_DISCONNECT, which forgets an address that was bound, too
Disconnect(s) ==
    /\ pcb[s].on /\ pcb[s].faddr # ANY
    /\ pcb' = [pcb EXCEPT ![s].faddr = ANY, ![s].fport = 0, ![s].laddr = ANY]
    /\ hash' = in_pcbrehash(hash, s, pcb'[s])
    /\ Request /\ UNCHANGED <<udb, last, lastport>>

\* Mutant: the cache keeps the block that is freed.
Forget_Never(s) == last

Forget(s) == IF last = s THEN "none" ELSE last

\* udp_detach and in_pcbdetach; the memory of the block keeps what was in it.
udp_detach(s) ==
    /\ pcb[s].on
    /\ pcb' = [pcb EXCEPT ![s].on = FALSE]
    /\ udb' = RemoveFirst(udb, s)
    /\ hash' = Unhashed(hash, s)
    /\ last' = Forget(s)
    /\ Request /\ UNCHANGED <<lastport>>

(***************************************************************************)
(* Input.                                                                  *)
(***************************************************************************)
\* The blocks a datagram belongs to: those connected to its sender, or those
\* bound to its destination, or those bound to no address.
Best(faddr, fport, laddr, lport) ==
    LET of(f, fp, l) == {s \in Attached : Exact(pcb[s], f, fp, l, lport)} IN
    IF of(faddr, fport, laddr) # {} THEN of(faddr, fport, laddr)
    ELSE IF of(ANY, 0, laddr) # {} THEN of(ANY, 0, laddr)
    ELSE of(ANY, 0, ANY)

udp_input(faddr, fport, laddr, lport) ==
    LET hit == last # "none" /\ Exact(pcb[last], faddr, fport, laddr, lport)
        r   == in_pcblookuphash(hash, faddr, fport, laddr, lport, 1)
        inp == IF hit THEN last ELSE r.inp
    IN  /\ hash' = IF hit THEN hash ELSE r.hash
        /\ last' = IF inp = "none" THEN last ELSE inp
        /\ delivered' = [to |-> {inp} \ {"none"}, best |-> Best(faddr, fport, laddr, lport)]
        /\ UNCHANGED <<pcb, udb, lastport>>

\* A broadcast goes to every block it matches, up to the first whose socket
\* does not share its address.
BroadcastTo(faddr, fport, lport) ==
    LET match(s) == /\ pcb[s].lport = lport /\ pcb[s].laddr = ANY
                    /\ pcb[s].faddr = ANY \/ (pcb[s].faddr = faddr /\ pcb[s].fport = fport)
    IN  {udb[i] : i \in {i \in DOMAIN udb : match(udb[i]) /\ \A j \in 1 .. i - 1 : match(udb[j]) => udb[j] \in Shared}}

udp_input_broadcast(faddr, fport, lport) ==
    /\ delivered' = [to |-> BroadcastTo(faddr, fport, lport), best |-> BroadcastTo(faddr, fport, lport)]
    /\ UNCHANGED <<pcb, udb, hash, last, lastport>>

\* udp_ctlinput and in_pcbnotify: an error about a datagram from laddr, lport,
\* or, if whole (PRC_HOSTDEAD), about everything sent to faddr.
udp_ctlinput(faddr, fport, laddr, lport, whole) ==
    LET of(s) == IF whole THEN pcb[s].faddr = faddr ELSE Exact(pcb[s], faddr, fport, laddr, lport) IN
    /\ delivered' = [to |-> {s \in ToSet(udb) : of(s)}, best |-> {s \in Attached : of(s)}]
    /\ UNCHANGED <<pcb, udb, hash, last, lastport>>

UdpInit ==
    /\ pcb = [s \in UdpSocks |-> [NewPcb EXCEPT !.on = FALSE]]
    /\ udb = <<>> /\ hash = [b \in 0 .. HashSize - 1 |-> <<>>]
    /\ last = "none" /\ lastport = MaxPort
    /\ delivered = Nobody

UdpNext ==
    \/ \E s \in UdpSocks : in_pcballoc(s) \/ Disconnect(s) \/ udp_detach(s)
    \/ \E s \in UdpSocks, l \in Laddrs \cup {ANY}, p \in Ports \cup {0} : in_pcbbind(s, l, p)
    \/ \E s \in UdpSocks, f \in Faddrs :
           in_pcbconnect(s, f, Fport) \/ ConnectRefused(s, f, Fport) \/ udp_output(s, f, Fport)
    \/ \E f \in Faddrs, l \in Laddrs, p \in Ports : udp_input(f, Fport, l, p)
    \/ \E f \in Faddrs, p \in Ports : udp_input_broadcast(f, Fport, p)
    \/ \E f \in Faddrs, l \in Laddrs, p \in Ports, w \in BOOLEAN : udp_ctlinput(f, Fport, l, p, w)

UdpSpec == UdpInit /\ [][UdpNext]_udpVars

(***************************************************************************)
(* Properties.                                                             *)
(***************************************************************************)
\* A datagram goes to an open socket that it fits best, or to none only if it
\* fits none: whatever was bound, connected, disconnected or closed since the
\* block was hashed or cached (udp_input, in_pcblookuphash, in_pcbrehash,
\* udp_detach).
DeliveredToBest == delivered.to \subseteq delivered.best /\ (delivered.to = {} => delivered.best = {})

\* No two sockets are connected with the same pair of addresses and ports, so
\* that the order of the table never decides who gets a datagram of a
\* connection (in_pcbconnect).  Sockets that share their port are left out: the
\* port that one of them gets unasked may be that of a connection.
UniqueConnections ==
    \A s, t \in Attached :
        s # t /\ {s, t} \cap Shared = {} /\ pcb[s].faddr # ANY =>
            ~Exact(pcb[t], pcb[s].faddr, pcb[s].fport, pcb[s].laddr, pcb[s].lport)

\* Every datagram has one place to go and goes there (udp_input,
\* in_pcblookuphash, in_pcbconnect).
DatagramsRouted == DeliveredToBest /\ UniqueConnections
=============================================================================
