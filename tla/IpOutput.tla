------------------------------ MODULE IpOutput ------------------------------
(***************************************************************************)
(* The output side of IP (ip_output.c) as operators on one packet: routing,*)
(* the checks on broadcasts, fragmentation, and the IP options.            *)
(*                                                                         *)
(* A packet is a record of the header fields the code looks at and of the  *)
(* payload, a sequence of 4-byte words.  Lengths and offsets are counted   *)
(* in words, without the 20 bytes of the fixed header: an MTU too.         *)
(***************************************************************************)
EXTENDS Integers, Sequences, SequencesExt, FiniteSetsExt

CONSTANTS
    Nodes,          \* the hosts and routers
    IfAddrs,        \* IfAddrs[n]: the in_ifaddr list of node n
    LinkOf,         \* LinkOf[a]: the network that address a is on
    Mtu,            \* Mtu[l]: the if_mtu of the interfaces on network l
    OptWords,       \* length of a source or record route option
    BCAST,          \* INADDR_BROADCAST
    IdMod           \* ip_id counts modulo IdMod (2^16 in the code)

ASSUME TopologyAssumption ==
    /\ \A n \in Nodes : IfAddrs[n] # <<>>
    /\ IdMod \in Nat \ {0} /\ OptWords \in Nat

Owner(a) == CHOOSE n \in Nodes : a \in Range(IfAddrs[n])

NoRoute == [ifp |-> "none", gw |-> "none", flags |-> {}]
NoOpt   == [kind |-> "none", route |-> <<>>, ptr |-> 0]
hlen(pkt) == IF pkt.opt.kind = "none" THEN 0 ELSE OptWords
ip_len(pkt) == hlen(pkt) + Len(pkt.data)

\* in_broadcast
in_broadcast(a) == a = BCAST

\* IA_SIN of the first address in the list of n that is on network l
AddrOn(n, l) == SelectSeq(IfAddrs[n], LAMBDA a : LinkOf[a] = l)[1]
ifa_ifwithaddr(n, a) == a \in Range(IfAddrs[n])
ifa_ifwithnet(n, a) == \E b \in Range(IfAddrs[n]) : LinkOf[b] = LinkOf[a]

\* What the interface of n on network l puts on the wire for the next hop.
if_output(n, l, nexthop, pkt) ==
    IF in_broadcast(nexthop)
    THEN {[at |-> m, ifp |-> l, pkt |-> pkt, bcast |-> TRUE] :
             m \in {m \in Nodes \ {n} : \E a \in Range(IfAddrs[m]) : LinkOf[a] = l}}
    ELSE {[at |-> m, ifp |-> l, pkt |-> pkt, bcast |-> FALSE] :
             m \in {m \in Nodes : nexthop \in Range(IfAddrs[m]) /\ LinkOf[nexthop] = l}}

(***************************************************************************)
(* Options.                                                                *)
(***************************************************************************)
\* opt, as ip_srcroute builds it: its first hop becomes the destination.
ip_insertoptions(pkt, opt) ==
    [pkt EXCEPT !.dst = IF opt.kind \in {"LSRR", "SSRR"} THEN opt.first ELSE @,
                !.opt = [kind |-> opt.kind, route |-> opt.route, ptr |-> opt.ptr]]

\* A fragment other than the first has only the options marked to be copied.
ip_optcopy(opt) == IF opt.kind \in {"LSRR", "SSRR"} THEN opt ELSE NoOpt

(***************************************************************************)
(* Fragmentation: the first fragment keeps the header of the packet, each  *)
(* other one starts at a multiple of two words.                            *)
(***************************************************************************)
FragWords(l, pkt) == ((Mtu[l] - hlen(pkt)) \div 2) * 2

Fragment(pkt, len, i) ==
    LET last == i * len >= Len(pkt.data) IN
    [pkt EXCEPT
        !.off  = @ + (i - 1) * len,
        !.mf   = @ \/ ~last,
        !.opt  = IF i = 1 THEN @ ELSE ip_optcopy(@),
        !.data = SubSeq(@, (i - 1) * len + 1, IF last THEN Len(@) ELSE i * len)]

Fragments(pkt, len) ==
    [i \in 1 .. (Len(pkt.data) + len - 1) \div len |-> Fragment(pkt, len, i)]

\* sendit: at most room frames are accepted by the interface; after the first
\* one it refuses, the rest of the train is freed.
sendit(n, rt, nexthop, pkt, room) ==
    LET send(ps) == [frames |-> UNION {if_output(n, rt.ifp, nexthop, ps[i]) :
                                          i \in 1 .. Min({room, Len(ps)})},
                     error  |-> IF Len(ps) > room THEN "ENOBUFS" ELSE "ok"]
        len == FragWords(rt.ifp, pkt)
    IN  IF ip_len(pkt) <= Mtu[rt.ifp] THEN send(<<pkt>>)
        ELSE IF pkt.df \/ len < 2 THEN [frames |-> {}, error |-> "EMSGSIZE"]
        ELSE send(Fragments(pkt, len))

(***************************************************************************)
(* ip_output for a destination that is not a multicast group.  ro is the   *)
(* route for the destination; flags a subset of {"forwarding",             *)
(* "allowbroadcast", "routetoif"}.                                         *)
(***************************************************************************)
Header(n, pkt, id, flags) ==
    IF "forwarding" \in flags THEN pkt ELSE [pkt EXCEPT !.off = 0, !.mf = FALSE, !.id = id]

OutRoute(n, dst, ro, flags) ==
    IF "routetoif" \in flags
    THEN IF dst # BCAST /\ ~ifa_ifwithnet(n, dst) THEN NoRoute
         ELSE [ifp |-> IF dst = BCAST THEN LinkOf[IfAddrs[n][1]] ELSE LinkOf[dst],
               gw |-> "none", flags |-> {}]
    ELSE ro

ip_output(n, pkt0, ro, id, flags, room) ==
    LET pkt1 == Header(n, pkt0, id, flags)
        pkt  == IF "routetoif" \in flags THEN [pkt1 EXCEPT !.ttl = 1] ELSE pkt1
        rt   == OutRoute(n, pkt.dst, ro, flags)
        hop  == IF "gateway" \in rt.flags THEN rt.gw ELSE pkt.dst
        fail(e) == [frames |-> {}, error |-> e]
    IN  IF rt = NoRoute
        THEN fail(IF "routetoif" \in flags THEN "ENETUNREACH" ELSE "EHOSTUNREACH")
        ELSE IF in_broadcast(hop) /\ "allowbroadcast" \notin flags THEN fail("EACCES")
        ELSE IF in_broadcast(hop) /\ ip_len(pkt) > Mtu[rt.ifp] THEN fail("EMSGSIZE")
        ELSE sendit(n, rt, hop, pkt, room)
=============================================================================
