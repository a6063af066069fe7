-------------------------------- MODULE Icmp --------------------------------
(***************************************************************************)
(* ICMP (ip_icmp.c) as operators on the IP state of one node.              *)
(*                                                                         *)
(* The state nd of a node: its fragment queues (ipq), the source route     *)
(* saved from the packet in hand (srcrt, the statics ip_srcrt and          *)
(* ip_nhops), the cached forwarding route (fwd), its routes by destination *)
(* (rt), the next identification (id).  A handler returns the node after   *)
(* it, the frames it put on the wires and what it handed to a protocol.    *)
(***************************************************************************)
EXTENDS IpOutput

CONSTANT DefTtl     \* ipTimeToLive

NoSrcRt == [kind |-> "none", route |-> <<>>, dst |-> "none"]
Result(nd, frames, up) == [nd |-> nd, frames |-> frames, up |-> up]

Errors == {"unreach_host", "needfrag", "srcfail", "port", "timxceed", "paramprob", "quench"}
IsIcmpError(pkt) == pkt.p = "icmp" /\ pkt.data[1].type \in Errors \cup {"redirect"}

\* The source route back to the sender of the packet in hand.
ip_srcroute(nd) ==
    LET r == Reverse(nd.srcrt.route) IN
    [kind |-> nd.srcrt.kind, first |-> r[1], route |-> Append(Tail(r), nd.srcrt.dst), ptr |-> 1]

icmp_send(n, nd, pkt, opts, room) ==
    LET p   == IF opts = NoOpt THEN pkt ELSE ip_insertoptions(pkt, opts)
        out == ip_output(n, p, nd.rt[p.dst], nd.id, {}, room)
    IN  Result([nd EXCEPT !.id = (@ + 1) % IdMod], out.frames, {})

\* The address to answer from: the one the packet was sent to, if it is ours,
\* or else that of the interface it came in on.
ReflectSource(n, dst, rcvif) ==
    IF ifa_ifwithaddr(n, dst) THEN dst ELSE AddrOn(n, rcvif)

icmp_reflect(n, nd, pkt, rcvif, room) ==
    LET opts  == IF pkt.opt = NoOpt THEN NoOpt
                 ELSE IF nd.srcrt.route # <<>> THEN ip_srcroute(nd)
                 ELSE IF pkt.opt.kind = "RR" THEN pkt.opt
                 ELSE NoOpt
        reply == [pkt EXCEPT !.dst = pkt.src,
                             !.src = ReflectSource(n, pkt.dst, rcvif),
                             !.ttl = DefTtl,
                             !.opt = NoOpt]
    IN  icmp_send(n, nd, reply, opts, room)

\* The conditions under which no error is sent.
NoError(pkt, bcast, type) ==
    \/ pkt.off # 0
    \/ IsIcmpError(pkt) /\ type # "redirect"
    \/ bcast

icmp_error(n, nd, pkt, rcvif, bcast, type, dest, room) ==
    IF NoError(pkt, bcast, type) THEN Result(nd, {}, {})
    ELSE LET about == [src |-> pkt.src, dst |-> pkt.dst, p |-> pkt.p]
             error == [pkt EXCEPT !.p = "icmp", !.opt = NoOpt, !.mf = FALSE, !.df = FALSE,
                                  !.data = <<[type |-> type, gw |-> dest, about |-> about]>>]
         IN  icmp_reflect(n, nd, error, rcvif, room)

\* rtredirect: a host route through gw for dst, if the redirect comes from the
\* gateway in use and names a neighbour.
rtredirect(n, nd, dst, gw, src) ==
    LET rt == nd.rt[dst]
        ok == /\ ifa_ifwithnet(n, gw)
              /\ rt # NoRoute => src = rt.gw /\ rt.ifp = LinkOf[gw]
              /\ ~ifa_ifwithaddr(n, gw)
              /\ rt # NoRoute => "default" \in rt.flags \/ "gateway" \in rt.flags
        new == [ifp |-> LinkOf[gw], gw |-> gw,
                flags |-> {"gateway", IF "host" \in rt.flags THEN "modified" ELSE "dynamic", "host"}]
    IN  IF ok THEN [nd EXCEPT !.rt[dst] = new] ELSE nd

icmp_input(n, nd, pkt, rcvif, room) ==
    LET msg == pkt.data[1]
        up  == {[p |-> "icmp", pkt |-> pkt]}
    IN  CASE msg.type = "echo" ->
                icmp_reflect(n, nd, [pkt EXCEPT !.data[1].type = "echoreply"], rcvif, room)
          [] msg.type \in Errors ->
                Result(nd, {}, up \cup {[p |-> msg.about.p, ctl |-> msg.type, dst |-> msg.about.dst]})
          [] msg.type = "redirect" ->
                Result(rtredirect(n, nd, msg.about.dst, msg.gw, pkt.src), {}, up)
          [] OTHER -> Result(nd, {}, up)
=============================================================================
