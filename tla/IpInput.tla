------------------------------ MODULE IpInput ------------------------------
(***************************************************************************)
(* The input side of IP (ip_input.c) as operators on one packet and the    *)
(* state of the node that takes it from ipintrq: options, the choice       *)
(* between delivery and forwarding, reassembly, the timer of the fragment  *)
(* queues, and forwarding.                                                 *)
(***************************************************************************)
EXTENDS Icmp

CONSTANTS
    IpFragTtl,      \* ipfragttl, in runs of ip_slowtimo
    Forwards        \* the nodes whose _ipCfgFlags have IP_DO_FORWARDING

(***************************************************************************)
(* Reassembly.  A queue holds its fragments in order of their offsets.     *)
(***************************************************************************)
End(f) == f.off + Len(f.data)
Cut(f, words) == [f EXCEPT !.data = SubSeq(@, 1, Len(@) - words)]

\* The fragments after f has come in; an empty tuple if f is dropped because a
\* fragment that starts before f holds all of it.
Insert(frags, f) ==
    LET k == Min({i \in 1 .. Len(frags) : frags[i].off >= f.off} \cup {Len(frags) + 1})
        before == SubSeq(frags, 1, k - 1)
        trimmed == [i \in 1 .. Len(before) |->
                      IF End(before[i]) > f.off THEN Cut(before[i], End(before[i]) - f.off)
                      ELSE before[i]]
        after == SubSeq(frags, k, Len(frags))
        c == Min({i \in 1 .. Len(after) : End(f) < End(after[i])} \cup {Len(after) + 1})
        rest == SubSeq(after, c, Len(after))
        g == IF rest # <<>> /\ End(f) > rest[1].off THEN Cut(f, End(f) - rest[1].off) ELSE f
    IN  IF \E i \in 1 .. Len(before) : /\ End(before[i]) > f.off
                                       /\ End(before[i]) - f.off >= Len(f.data)
        THEN <<>>
        ELSE trimmed \o <<g>> \o rest

Complete(frags) ==
    /\ \A i \in 1 .. Len(frags) : frags[i].off = (IF i = 1 THEN 0 ELSE End(frags[i - 1]))
    /\ ~Last(frags).mf

Joined(frags) == [frags[1] EXCEPT !.mf = FALSE,
                                  !.data = FlattenSeq([i \in 1 .. Len(frags) |-> frags[i].data])]

\* Mutant: datagrams of different senders share a queue.
Key_WithoutSource(pkt) == [id |-> pkt.id, src |-> "any", dst |-> pkt.dst, p |-> pkt.p]

Key(pkt) == [id |-> pkt.id, src |-> pkt.src, dst |-> pkt.dst, p |-> pkt.p]

\* The queues after fragment f, and the datagram it completes, if any.
ipReAssemble(ipq, f) ==
    LET k     == Key(f)
        old   == {q \in ipq : q.key = k}
        q     == IF old = {} THEN [key |-> k, ttl |-> IpFragTtl, frags |-> <<>>]
                 ELSE CHOOSE x \in old : TRUE
        frags == Insert(q.frags, f)
    IN  IF frags = <<>> THEN [ipq |-> ipq, whole |-> {}]
        ELSE IF Complete(frags) THEN [ipq |-> ipq \ old, whole |-> {Joined(frags)}]
        ELSE [ipq |-> (ipq \ old) \cup {[q EXCEPT !.frags = frags]}, whole |-> {}]

\* The 500 ms timer: ip_freef frees the queues whose time is over.
ip_slowtimo(nd) ==
    [nd EXCEPT !.ipq = {[q EXCEPT !.ttl = @ - 1] : q \in {q \in nd.ipq : q.ttl > 1}}]

ip_drain(nd) == [nd EXCEPT !.ipq = {}]

(***************************************************************************)
(* Forwarding.                                                             *)
(***************************************************************************)
\* ipforward_rt, looked up again when the destination changes.  Its route may
\* have been deleted since (up is RTF_UP): ip_output then looks it up again.
Cached(nd, dst) ==
    IF nd.fwd.dst = dst /\ nd.fwd.rt # NoRoute THEN nd.fwd
    ELSE [dst |-> dst, rt |-> nd.rt[dst], up |-> TRUE]
Used(nd, c) == IF c.up THEN c ELSE [dst |-> c.dst, rt |-> nd.rt[c.dst], up |-> TRUE]

\* ip_rtaddr: the address of the interface towards dst
ip_rtaddr(n, nd, dst) ==
    IF Cached(nd, dst).rt = NoRoute THEN "none" ELSE AddrOn(n, Cached(nd, dst).rt.ifp)

\* The packet goes out on the network it came from, and its sender is there.
Redirects(pkt, rt, rcvif, srcrt) ==
    /\ rt.ifp = rcvif
    /\ rt.flags \cap {"dynamic", "modified", "default"} = {}
    /\ ~srcrt
    /\ LinkOf[pkt.src] = rt.ifp

\* Mutant: the time to live is not counted down.
Ttl_Kept(pkt) == pkt.ttl

Ttl(pkt) == pkt.ttl - 1

ip_forward(n, nd0, pkt, rcvif, bcast, srcrt, room) ==
    LET c   == Cached(nd0, pkt.dst)
        rt  == c.rt
        ro  == Used(nd0, c)
        nd  == [nd0 EXCEPT !.fwd = ro]
        fwd == [pkt EXCEPT !.ttl = Ttl(pkt)]
        out == ip_output(n, fwd, ro.rt, 0, {"forwarding", "allowbroadcast"}, room)
        err(t, dest) == icmp_error(n, nd, fwd, rcvif, bcast, t, dest, room)
        \* the error goes out after the packet
        with(r) == Result(r.nd, out.frames \cup r.frames, r.up)
    IN  IF bcast THEN Result(nd0, {}, {})
        ELSE IF pkt.ttl <= 1
        THEN icmp_error(n, nd0, pkt, rcvif, bcast, "timxceed", "none", room)
        ELSE IF rt = NoRoute THEN err("unreach_host", "none")
        ELSE IF out.error = "ok"
        THEN IF Redirects(pkt, rt, rcvif, srcrt)
             THEN with(err("redirect", IF "gateway" \in rt.flags THEN rt.gw ELSE pkt.dst))
             ELSE with(Result(nd, {}, {}))
        ELSE IF out.error = "EMSGSIZE" THEN with(err("needfrag", "none"))
        ELSE IF out.error = "ENOBUFS" THEN with(err("quench", "none"))
        ELSE with(err("unreach_host", "none"))

(***************************************************************************)
(* Options.  verdict is "bad" (an error of the given type is due),         *)
(* "forward" (the next hop of a source route) or "go on".                  *)
(***************************************************************************)
Verdict(v, nd, pkt, type) == [verdict |-> v, nd |-> nd, pkt |-> pkt, type |-> type]

SourceRoute(n, nd, pkt) ==
    LET o    == pkt.opt
        next == o.route[o.ptr]
        via  == IF o.kind = "SSRR" THEN (IF ifa_ifwithnet(n, next) THEN AddrOn(n, LinkOf[next]) ELSE "none")
                ELSE ip_rtaddr(n, nd, next)
        \* ip_rtaddr leaves its route in the forwarding cache
        nd1  == IF o.kind = "SSRR" THEN nd
                ELSE [nd EXCEPT !.fwd = Cached(nd, next)]
    IN  IF o.ptr < 1 THEN Verdict("bad", nd, pkt, "paramprob")
        ELSE IF ~ifa_ifwithaddr(n, pkt.dst)
        THEN IF o.kind = "SSRR" THEN Verdict("bad", nd, pkt, "srcfail") ELSE Verdict("go on", nd, pkt, "")
        ELSE IF o.ptr > Len(o.route)
        THEN Verdict("go on", [nd EXCEPT !.srcrt = [kind |-> o.kind, route |-> o.route, dst |-> pkt.src]], pkt, "")
        ELSE IF via = "none" THEN Verdict("bad", nd1, pkt, "srcfail")
        ELSE Verdict("forward", nd1, [pkt EXCEPT !.dst = next, !.opt.route[o.ptr] = via, !.opt.ptr = @ + 1], "")

RecordRoute(n, nd, pkt) ==
    LET o   == pkt.opt
        own == ifa_ifwithaddr(n, pkt.dst)
        via == IF own THEN pkt.dst ELSE ip_rtaddr(n, nd, pkt.dst)
        nd1 == IF own THEN nd ELSE [nd EXCEPT !.fwd = Cached(nd, pkt.dst)]
    IN  IF o.ptr < 1 THEN Verdict("bad", nd, pkt, "paramprob")
        ELSE IF o.ptr > Len(o.route) THEN Verdict("go on", nd, pkt, "")
        ELSE IF via = "none" THEN Verdict("bad", nd1, pkt, "unreach_host")
        ELSE Verdict("go on", nd1, [pkt EXCEPT !.opt.route[o.ptr] = via, !.opt.ptr = @ + 1], "")

ip_dooptions(n, nd, pkt) ==
    CASE pkt.opt.kind = "none" -> Verdict("go on", nd, pkt, "")
      [] pkt.opt.kind = "RR"   -> RecordRoute(n, nd, pkt)
      [] OTHER                 -> SourceRoute(n, nd, pkt)

(***************************************************************************)
(* ipintr for one packet.                                                  *)
(***************************************************************************)
Ours(n, dst) == ifa_ifwithaddr(n, dst) \/ dst = BCAST

pr_input(n, nd, pkt, rcvif, room) ==
    IF pkt.p = "icmp" THEN icmp_input(n, nd, pkt, rcvif, room)
    ELSE Result(nd, {}, {[p |-> pkt.p, pkt |-> pkt]})

Deliver(n, nd, pkt, rcvif, room) ==
    IF ~pkt.mf /\ pkt.off = 0 THEN pr_input(n, nd, pkt, rcvif, room)
    ELSE LET r   == ipReAssemble(nd.ipq, pkt)
             nd1 == [nd EXCEPT !.ipq = r.ipq]
         IN  IF r.whole = {} THEN Result(nd1, {}, {})
             ELSE pr_input(n, nd1, CHOOSE w \in r.whole : TRUE, rcvif, room)

\* Mutant: the route saved from an earlier packet is kept.
Fresh_Kept(nd) == nd

\* ip_nhops = 0 before the options of each packet
Fresh(nd) == [nd EXCEPT !.srcrt = NoSrcRt]

ipintr(n, nd0, pkt0, rcvif, bcast, room) ==
    LET o == ip_dooptions(n, Fresh(nd0), pkt0) IN
    IF o.verdict = "bad" THEN icmp_error(n, o.nd, pkt0, rcvif, bcast, o.type, "none", room)
    ELSE IF o.verdict = "forward" THEN ip_forward(n, o.nd, o.pkt, rcvif, bcast, TRUE, room)
    ELSE IF Ours(n, o.pkt.dst) THEN Deliver(n, o.nd, o.pkt, rcvif, room)
    ELSE IF n \in Forwards THEN ip_forward(n, o.nd, o.pkt, rcvif, bcast, FALSE, room)
    ELSE Result(o.nd, {}, {})
=============================================================================
