------------------------------- MODULE IpNet -------------------------------
(***************************************************************************)
(* Hosts and routers that run the IP of IpInput and IpOutput, connected by *)
(* networks that may lose, duplicate and reorder frames.                   *)
(***************************************************************************)
EXTENDS IpInput

CONSTANTS
    InitRoutes,     \* InitRoutes[n][dst]: the routes of node n at the start
    Plans,          \* what may be sent, and which faults may happen
    Room            \* more frames than any packet becomes

VARIABLES
    node,           \* node[n]: the IP state of n
    wires,          \* the frames on their way to an ipintrq
    todo,           \* the datagrams still to be sent
    sent,           \* those that were sent
    up,             \* what was handed to a protocol, with its node
    handled,        \* how many frames ipintr has taken from its queues
    faults          \* how often frames may still be duplicated or refused,
                    \* queues drained and routes changed

ipVars == <<node, wires, todo, sent, up, handled, faults>>

IpNode(n) ==
    [ipq |-> {}, srcrt |-> NoSrcRt, rt |-> InitRoutes[n], id |-> 0,
     fwd |-> [dst |-> "none", rt |-> NoRoute, up |-> FALSE]]

IpInit ==
    /\ node = [n \in Nodes |-> IpNode(n)]
    /\ wires = {} /\ sent = {} /\ up = {} /\ handled = 0
    /\ \E plan \in Plans : todo = plan.msgs /\ faults = plan.faults

\* A protocol of node m.n gives m.pkt to ip_output, with options or flags.
Send(m) ==
    /\ m \in todo
    /\ LET p == IF m.opt = NoOpt THEN m.pkt ELSE ip_insertoptions(m.pkt, m.opt)
           out == ip_output(m.n, p, node[m.n].rt[p.dst], node[m.n].id, m.flags, Room)
       IN  wires' = wires \cup out.frames
    /\ node' = [node EXCEPT ![m.n].id = (@ + 1) % IdMod]
    /\ todo' = todo \ {m} /\ sent' = sent \cup {m}
    /\ UNCHANGED <<up, handled, faults>>

Handle(f, room, left) ==
    LET r == ipintr(f.at, node[f.at], f.pkt, f.ifp, f.bcast, room) IN
    /\ node' = [node EXCEPT ![f.at] = r.nd]
    /\ wires' = left \cup r.frames
    /\ up' = up \cup {[n |-> f.at, what |-> u] : u \in r.up}
    /\ handled' = handled + 1
    /\ UNCHANGED <<todo, sent>>

\* ipintr takes a frame from its queue.
Receive(f) == Handle(f, Room, wires \ {f}) /\ UNCHANGED faults

\* It does, and the output queue of an interface takes only room frames.
ReceiveFull(f, room) ==
    /\ faults.full > 0
    /\ Handle(f, room, wires \ {f})
    /\ faults' = [faults EXCEPT !.full = @ - 1]

\* The same frame will come a second time.
ReceiveTwice(f) ==
    /\ faults.dup > 0
    /\ Handle(f, Room, wires)
    /\ faults' = [faults EXCEPT !.dup = @ - 1]

Lose(f) ==
    /\ faults.lose > 0
    /\ wires' = wires \ {f}
    /\ faults' = [faults EXCEPT !.lose = @ - 1]
    /\ UNCHANGED <<node, todo, sent, up, handled>>

SlowTimo(n) ==
    /\ node[n].ipq # {}
    /\ node' = [node EXCEPT ![n] = ip_slowtimo(@)]
    /\ UNCHANGED <<wires, todo, sent, up, handled, faults>>

Drain(n) ==
    /\ faults.drain > 0 /\ node[n].ipq # {}
    /\ node' = [node EXCEPT ![n] = ip_drain(@)]
    /\ faults' = [faults EXCEPT !.drain = @ - 1]
    /\ UNCHANGED <<wires, todo, sent, up, handled>>

\* A route of n is replaced by another one: RTF_UP of the old one is cleared.
Reroute(r) ==
    /\ r \in faults.reroute
    /\ node' = [node EXCEPT ![r.n].rt[r.dst] = r.rt,
                            ![r.n].fwd.up = @ /\ node[r.n].fwd.dst # r.dst]
    /\ faults' = [faults EXCEPT !.reroute = @ \ {r}]
    /\ UNCHANGED <<wires, todo, sent, up, handled>>

IpNext ==
    \/ \E m \in todo : Send(m)
    \/ \E f \in wires : Receive(f) \/ ReceiveTwice(f) \/ Lose(f)
    \/ \E f \in wires, room \in 0 .. 1 : ReceiveFull(f, room)
    \/ \E n \in Nodes : SlowTimo(n) \/ Drain(n)
    \/ \E r \in faults.reroute : Reroute(r)

(***************************************************************************)
(* Properties.                                                             *)
(***************************************************************************)
\* A datagram that ipintr hands to a protocol is one that was sent to this
\* node, word for word: whatever was lost, duplicated, reordered, fragmented
\* twice or along different paths (ipReAssemble, ip_output).
DeliveredIntact ==
    \A u \in up : "pkt" \in DOMAIN u.what /\ u.what.p = "udp" =>
        \E m \in sent : /\ m.pkt.data = u.what.pkt.data
                        /\ m.pkt.src = u.what.pkt.src
                        /\ u.what.pkt.dst \in {m.pkt.dst} \cup {m.final}

\* The answer to a source-routed request comes back through the same routers in
\* the opposite order, and only such an answer is source-routed (save_rte,
\* ip_srcroute, icmp_reflect).
AnswersRetrace ==
    \A u \in up :
        "pkt" \in DOMAIN u.what /\ u.what.p = "icmp" /\ u.what.pkt.data[1].type = "echoreply" =>
        \A m \in sent : m.pkt.p = "icmp" /\ m.pkt.data[1].tag = u.what.pkt.data[1].tag =>
            /\ u.what.pkt.opt.kind = m.opt.kind
            /\ m.opt.kind \in {"LSRR", "SSRR"} =>
                  [i \in 1 .. Len(m.hops) |-> Owner(u.what.pkt.opt.route[i])] = Reverse(m.hops)

\* Even where routes form a loop, every packet and every error about a packet
\* leaves the network: each fragment of what was sent passes at most DefTtl
\* nodes and causes at each of them at most one message of ICMP, about which
\* no other one is sent (ip_forward, icmp_error).
Visits(m) ==
    (IF m.pkt.dst = BCAST THEN Cardinality(Nodes) ELSE 1)
        * ((Len(m.pkt.data) + 1) \div 2) * DefTtl * (1 + DefTtl)
PacketsDie == handled <= MapThenSumSet(Visits, sent)
=============================================================================
