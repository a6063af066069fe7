------------------------------ MODULE MCIpNet ------------------------------
(***************************************************************************)
(* Three hosts and two routers:                                            *)
(*                                                                         *)
(*     h1 --l1-- R1 --l2-- R2 --l3-- h2      h3 is on l2; R1 and R2 are    *)
(*                 \--l4--/                  also connected by l4          *)
(*                                                                         *)
(* Each behaviour follows one plan.                                        *)
(***************************************************************************)
EXTENDS IpNet

mcNodes == {"H1", "H2", "H3", "R1", "R2"}
mcIfAddrs == [H1 |-> <<"h1">>, H2 |-> <<"h2">>, H3 |-> <<"h3">>,
              R1 |-> <<"r1a", "r1b", "r1d">>, R2 |-> <<"r2b", "r2c", "r2d">>]
mcLinkOf == [h1 |-> "l1", r1a |-> "l1", r1b |-> "l2", r2b |-> "l2", h3 |-> "l2",
             r2c |-> "l3", h2 |-> "l3", r1d |-> "l4", r2d |-> "l4", x |-> "lx"]
mcMtu == [l1 |-> 8, l2 |-> 7, l3 |-> 5, l4 |-> 4]

Direct(l)  == [ifp |-> l, gw |-> "none", flags |-> {}]
Via(l, g)  == [ifp |-> l, gw |-> g, flags |-> {"gateway"}]

\* "x" is an address that nobody has; the routers send it to each other.
mcInitRoutes ==
    [n \in mcNodes |->
       [a \in DOMAIN mcLinkOf \cup {BCAST} |->
          CASE a = BCAST -> Direct(mcLinkOf[mcIfAddrs[n][1]])
            [] a # BCAST /\ \E b \in Range(mcIfAddrs[n]) : mcLinkOf[b] = mcLinkOf[a] -> Direct(mcLinkOf[a])
            [] n = "H1" -> Via("l1", "r1a")
            [] n = "H2" -> Via("l3", "r2c")
            [] n = "H3" -> Via("l2", "r1b")
            [] n = "R1" -> Via("l2", "r2b")
            [] OTHER    -> Via("l2", "r1b")]]

Data(tag, len) == [i \in 1 .. len |-> <<tag, i>>]
Ping(tag) == <<[type |-> "echo", tag |-> tag]>>
Pkt(src, dst, p, data) ==
    [src |-> src, dst |-> dst, p |-> p, ttl |-> DefTtl, id |-> 0, off |-> 0, mf |-> FALSE,
     df |-> FALSE, opt |-> NoOpt, data |-> data]
Msg(n, pkt, opt, hops, flags) ==
    [n |-> n, pkt |-> pkt, opt |-> opt, hops |-> hops, final |-> pkt.dst, flags |-> flags]
Plain(n, pkt) == Msg(n, pkt, NoOpt, <<>>, {})
NoFaults == [dup |-> 0, lose |-> 0, full |-> 0, drain |-> 0, reroute |-> {}]
RR == [kind |-> "RR", route |-> <<"none", "none">>, ptr |-> 1]

mcPlans ==
    {\* two datagrams with the same identification, each fragmented twice
     [msgs |-> {Plain("H1", Pkt("h1", "h2", "udp", Data("a", 8))),
                Plain("H3", Pkt("h3", "h2", "udp", Data("b", 6)))},
      faults |-> [NoFaults EXCEPT !.lose = 1]],
     \* one that comes twice, over l2 and over l4
     [msgs |-> {Plain("H1", Pkt("h1", "h2", "udp", Data("a", 8)))},
      faults |-> [NoFaults EXCEPT !.dup = 1, !.drain = 1, !.full = 1,
                    !.reroute = {[n |-> "R1", dst |-> "h2", rt |-> Via("l4", "r2d")]}]],
     \* no route out of the loop; not to be fragmented; to everybody
     [msgs |-> {Plain("H1", Pkt("h1", "x", "udp", Data("a", 8))),
                Plain("H1", [Pkt("h1", "h2", "udp", Data("b", 8)) EXCEPT !.df = TRUE]),
                Msg("H3", Pkt("h3", BCAST, "icmp", Ping("c")), NoOpt, <<>>, {"allowbroadcast"})},
      faults |-> [NoFaults EXCEPT !.full = 1]],
     \* an error about a packet whose source is behind the loop
     [msgs |-> {Plain("R1", Pkt("x", "x", "udp", Data("a", 2)))}, faults |-> NoFaults],
     \* source routes and recorded routes
     [msgs |-> {Msg("H1", Pkt("h1", "h2", "icmp", Ping("a")),
                    [kind |-> "LSRR", first |-> "r1a", route |-> <<"r2b", "h2">>, ptr |-> 1],
                    <<"R1", "R2">>, {}),
                Msg("H1", Pkt("h1", "h2", "icmp", Ping("b")), RR, <<>>, {}),
                Msg("H3", Pkt("h3", "h2", "icmp", Ping("c")),
                    [kind |-> "SSRR", first |-> "r2b", route |-> <<"h2">>, ptr |-> 1], <<"R2">>, {})},
      faults |-> NoFaults],
     \* a strict route that R2 cannot follow, and a bad pointer
     [msgs |-> {Msg("H3", Pkt("h3", "h1", "icmp", Ping("d")),
                    [kind |-> "SSRR", first |-> "r2b", route |-> <<"h1">>, ptr |-> 1], <<>>, {}),
                Msg("H3", Pkt("h3", "h1", "icmp", Ping("e")),
                    [kind |-> "LSRR", first |-> "r1b", route |-> <<"h1">>, ptr |-> 0], <<>>, {})},
      faults |-> NoFaults],
     \* a redirect, and a host that is told to keep to its network
     [msgs |-> {Plain("H3", Pkt("h3", "h2", "udp", Data("a", 4))),
                Plain("H3", Pkt("h3", "h2", "udp", Data("b", 4))),
                Msg("H3", Pkt("h3", "r1b", "udp", Data("c", 2)), NoOpt, <<>>, {"routetoif"}),
                Msg("H3", Pkt("h3", "h1", "udp", Data("d", 2)), NoOpt, <<>>, {"routetoif"})},
      faults |-> [NoFaults EXCEPT !.lose = 1]]}

MCSpec == IpInit /\ [][IpNext]_ipVars
=============================================================================
