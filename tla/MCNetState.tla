----------------------------- MODULE MCNetState -----------------------------
(***************************************************************************)
(* Multicast memberships, UDP control blocks, ARP and its routes, socket   *)
(* buffers, and sockets with the tasks that sleep in them.  They share no  *)
(* variable here, so each behaviour follows one of them and leaves the     *)
(* others in their initial states.                                         *)
(***************************************************************************)
EXTENDS Multicast, InPcb, Arp, SockBuf, Socket

\* Multicast: two hosts with one socket each, or (MCNetStateShared.cfg) a
\* second socket on the first host
mcHostOf == [a |-> "A", b |-> "B", c |-> "A"]
mcJoins == [a |-> {"g1", "g2"}, b |-> {"g1"}, c |-> {"g1"}]
mcLimits == {[queries |-> 1, sends |-> 0, groups |-> {"g1", "g2"}],
             [queries |-> 0, sends |-> 1, groups |-> {"g1"}]}

\* InPcb: the local address from which each foreign one is reached
mcLocalFor == [f1 |-> "a1", f2 |-> "a2"]

\* Arp: one socket sends to a neighbour, one through the gateway
mcDstOf == [c1 |-> "h1", c2 |-> "x"]

\* SockBuf
mcRequests == {[resid |-> 1, peek |-> FALSE, waitall |-> FALSE, dontwait |-> FALSE],
               [resid |-> 2, peek |-> TRUE, waitall |-> FALSE, dontwait |-> TRUE],
               [resid |-> 3, peek |-> FALSE, waitall |-> TRUE, dontwait |-> FALSE]}
mcChains == {<<1>>, <<2>>, <<1, 2>>, <<2, 0>>}

\* Socket
mcLingerOf == [s \in {"l", "c1", "c2"} |-> s = "c1"]

CONSTANT Parts
VARIABLE part

\* The parts that a behaviour does not follow start in one way only.
MCInit ==
    /\ part \in Parts /\ McInit /\ UdpInit /\ ArpInit /\ SbInit /\ SoInit
    /\ part # "sockbuf" => kind = "stream"
    /\ part # "multicast" => left = CHOOSE limit \in Limits : TRUE

MCNext ==
    /\ UNCHANGED part
    /\ \/ part = "multicast" /\ McNext /\ UNCHANGED <<udpVars, arpVars, sbVars, w>>
       \/ part = "udp" /\ UdpNext /\ UNCHANGED <<mcVars, arpVars, sbVars, w>>
       \/ part = "arp" /\ ArpNext /\ UNCHANGED <<mcVars, udpVars, sbVars, w>>
       \/ part = "sockbuf" /\ SbNext /\ UNCHANGED <<mcVars, udpVars, arpVars, w>>
       \/ part = "socket" /\ SoNext /\ UNCHANGED <<mcVars, udpVars, arpVars, sbVars>>

MCSpec == MCInit /\ [][MCNext]_<<part, mcVars, udpVars, arpVars, sbVars, w>>
=============================================================================
