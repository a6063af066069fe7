-------------------------------- MODULE Arp --------------------------------
(***************************************************************************)
(* The routing entries of a host on an Ethernet and their reference counts *)
(* (route.c), the ARP state kept in them (if_ether.c), and the output of   *)
(* packets through them (ether_output in if_subr.c).                       *)
(*                                                                         *)
(* The table holds the route of the network (entry NetRt), from which a    *)
(* host route is cloned for each neighbour that is talked to, and a route  *)
(* through a gateway (entry GwRt) for every other destination.             *)
(***************************************************************************)
EXTENDS Integers, Sequences, FiniteSets

CONSTANTS
    Neighbours, Gateway,    \* hosts on the Ethernet, and one of them
    RtMax,                  \* how many entries there is memory for
    Caches, DstOf,          \* the struct routes of the sockets, by destination
    Macs,
    Packets,
    arpt_keep, arpt_down, arpRxmitTicks, arp_maxtries,
    EndOfTime               \* bound on tickGet()

\* There is memory for the two routes of the network, the gateway is on it, and
\* no name stands for two things.
ASSUME ArpAssumption ==
    /\ RtMax \in Nat /\ RtMax >= 2
    /\ IsFiniteSet(Caches)
    /\ Gateway \in Neighbours /\ Neighbours \cap {"none", "net", "default"} = {}
    /\ "none" \notin Packets /\ "none" \notin Macs
    /\ {arpt_keep, arpt_down, arpRxmitTicks, arp_maxtries, EndOfTime} \subseteq Nat

VARIABLES
    rts,            \* rts[i]: entry i
    cache,          \* cache[c]: ro_rt of c, 0 if it has none
    fate,           \* fate[p]: "new", "held", "sent" or "dropped"
    now

arpVars == <<rts, cache, fate, now>>

NetRt == 1
GwRt  == 2
\* where: in the table, deleted but still in use, or free memory
FreeRt == [where |-> "free", dst |-> "none", ref |-> 0, gwroute |-> 0, ll |-> FALSE,
           mac |-> "none", expire |-> 0, asked |-> 0, hold |-> "none", reject |-> FALSE]
InTable(R, d) == {i \in DOMAIN R : R[i].where = "table" /\ R[i].dst = d}

(***************************************************************************)
(* route.c.  R stands for the entries; an operator that returns an entry   *)
(* gives the pair of R and its index, 0 if there is none.                  *)
(***************************************************************************)
\* Mutant: a deleted entry is freed when its last but one user lets go of it.
rtfree_Early(R, i) ==
    LET r == [R[i] EXCEPT !.ref = @ - 1] IN
    [R EXCEPT ![i] = IF r.ref <= 1 /\ r.where = "deleted" THEN FreeRt ELSE r]

rtfree(R, i) ==
    LET r == [R[i] EXCEPT !.ref = @ - 1] IN
    [R EXCEPT ![i] = IF r.ref <= 0 /\ r.where = "deleted" THEN FreeRt ELSE r]

Hold(R, i) == [R EXCEPT ![i].ref = @ + 1]

\* memory for another host route
Room(R) == {i \in DOMAIN R : i > GwRt /\ R[i].where = "free"}

\* rtrequest RTM_RESOLVE and arp_rtrequest: a host route for neighbour d with
\* room for its Ethernet address, not known yet.  Its times are those of the
\* network's route.
Clone(R, d) ==
    LET i == CHOOSE i \in Room(R) : TRUE IN
    <<[R EXCEPT ![i] = [FreeRt EXCEPT !.where = "table", !.dst = d, !.ref = 1, !.ll = TRUE,
                                      !.expire = R[NetRt].expire]], i>>

rtalloc1(R, d, report) ==
    IF InTable(R, d) # {}
    THEN LET i == CHOOSE i \in InTable(R, d) : TRUE IN <<Hold(R, i), i>>
    ELSE IF d \in Neighbours
    THEN IF report /\ Room(R) # {} THEN Clone(R, d)
         ELSE <<Hold(R, NetRt), NetRt>>
    ELSE IF R[GwRt].where = "table" THEN <<Hold(R, GwRt), GwRt>>
    ELSE <<R, 0>>

\* rtrequest RTM_DELETE and arp_rtrequest
rtdelete(R, i) ==
    LET g == R[i].gwroute
        R1 == IF g = 0 THEN R ELSE rtfree(R, g)
        r == [R1[i] EXCEPT !.where = "deleted", !.gwroute = 0, !.ll = FALSE, !.hold = "none"]
    IN  [R1 EXCEPT ![i] = IF r.ref <= 0 THEN FreeRt ELSE r]

(***************************************************************************)
(* if_ether.c.                                                             *)
(***************************************************************************)
\* arptfree: an entry in use only forgets its address.
arptfree(R, i) ==
    IF R[i].ref > 0
    THEN [R EXCEPT ![i].mac = "none", ![i].asked = 0, ![i].reject = FALSE]
    ELSE rtdelete(R, i)

\* arplookup: the ARP entry for d, 0 if the route found is not one
arplookup(R, d, create) ==
    LET a == rtalloc1(R, d, create) IN
    IF a[2] = 0 THEN a
    ELSE LET R1 == [a[1] EXCEPT ![a[2]].ref = @ - 1] IN
         <<R1, IF R1[a[2]].ll THEN a[2] ELSE 0>>

\* What became of the packet: R afterwards, where it was sent ("none": it was
\* not) and the packets that were freed.
Out(R, mac, i, freed) == [R |-> R, mac |-> mac, via |-> i, freed |-> freed]

Usable(r) == r.mac # "none" /\ (r.expire = 0 \/ r.expire > now)

\* arpresolve, for a unicast packet p
arpresolve(R, i, p) ==
    LET r == R[i]
        ask == r.asked = 0 \/ now < r.expire \/ now - r.expire >= arpRxmitTicks
        again == IF r.expire = 0 THEN r
                 ELSE IF ~ask THEN [r EXCEPT !.reject = FALSE]
                 ELSE IF r.asked < arp_maxtries
                 THEN [r EXCEPT !.reject = FALSE, !.expire = now, !.asked = @ + 1]
                 ELSE [r EXCEPT !.reject = TRUE, !.expire = now + arpt_down, !.asked = 0]
    IN  IF ~r.ll THEN Out(R, "none", i, {p})
        ELSE IF Usable(r) THEN Out(R, r.mac, i, {})
        ELSE Out([R EXCEPT ![i] = [again EXCEPT !.hold = p]], "none", i, {r.hold} \ {"none"})

\* Mutant: the packet that waited stays in the entry after it is sent.
Learn_KeepsHold(R, i, mac) ==
    [R EXCEPT ![i].mac = mac, ![i].reject = FALSE, ![i].asked = 0,
              ![i].expire = IF @ = 0 THEN 0 ELSE now + arpt_keep]

\* in_arpinput: a request or reply of neighbour d with address mac
Learn(R, i, mac) ==
    [R EXCEPT ![i].mac = mac, ![i].reject = FALSE, ![i].asked = 0, ![i].hold = "none",
              ![i].expire = IF @ = 0 THEN 0 ELSE now + arpt_keep]

in_arpinput(d, mac, forMe) ==
    LET l == arplookup(rts, d, forMe)
        i == l[2]
    IN  /\ rts' = IF i = 0 THEN l[1] ELSE Learn(l[1], i, mac)
        /\ fate' = IF i # 0 /\ l[1][i].hold # "none" THEN [fate EXCEPT ![l[1][i].hold] = "sent"] ELSE fate
        /\ UNCHANGED <<cache, now>>

\* arptimer: the entries that are due
ArpDue(R) == {i \in DOMAIN R : R[i].ll /\ R[i].expire # 0 /\ R[i].expire <= now}
arptimer ==
    /\ ArpDue(rts) # {}
    /\ rts' = [i \in DOMAIN rts |-> IF i \in ArpDue(rts) THEN arptfree(rts, i)[i] ELSE rts[i]]
    /\ fate' = [p \in Packets |-> IF \E i \in ArpDue(rts) : rts[i].hold = p /\ rts'[i].hold # p
                                  THEN "dropped" ELSE fate[p]]
    /\ UNCHANGED <<cache, now>>

\* arpioctl
SIOCDARP(d) ==
    LET l == arplookup(rts, d, FALSE) IN
    /\ l[2] # 0
    /\ rts' = arptfree(l[1], l[2])
    /\ fate' = IF rts[l[2]].hold # "none" /\ rts'[l[2]].hold = "none"
               THEN [fate EXCEPT ![rts[l[2]].hold] = "dropped"] ELSE fate
    /\ UNCHANGED <<cache, now>>

\* An entry that is there is replaced (routeSwap).
SIOCSARP(d, mac, perm) ==
    LET old == InTable(rts, d)
        R1 == IF old = {} THEN rts ELSE rtdelete(rts, CHOOSE i \in old : TRUE)
    IN  /\ Room(rts) # {}
        /\ rts' = LET c == Clone(R1, d) IN
                  [c[1] EXCEPT ![c[2]].mac = mac, ![c[2]].ref = 0,
                               ![c[2]].expire = IF perm THEN 0 ELSE now + arpt_keep]
        /\ fate' = [p \in Packets |-> IF \E i \in old : rts[i].hold = p THEN "dropped" ELSE fate[p]]
        /\ UNCHANGED <<cache, now>>

(***************************************************************************)
(* ether_output with the route in ro, which is looked up again when it was *)
(* deleted; so is that of its gateway.                                     *)
(***************************************************************************)
ether_output(R0, p, i0, dst) ==
    LET \* R0[i0] is up: ip_output has just looked
        gw  == i0 = GwRt
        g0  == R0[i0].gwroute
        R1  == IF gw /\ g0 # 0 /\ R0[g0].where # "table" THEN rtfree(R0, g0) ELSE R0
        a   == IF gw /\ (g0 = 0 \/ R0[g0].where # "table") THEN rtalloc1(R1, Gateway, TRUE) ELSE <<R1, g0>>
        R2  == IF gw THEN [a[1] EXCEPT ![i0].gwroute = a[2]] ELSE a[1]
        i   == IF gw THEN a[2] ELSE i0
    IN  IF R2[i].reject /\ (R2[i].expire = 0 \/ now < R2[i].expire) THEN Out(R2, "none", i, {p})
        ELSE arpresolve(R2, i, p)

\* ip_output: a cached route that was deleted is given up first.
Send(c, p) ==
    LET old == cache[c]
        R1  == IF old # 0 /\ rts[old].where # "table" THEN rtfree(rts, old) ELSE rts
        a   == IF old = 0 \/ rts[old].where # "table" THEN rtalloc1(R1, DstOf[c], TRUE) ELSE <<R1, old>>
        o   == IF a[2] = 0 THEN Out(a[1], "none", 0, {p}) ELSE ether_output(a[1], p, a[2], DstOf[c])
    IN  /\ fate[p] = "new"
        /\ rts' = o.R /\ cache' = [cache EXCEPT ![c] = a[2]]
        /\ fate' = [q \in Packets |-> IF q \in o.freed THEN "dropped"
                                      ELSE IF q # p THEN fate[q]
                                      ELSE IF o.mac = "none" THEN "held" ELSE "sent"]
        /\ UNCHANGED now

\* The socket is closed or sends elsewhere.
Release(c) ==
    /\ cache[c] # 0
    /\ rts' = rtfree(rts, cache[c]) /\ cache' = [cache EXCEPT ![c] = 0]
    /\ UNCHANGED <<fate, now>>

\* The route through the gateway is deleted and added again (rt_setgate looks
\* up the route of the gateway at once).
DeleteGw ==
    /\ rts[GwRt].where = "table"
    /\ rts' = rtdelete(rts, GwRt)
    /\ UNCHANGED <<cache, fate, now>>

AddGw ==
    /\ rts[GwRt].where = "free"
    /\ LET a == rtalloc1([rts EXCEPT ![GwRt] = [FreeRt EXCEPT !.where = "table", !.dst = "default"]], Gateway, TRUE)
       IN  rts' = [a[1] EXCEPT ![GwRt].gwroute = a[2]]
    /\ UNCHANGED <<cache, fate, now>>

Tick == now < EndOfTime /\ now' = now + 1 /\ UNCHANGED <<rts, cache, fate>>

ArpInit ==
    /\ rts = [i \in 1 .. RtMax |-> IF i = NetRt THEN [FreeRt EXCEPT !.where = "table", !.dst = "net", !.expire = 1] ELSE FreeRt]
    /\ cache = [c \in Caches |-> 0] /\ fate = [p \in Packets |-> "new"]
    /\ now = 1

ArpNext ==
    \/ \E c \in Caches, p \in Packets : Send(c, p)
    \/ \E d \in Neighbours, mac \in Macs, me \in BOOLEAN : in_arpinput(d, mac, me)
    \/ \E d \in Neighbours : SIOCDARP(d)
    \/ \E d \in Neighbours, mac \in Macs, perm \in BOOLEAN : SIOCSARP(d, mac, perm)
    \/ \E c \in Caches : Release(c)
    \/ arptimer \/ DeleteGw \/ AddGw \/ Tick

ArpSpec == ArpInit /\ [][ArpNext]_arpVars

(***************************************************************************)
(* Properties.                                                             *)
(***************************************************************************)
Users(i) == Cardinality({c \in Caches : cache[c] = i}) + Cardinality({j \in 1 .. RtMax : rts[j].gwroute = i})

\* The count of an entry is the number of sockets and gateway routes that
\* point to it: what is in use is never freed, and what was deleted is freed
\* with its last user (rtalloc1, rtfree, rtrequest, ether_output, arptfree).
RefcountsExact ==
    \A i \in 1 .. RtMax :
        IF rts[i].where = "free" THEN Users(i) = 0
        ELSE rts[i].ref = Users(i) /\ (rts[i].where = "deleted" => Users(i) > 0)

\* A packet that waits for an address waits in exactly one entry, and none
\* that was sent or dropped is still in an entry (arpresolve, in_arpinput,
\* arptfree).
HeldOnce ==
    \A p \in Packets :
        Cardinality({i \in 1 .. RtMax : rts[i].hold = p}) = (IF fate[p] = "held" THEN 1 ELSE 0)
=============================================================================
