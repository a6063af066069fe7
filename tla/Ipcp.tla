-------------------------------- MODULE Ipcp --------------------------------
(***************************************************************************)
(* IPCP (ppp/ipcp.c) at both ends of a link: the option routines that the  *)
(* automaton of fsm.c calls, and a negotiation in both directions at once, *)
(* because what an end asks for depends on what it heard of the other.     *)
(* An exchange of a request and its answer is one step: PppPair looks at   *)
(* loss and delay.                                                         *)
(*                                                                         *)
(* An option structure is [addr, olda, vj, oldv, our, his, slots, cflag]:  *)
(* neg_addr, old_addrs, neg_vj, old_vj, the addresses (0: not known) and   *)
(* the parameters of the header compression.  A CI is [type, a, b].        *)
(***************************************************************************)
EXTENDS Integers, Sequences, SequencesExt, FiniteSetsExt

CONSTANTS
    Ends,           \* two ends
    OurAddrs,       \* OurAddrs[e], HisAddrs[e]: the addresses e may be configured with
    HisAddrs,
    Slots,          \* the numbers of slots less one
    OldVj,          \* the ends that ask for the old form of VJ compression
    IpcpNakLoops    \* max_nak_loops

ASSUME IpcpAssumption ==
    /\ \E a, b \in Ends : a # b /\ Ends = {a, b}
    /\ \A e \in Ends : OurAddrs[e] \subseteq Nat /\ HisAddrs[e] \subseteq Nat
    /\ Slots \subseteq Nat
    /\ IpcpNakLoops \in Nat

VARIABLE end        \* end[e], the option structures and the state of e

Peer(e) == CHOOSE p \in Ends : p # e
CI3(type, a, b) == [type |-> type, a |-> a, b |-> b]
NoIp == [addr |-> FALSE, olda |-> FALSE, vj |-> FALSE, oldv |-> FALSE, our |-> 0, his |-> 0, slots |-> 0, cflag |-> 0]

\* ipcp_init, the options of the user, and ipcp_resetci
Configured(e, addr, vj, our, his, slots, cflag, accl, accr) ==
    LET wo == [NoIp EXCEPT !.addr = addr, !.vj = vj, !.oldv = e \in OldVj, !.our = our, !.his = his,
                           !.slots = slots, !.cflag = cflag]
    IN  [wo |-> wo, go |-> wo, ho |-> NoIp,
         ao |-> [addr |-> addr, vj |-> vj, slots |-> slots, cflag |-> cflag],
         req |-> addr, accl |-> accl \/ our = 0, accr |-> accr \/ his = 0, cis |-> 0,
         naks |-> 0, acked |-> FALSE, acks |-> FALSE, dead |-> FALSE]

\* The wishes that ipcp_addci goes back to when they were refused: the old form
\* of the addresses, and VJ compression.
Revived(E) ==
    LET g1 == IF E.wo.addr /\ ~E.go.addr /\ ~E.go.olda THEN [E.go EXCEPT !.addr = TRUE, !.olda = TRUE] ELSE E.go
    IN  IF ~(E.wo.vj /\ ~g1.vj /\ ~g1.oldv) THEN g1
        ELSE IF E.cis = 0 THEN [g1 EXCEPT !.vj = TRUE]
        ELSE IF E.ho.vj /\ E.ho.oldv THEN [g1 EXCEPT !.vj = TRUE, !.oldv = TRUE] ELSE g1

ipcp_addci(go) ==
    (IF ~go.addr THEN <<>> ELSE IF go.olda THEN <<CI3("ADDRS", go.our, go.his)>> ELSE <<CI3("ADDR", go.our, 0)>>)
    \o (IF ~go.vj THEN <<>> ELSE IF go.oldv THEN <<CI3("OLDVJ", 0, 0)>> ELSE <<CI3("VJ", go.slots, go.cflag)>>)

ipcp_ackci(go, s) == s = ipcp_addci(go)

(***************************************************************************)
(* Naks and Rejects.                                                       *)
(***************************************************************************)
VjTypes == {"VJ", "OLDVJ"}
IsVj(c) == c.type \in VjTypes
Starts(s, types) == s # <<>> /\ Head(s).type \in types

NakAddr(E, try, c) == [try EXCEPT !.our = IF E.accl /\ c.a # 0 THEN c.a ELSE @]

NakVj(go, try, c) ==
    IF c.type = "OLDVJ" THEN [try EXCEPT !.oldv = TRUE]
    ELSE [try EXCEPT !.oldv = FALSE, !.slots = IF c.a < go.slots THEN c.a ELSE @, !.cflag = IF c.b = 0 THEN 0 ELSE @]

\* CIs about options that we did not ask for: only the addresses are taken.
NakExtra(z, c) ==
    CASE IsVj(c) ->
           [z EXCEPT !.ok = @ /\ ~z.E.go.vj /\ ~z.novj, !.novj = TRUE]
      [] c.type = "ADDRS" ->
           [z EXCEPT !.ok = @ /\ ~(z.E.go.addr /\ z.E.go.olda), !.try.addr = TRUE, !.try.olda = TRUE,
                     !.try.our = IF z.E.accl /\ c.a # 0 THEN c.a ELSE @,
                     !.try.his = IF z.E.accr /\ c.b # 0 THEN c.b ELSE @]
      [] c.type = "ADDR" ->
           [z EXCEPT !.ok = @ /\ ~z.E.go.addr /\ ~z.noaddr, !.noaddr = TRUE,
                     !.try = NakAddr(z.E, [z.try EXCEPT !.addr = TRUE, !.olda = FALSE], c)]

\* <<ok, options>>
ipcp_nakci(E, s) ==
    LET go == E.go
        one == go.addr /\ ~go.olda /\ Starts(s, {"ADDR"})
        t1 == IF one THEN NakAddr(E, go, Head(s)) ELSE go
        s1 == IF one THEN Tail(s) ELSE s
        two == go.vj /\ Starts(s1, VjTypes)
        t2 == IF two THEN NakVj(go, t1, Head(s1)) ELSE t1
        s2 == IF two THEN Tail(s1) ELSE s1
        z == FoldLeft(NakExtra, [E |-> E, ok |-> TRUE, try |-> t2, novj |-> two, noaddr |-> one], s2)
    IN  IF z.ok THEN <<TRUE, z.try>> ELSE <<FALSE, go>>

\* A Reject must repeat what was asked; one of the address ends the link (die).
Echoes(s, mine) == s = SelectSeq(mine, LAMBDA c : \E i \in DOMAIN s : s[i].type = c.type)

ipcp_rejci(E, s) ==
    LET addr == \E i \in DOMAIN s : s[i].type \in {"ADDR", "ADDRS"}
        vj == \E i \in DOMAIN s : IsVj(s[i])
        F == [E EXCEPT !.dead = @ \/ addr]
    IN  IF ~Echoes(s, ipcp_addci(E.go)) THEN F
        ELSE [F EXCEPT !.go.addr = @ /\ ~addr, !.go.vj = @ /\ ~vj]

\* Mutant: an address of the peer other than the configured one is accepted.
HisRefused_Never(E, a) == a = 0 /\ E.wo.his # 0

(***************************************************************************)
(* The peer's request.  Judge3 gives the verdict on a CI, the CI as it is  *)
(* sent back, and our end with what it learnt of the peer.                 *)
(***************************************************************************)
HisRefused(E, a) == a # E.wo.his /\ (a = 0 \/ ~E.accr)
OurRefused(E, b) == b # E.wo.our /\ (b = 0 \/ ~E.accl)

Verdict3(orc, c, E) == [orc |-> orc, ci |-> c, E |-> E]

JudgeAddrs(E, c) ==
    IF ~E.ao.addr THEN Verdict3("REJ", c, E)
    ELSE LET no1 == HisRefused(E, c.a)
             no2 == c.type = "ADDRS" /\ OurRefused(E, c.b)
             ho == [E.ho EXCEPT !.addr = TRUE, !.olda = c.type = "ADDRS", !.his = c.a,
                                !.our = IF c.type = "ADDRS" THEN c.b ELSE 0]
             our == IF c.type = "ADDRS" /\ c.b # E.wo.our /\ ~no2 THEN c.b ELSE E.go.our
         IN  Verdict3(IF no1 \/ no2 THEN "NAK" ELSE "ACK",
                      [c EXCEPT !.a = IF no1 THEN E.wo.his ELSE @, !.b = IF no2 THEN E.wo.our ELSE @],
                      [E EXCEPT !.ho = ho, !.go.our = our])

JudgeVj(E, c) ==
    IF ~E.ao.vj THEN Verdict3("REJ", c, E)
    ELSE IF c.type = "OLDVJ"
    THEN Verdict3("ACK", c, [E EXCEPT !.ho.vj = TRUE, !.ho.oldv = TRUE, !.ho.slots = Max(Slots), !.ho.cflag = 1])
    ELSE LET many == c.a > E.ao.slots
             noid == c.b = 1 /\ E.ao.cflag = 0
         IN  Verdict3(IF many \/ noid THEN "NAK" ELSE "ACK",
                      [c EXCEPT !.a = IF many THEN E.ao.slots ELSE @, !.b = IF noid THEN E.wo.cflag ELSE @],
                      [E EXCEPT !.ho.vj = TRUE, !.ho.slots = c.a, !.ho.cflag = E.wo.cflag])

Judge3(E, c) == IF IsVj(c) THEN JudgeVj(E, c) ELSE JudgeAddrs(E, c)

\* The answer so far, z, and one more CI
Tough(E) == E.naks >= IpcpNakLoops

Combine3(z, c) ==
    LET j == Judge3(z.E, c)
        orc == IF j.orc = "NAK" /\ Tough(z.E) THEN "REJ" ELSE j.orc
        sent == IF Tough(z.E) THEN c ELSE j.ci
    IN  IF (orc = "ACK" /\ z.rc # "ACK") \/ (orc = "NAK" /\ z.rc = "REJ") THEN [z EXCEPT !.E = j.E]
        ELSE IF orc # z.rc THEN [rc |-> orc, ci |-> <<sent>>, E |-> j.E]
        ELSE [z EXCEPT !.ci = Append(@, sent), !.E = j.E]

\* A peer that gave no address is asked for it, once after a good request.
WithAddr(z) ==
    LET c == CI3("ADDR", z.E.wo.his, 0) IN
    IF z.rc = "REJ" \/ z.E.ho.addr \/ ~z.E.req \/ Tough(z.E) THEN z
    ELSE IF z.rc = "ACK" THEN [rc |-> "NAK", ci |-> <<c>>, E |-> [z.E EXCEPT !.req = FALSE]]
    ELSE [z EXCEPT !.ci = Append(@, c)]

ipcp_reqci(E, s) ==
    WithAddr(FoldLeft(Combine3, [rc |-> "ACK", ci |-> <<>>, E |-> [E EXCEPT !.ho = NoIp]], s))

(***************************************************************************)
(* The exchange of a request of e and its answer; ipcp_up is entered when  *)
(* both requests are acknowledged.                                         *)
(***************************************************************************)
Answered(E, rc, ci) ==
    CASE rc = "ACK" -> [E EXCEPT !.acked = ipcp_ackci(E.go, ci)]
      [] rc = "NAK" -> [E EXCEPT !.go = ipcp_nakci(E, ci)[2]]
      [] rc = "REJ" -> ipcp_rejci(E, ci)

Up(e) == end[e].acked /\ end[e].acks /\ ~end[e].dead

Exchange(e) ==
    LET p == Peer(e)
        E == [end[e] EXCEPT !.go = Revived(end[e])]
        r == ipcp_reqci(end[p], ipcp_addci(E.go))
        P == [r.E EXCEPT !.acks = r.rc = "ACK",
                         !.naks = IF r.rc = "ACK" THEN 0 ELSE IF r.rc = "NAK" /\ @ < IpcpNakLoops THEN @ + 1 ELSE @]
    IN  /\ ~end[e].acked /\ ~end[e].dead /\ ~end[p].dead
        /\ end' = [x \in Ends |-> IF x = e THEN Answered(E, r.rc, r.ci) ELSE P]

\* ipcp_up: without the addresses the link is closed.
HisAddr(E) == IF E.ho.addr THEN E.ho.his ELSE E.wo.his
IpcpUp(e) ==
    /\ Up(e) /\ (HisAddr(end[e]) = 0 \/ end[e].go.our = 0)
    /\ end' = [end EXCEPT ![e].dead = TRUE]

\* The setups of e: its addresses, and what its user configured.
Setup(e) ==
    {Configured(e, addr, vj, our, his, slots, cflag, accl, accr) :
        addr \in BOOLEAN, vj \in BOOLEAN, our \in OurAddrs[e], his \in HisAddrs[e], slots \in Slots,
        cflag \in {0, 1}, accl \in BOOLEAN, accr \in BOOLEAN}

IpcpInit ==
    end \in {f \in [Ends -> UNION {Setup(e) : e \in Ends}] :
                \A e \in Ends : f[e].wo.our \in OurAddrs[e] /\ f[e].wo.his \in HisAddrs[e] /\ (f[e].wo.oldv <=> e \in OldVj)}

IpcpNext == \E e \in Ends : Exchange(e) \/ IpcpUp(e)

IpcpSpec == IpcpInit /\ [][IpcpNext]_end

(***************************************************************************)
(* Properties.                                                             *)
(***************************************************************************)
\* With both ends up, each uses for the other the address that the other
\* uses for itself, if it was told one, and no end has to live with an
\* address that it was not configured to accept (ipcp_reqci, ipcp_nakci,
\* ipcp_up).
AddressesAgree ==
    (\A e \in Ends : Up(e)) =>
        \A e \in Ends :
            /\ end[e].ho.addr => end[e].ho.his = end[Peer(e)].go.our
            /\ end[e].go.our # end[e].wo.our => end[e].accl
            /\ HisAddr(end[e]) # end[e].wo.his => end[e].accr
=============================================================================
