---------------------------- MODULE MCPppOptions ----------------------------
(***************************************************************************)
(* LCP and IPCP negotiate one after the other; each behaviour follows one  *)
(* of them.  LCP: every subset of the options on both sides, with two      *)
(* magic numbers and one control character; MRU 0 is below the minimum of  *)
(* 1.  IPCP: every configuration of the addresses, with an address of the  *)
(* peer (3) that it does not have.                                         *)
(***************************************************************************)
EXTENDS LcpNegotiation, Ipcp

mcOur == [a |-> {0, 1}, b |-> {2}]
mcHis == [a |-> {0, 2, 3}, b |-> {0, 1}]

VARIABLE part

MCInit ==
    \/ part = "lcp" /\ Init /\ end = [e \in Ends |-> Configured(e, FALSE, FALSE, 0, 0, 1, 0, FALSE, FALSE)]
    \/ /\ part = "ipcp" /\ IpcpInit
       /\ wo = 0 /\ ao = 0 /\ go = [neg |-> {}, magic |-> 0] /\ peer = go /\ ho = 0 /\ tries = 0 /\ nakloops = 0 /\ outcome = "none"

MCNext ==
    /\ UNCHANGED part
    /\ \/ part = "lcp" /\ Next /\ UNCHANGED end
       \/ part = "ipcp" /\ IpcpNext /\ UNCHANGED vars

MCSpec == MCInit /\ [][MCNext]_<<part, end, vars>>
=============================================================================
