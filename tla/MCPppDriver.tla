---------------------------- MODULE MCPppDriver ----------------------------
(***************************************************************************)
(* The receive path, the transmit path and the timers of a PPP unit.  They *)
(* share no variable, so each behaviour follows one of them and leaves the *)
(* other two in their initial states.                                      *)
(***************************************************************************)
EXTENDS PppInput, PppOutput, PppCallout

VARIABLE part

Init ==
    /\ part \in {"receive", "transmit", "timers"}
    /\ InputInit /\ OutputInit /\ CalloutInit

Next ==
    /\ UNCHANGED part
    /\ \/ part = "receive" /\ InputNext /\ UNCHANGED <<outputVars, calloutVars>>
       \/ part = "transmit" /\ OutputNext /\ UNCHANGED <<inputVars, calloutVars>>
       \/ part = "timers" /\ CalloutNext /\ UNCHANGED <<inputVars, outputVars>>

vars == <<part, inputVars, outputVars, calloutVars>>

FairSpec ==
    Init /\ [][Next]_vars /\ OutputFairness
=============================================================================
