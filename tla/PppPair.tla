------------------------------- MODULE PppPair -------------------------------
(***************************************************************************)
(* Two automata of ppp/fsm.c at the two ends of a serial line.  The line   *)
(* keeps the order of the frames and loses some of them (a frame with a    *)
(* bad FCS is dropped by the driver).  Both lower layers are up; the ends  *)
(* are opened and, CloseBound times in all, closed by their users.         *)
(*                                                                         *)
(* reqci() is the policy common to lcp_reqci() and ipcp_reqci(): accept    *)
(* what is allowed, otherwise Nak with an allowed value, and Reject once   *)
(* maxnakloops Naks have not helped.  Base is the configuration with every *)
(* negotiable option dropped; nobody can refuse it.                        *)
(***************************************************************************)
EXTENDS PppFsm

CONSTANTS
    Peer,        \* the two ends
    Base,        \* the default configuration
    Want,        \* Want[p]: the configuration p asks for
    Allow,       \* Allow[p]: the configurations p accepts
    Prompt,      \* TRUE: the restart timer is longer than a round trip, and
                 \* than the time a user leaves an end closed
    Reopen,      \* TRUE: the users open the link again after a close
    LossBound, CloseBound, TimerBound, WireBound

ASSUME PairAssumption ==
    /\ Base \in CI
    /\ Want \in [Peer -> CI]
    /\ Allow \in [Peer -> SUBSET CI]
    /\ \A p \in Peer : Base \in Allow[p]
    /\ {Prompt, Reopen} \subseteq BOOLEAN
    /\ {LossBound, CloseBound, TimerBound, WireBound} \subseteq Nat

VARIABLES
    fsm,     \* fsm[p]: the automaton of end p
    wire,    \* wire[p]: the frames on their way to p
    losses,  \* frames lost so far
    closes   \* closes by the users so far

vars == <<fsm, wire, losses, closes>>

Other(p) == CHOOSE q \in Peer : q # p

Init ==
    /\ fsm = [p \in Peer |-> fsm_lowerup(fsm_init({}, Want[p], 0))]
    /\ wire = [p \in Peer |-> <<>>]
    /\ losses = 0
    /\ closes = 0

\* The end p has become g; in is what is left of the frames to p.
Emit(p, g, in) ==
    /\ g.timers <= TimerBound
    /\ Len(wire[Other(p)]) + Len(g.out) <= WireBound
    /\ fsm' = [fsm EXCEPT ![p] = [g EXCEPT !.out = <<>>, !.calls = <<>>]]
    /\ wire' = [wire EXCEPT ![p] = in, ![Other(p)] = @ \o g.out]

Open(p) ==
    /\ Reopen \/ closes = 0
    /\ fsm[p].state \in {"CLOSED", "INITIAL"}
    /\ Emit(p, fsm_open(fsm[p]), wire[p])
    /\ UNCHANGED <<losses, closes>>

Close(p) ==
    /\ closes < CloseBound
    /\ fsm[p].state \notin {"CLOSED", "CLOSING", "INITIAL"}
    /\ Emit(p, fsm_close(fsm[p]), wire[p])
    /\ closes' = closes + 1
    /\ UNCHANGED losses

\* The answers reqci() may give to the configuration ci.
reqci(p, ci) ==
    IF ci \in Allow[p] THEN {<<"CONFACK", ci>>}
    ELSE {<<"CONFREJ", Base>>} \cup
         IF fsm[p].nakloops >= MaxNakLoops THEN {}
         ELSE {<<"CONFNAK", c>> : c \in Allow[p]}

Receive(p) ==
    /\ wire[p] # <<>>
    /\ LET m == Head(wire[p]) IN
       \E a \in (IF m.code = "CONFREQ" THEN reqci(p, m.ci)
                 ELSE {<<"CONFREJ", Base>>}) :
          Emit(p, fsm_input(fsm[p], m, a[1], a[2]), Tail(wire[p]))
    /\ UNCHANGED <<losses, closes>>

Timeout(p) ==
    /\ fsm[p].timers > 0
    /\ Prompt => \A q \in Peer : wire[q] = <<>> /\ ~ENABLED Open(q)
    /\ Emit(p, fsm_timeout(fsm[p]), wire[p])
    /\ UNCHANGED <<losses, closes>>

Lose(p) ==
    /\ losses < LossBound
    /\ wire[p] # <<>>
    /\ wire' = [wire EXCEPT ![p] = Tail(@)]
    /\ losses' = losses + 1
    /\ UNCHANGED <<fsm, closes>>

Next == \E p \in Peer : Open(p) \/ Close(p) \/ Receive(p) \/ Timeout(p) \/ Lose(p)

Spec == Init /\ [][Next]_vars

\* The daemon serves SIGIO and SIGALRM whenever they are pending, and its
\* users keep asking for the link; frames are not lost for ever (LossBound).
FairSpec ==
    Spec /\ \A p \in Peer : WF_vars(Receive(p)) /\ SF_vars(Timeout(p))
                            /\ WF_vars(Open(p))

-----------------------------------------------------------------------------
(***************************************************************************)
(* When both ends have told their upper layer that the link is up, each    *)
(* end transmits under the configuration that the other end receives       *)
(* under, whatever was lost, retransmitted or crossed on the way there.    *)
(***************************************************************************)
Agreement ==
    (\A p \in Peer : fsm[p].upper) =>
        \A p \in Peer : fsm[Other(p)].ho = fsm[p].go

(***************************************************************************)
(* Two ends that both want the link get it, although the first request of  *)
(* an end is lost on a peer that is not open yet: with at least two more   *)
(* requests than losses both end up open for good, unless a user closes.   *)
(***************************************************************************)
BothOpen ==
    \/ <>[](\A p \in Peer : fsm[p].state = "OPENED" /\ fsm[p].upper)
    \/ <>(closes > 0)

(***************************************************************************)
(* A close is heard: an end that sends Terminate-Requests takes the upper  *)
(* layer of the other end down, if fewer of them are lost than are sent.   *)
(***************************************************************************)
CloseHeard ==
    \A p \in Peer : fsm[p].state = "CLOSING" ~> ~fsm[Other(p)].upper
=============================================================================
