----------------------------- MODULE PppFsmSpec -----------------------------
(***************************************************************************)
(* One automaton of ppp/fsm.c driven by an arbitrary protocol module above *)
(* it, an arbitrary lower layer below it and an arbitrary peer: every      *)
(* event may occur in every state, a packet may carry any code, identifier *)
(* and configuration, and reqci() may return any verdict.  What holds here *)
(* holds for LCP and for IPCP whatever the other end does.                 *)
(*                                                                         *)
(* RestartBound and NakBound cap the two counters that the code leaves     *)
(* unbounded; the theorems of PppUnitProofs hold for all their values.     *)
(***************************************************************************)
EXTENDS PppFsm

CONSTANTS RestartBound, NakBound

VARIABLE fsm

Settings == [flags : SUBSET FlagBits, want : CI]

FsmInit == \E s \in Settings, id \in Ids : fsm = fsm_init(s.flags, s.want, id)

\* The packets are on the wire and the callbacks have returned.
Emit(g) ==
    /\ g.timers <= RestartBound
    /\ g.nakloops <= NakBound
    /\ fsm' = [g EXCEPT !.out = <<>>, !.calls = <<>>]

LowerUp    == Emit(fsm_lowerup(fsm))
LowerDown  == Emit(fsm_lowerdown(fsm))
Open       == Emit(fsm_open(fsm))
Close      == Emit(fsm_close(fsm))
ProtReject == Emit(fsm_protreject(fsm))
Timeout    == fsm.timers > 0 /\ Emit(fsm_timeout(fsm))

\* A Configure-Request, and what reqci() makes of it.
InputConfReq ==
    \E id \in Ids, ci \in CI \cup {Malformed}, v \in Verdicts, nci \in CI :
        Emit(fsm_input(fsm, Packet("CONFREQ", id, ci), v, nci))

InputOther ==
    \E code \in (Codes \ {"CONFREQ"}) \cup {"UNKNOWN"}, id \in Ids,
       ci \in CI \cup {Malformed} :
        Emit(fsm_input(fsm, Packet(code, id, ci), "CONFREJ", Malformed))

FsmNext ==
    \/ LowerUp \/ LowerDown \/ Open \/ Close
    \/ ProtReject \/ Timeout
    \/ InputConfReq \/ InputOther

FsmSpec == FsmInit /\ [][FsmNext]_fsm

-----------------------------------------------------------------------------
FsmRecord ==
    [state : States, flags : SUBSET FlagBits, id : Ids, reqid : Ids,
     retransmits : Int, nakloops : Nat, timers : Nat,
     want : CI, go : CI, ho : CI \cup {Malformed},
     upper : BOOLEAN, acked : BOOLEAN, acking : BOOLEAN,
     out : {<<>>}, calls : {<<>>}]

(***************************************************************************)
(* The record has the shape of the C struct; identifiers stay within a     *)
(* u_char across the pre-increments of fsm.c.                              *)
(***************************************************************************)
TypeOK == fsm \in FsmRecord

(***************************************************************************)
(* The automaton never waits for the peer without a pending fsm_timeout    *)
(* entry: whatever mixture of late, duplicate and crossing packets, stale  *)
(* timers and untimeouts led to a waiting state, the restart timer that    *)
(* gets it out again is on the callout list.                               *)
(***************************************************************************)
TimerArmed == fsm.state \in Waiting => fsm.timers >= 1

(***************************************************************************)
(* The upper layer is told up() only when both halves of the negotiation   *)
(* are complete, and down() before either half is given up: while it is    *)
(* up the state is OPENED, the peer's Ack covers the last request that was *)
(* transmitted, and our last answer to the peer was an Ack.  Half-way, the *)
(* half that the state names is complete.                                  *)
(***************************************************************************)
UpMeansAgreed ==
    /\ fsm.upper => fsm.state = "OPENED" /\ fsm.acked /\ fsm.acking
    /\ fsm.state = "ACKRCVD" => fsm.acked
    /\ fsm.state = "ACKSENT" => fsm.acking

(***************************************************************************)
(* The restart counter neither runs below zero nor exceeds what a restart  *)
(* loads: no state repeats a request without limit on timeouts alone.      *)
(***************************************************************************)
RestartBudget ==
    /\ fsm.retransmits >= 0
    /\ fsm.state \in Negotiating => fsm.retransmits <= MaxConfReqs
    /\ fsm.state \in {"CLOSING", "STOPPING"} => fsm.retransmits < MaxTermReqs

(***************************************************************************)
(* The options in force do not change under an upper layer that is up.     *)
(***************************************************************************)
OptionsStable ==
    [][fsm.upper /\ fsm'.upper => fsm'.go = fsm.go /\ fsm'.ho = fsm.ho]_fsm
=============================================================================
