------------------------------ MODULE PppUnit ------------------------------
(***************************************************************************)
(* One PPP unit: the daemon task of ppp/pppLib.c with the automata of LCP  *)
(* and IPCP (PppFsm), the authentication protocols (PppAuth), the phases   *)
(* of ppp/auth.c and the echo check of ppp/lcp.c, against an arbitrary     *)
(* peer.  The signal handlers run one at a time; each action is one of     *)
(* them, with everything that it calls.                                    *)
(*                                                                         *)
(* The unit is a record u; a routine is an operator on it.  The routines   *)
(* of PppFsm and PppAuth leave their callbacks in the record, and the      *)
(* operators below dispatch them: fsm.c and the authentication protocols   *)
(* make a callback that may re-enter them last.                            *)
(*                                                                         *)
(* exit() does not return, so nothing changes a unit that is not alive.    *)
(***************************************************************************)
EXTENDS PppFsm, PppAuth

CONSTANTS
    Passive, Silent,   \* the options passive_mode and silent_mode
    AuthRequired,      \* auth_required
    GoAuth, HoAuth,    \* what LCP may negotiate: "none", "chap" or "upap"
    EchoFails,         \* lcp_echo_fails; 0 switches the echo check off
    FsmTimerBound,     \* entries of fsm_timeout on the callout list, per automaton
    TimerBound         \* entries of each other routine

ASSUME UnitAssumption ==
    /\ {Passive, Silent, AuthRequired} \subseteq BOOLEAN
    /\ GoAuth \cup HoAuth \subseteq {"none", "chap", "upap"}
    /\ {EchoFails, FsmTimerBound, TimerBound} \subseteq Nat
    /\ CI # {}

VARIABLE u

AuthBits == {"CHAP_PEER", "CHAP_WITHPEER", "UPAP_PEER", "UPAP_WITHPEER"}

LcpFlags == (IF Passive THEN {"PASSIVE", "RESTART"} ELSE {})
            \cup (IF Silent THEN {"SILENT", "RESTART"} ELSE {})

\* The callbacks that automaton p ("lcp", "ipcp") has pending.
Calls(x, p) == {x[p].calls[i] : i \in DOMAIN x[p].calls}

\* The automaton p has become f; its packets are on the line.
Put(x, p, f) == [x EXCEPT ![p] = [f EXCEPT !.out = <<>>]]

Called(x, p) == [x EXCEPT ![p].calls = <<>>]

-----------------------------------------------------------------------------
(* Going down.                                                             *)

ipcp_down(x) == [x EXCEPT !.ifup = FALSE]

IpcpDown(x) == Called(IF "down" \in Calls(x, "ipcp") THEN ipcp_down(x) ELSE x, "ipcp")

ipcp_lowerdown(x) == IpcpDown(Put(x, "ipcp", fsm_lowerdown(x.ipcp)))

lcp_echo_lowerdown(x) ==
    IF x.echoRunning
      THEN [x EXCEPT !.echo = Less(@), !.echoRunning = FALSE] ELSE x

\* Mutant: IPCP is not told.
lcp_down_NoIpcp(x) ==
    [lcp_echo_lowerdown(x) EXCEPT
        !.auth = upap_lowerdown(ChapLowerDown(@)),
        !.phase = "TERMINATE"]

\* Mutant: the echo timer is left alone.
lcp_down_NoEcho(x) ==
    [ipcp_lowerdown(x) EXCEPT
        !.auth = upap_lowerdown(ChapLowerDown(@)),
        !.ifup = FALSE, !.phase = "TERMINATE"]

\* Echo, IPCP, CHAP and PAP go down, then the interface; link_down().
lcp_down(x) ==
    [ipcp_lowerdown(lcp_echo_lowerdown(x)) EXCEPT
        !.auth = upap_lowerdown(ChapLowerDown(@)),
        !.ifup = FALSE,
        !.phase = "TERMINATE"]

\* link_terminated() unless the link is to be reopened.
lcp_finished(x) ==
    IF x.lcp.state \in {"STOPPED", "CLOSED"} /\ "RESTART" \in x.lcp.flags
      THEN Called(Put(x, "lcp", fsm_open(x.lcp)), "lcp")
      ELSE [x EXCEPT !.phase = "DEAD"]

\* down() and finished() of LCP; starting() does nothing.
LcpDown(x) ==
    LET y == IF "down" \in Calls(x, "lcp") THEN lcp_down(x) ELSE x
        z == Called(y, "lcp")
    IN  IF "finished" \in Calls(x, "lcp") THEN lcp_finished(z) ELSE z

lcp_close(x) ==
    IF x.lcp.state = "STOPPED" /\ x.lcp.flags \cap {"PASSIVE", "SILENT"} # {}
      THEN lcp_finished(Put(x, "lcp", Goto(x.lcp, "CLOSED")))
      ELSE LcpDown(Put(x, "lcp", fsm_close(x.lcp)))

\* cleanup() gives back everything the task has.
die(x) ==
    LET y == lcp_close(x) IN
    IF y.lcp.flags \cap {"PASSIVE", "SILENT"} # {} THEN y
    ELSE [y EXCEPT !.alive = FALSE]

-----------------------------------------------------------------------------
(* Coming up.                                                              *)

\* ok: both addresses are known, the peer may use its own, and the driver
\* took them.  ipcp_close() takes the whole link down.
ipcp_up(x, ok) ==
    IF ok THEN [x EXCEPT !.ifup = TRUE]
    ELSE die(IpcpDown(Put(x, "ipcp", fsm_close(x.ipcp))))

IpcpDone(x, ok) ==
    LET y == IpcpDown(x)
    IN  IF "up" \in Calls(x, "ipcp") THEN ipcp_up(y, ok) ELSE y

ipcp_open(x) == IpcpDone(Put(x, "ipcp", fsm_open(x.ipcp)), TRUE)

\* The check of LcpSendEchoRequest() that too many requests are unanswered.
\* LcpLinkFailure() drops the lower layer before die() closes LCP.
LcpEchoFailure(x) ==
    LET y == IF x.lcp.state = "OPENED"
               THEN [LcpDown(Put(x, "lcp", fsm_lowerdown(x.lcp)))
                       EXCEPT !.phase = "TERMINATE"]
               ELSE x
    IN  die([y EXCEPT !.echosPending = 0])

\* LcpEchoCheck(): send a request, and set the timer again.
LcpEchoCheck(x) ==
    LET n == [x EXCEPT !.echosPending = @ + 1]
        y == IF x.echosPending >= EchoFails THEN LcpEchoFailure(n) ELSE n
    IN  IF ~y.alive THEN y
        ELSE [y EXCEPT !.echo = @ + 1, !.echoRunning = TRUE]

lcp_echo_lowerup(x) ==
    LET y == [x EXCEPT !.echosPending = 0, !.echoRunning = FALSE]
    IN  IF EchoFails = 0 THEN y ELSE LcpEchoCheck(y)

\* o.go, o.ho: the authentication that LCP has agreed on for the peer and for
\* us.  login: the peer may stay although it refused to authenticate.
link_established(x, o) ==
    LET y == IF AuthRequired /\ o.go = "none" /\ ~o.login THEN die(x) ELSE x
        a == CASE o.go = "chap" -> ChapAuthPeer(y.auth)
               [] o.go = "upap" -> upap_authpeer(y.auth)
               [] OTHER -> y.auth
        b == CASE o.ho = "chap" -> ChapAuthWithPeer(a)
               [] o.ho = "upap" -> upap_authwithpeer(a)
               [] OTHER -> a
        pending == (CASE o.go = "chap" -> {"CHAP_PEER"}
                      [] o.go = "upap" -> {"UPAP_PEER"} [] OTHER -> {})
                   \cup (CASE o.ho = "chap" -> {"CHAP_WITHPEER"}
                           [] o.ho = "upap" -> {"UPAP_WITHPEER"} [] OTHER -> {})
        z == [y EXCEPT !.auth = b, !.auth_pending = pending,
                       !.phase = "AUTHENTICATE"]
    IN  IF ~y.alive THEN y
        ELSE IF pending = {} THEN ipcp_open([z EXCEPT !.phase = "NETWORK"])
        ELSE z

lcp_up(x, o) ==
    LET y == [x EXCEPT !.auth = upap_lowerup(ChapLowerUp(@))]
        z == IpcpDone(Put(y, "ipcp", fsm_lowerup(y.ipcp)), TRUE)
    IN  link_established(lcp_echo_lowerup(z), o)

LcpDone(x, o) ==
    LET y == LcpDown(x)
    IN  IF "up" \in Calls(x, "lcp") THEN lcp_up(y, o) ELSE y

\* Mutant: whichever protocol succeeds first opens IPCP.
AuthSuccessAny(x, bit) ==
    ipcp_open([x EXCEPT !.auth_pending = @ \ {bit}, !.phase = "NETWORK"])

\* auth_peer_success(), auth_withpeer_success().
AuthSuccess(x, bit) ==
    LET y == [x EXCEPT !.auth_pending = @ \ {bit}]
    IN  IF y.auth_pending = {} THEN ipcp_open([y EXCEPT !.phase = "NETWORK"])
        ELSE y

\* What the authentication protocols have reported; auth_withpeer_fail() does
\* nothing.  A handler reports one success, or failures.
AuthDone(x, a) ==
    LET y == [x EXCEPT !.auth = [a EXCEPT !.calls = <<>>]]
        r == {a.calls[i] : i \in DOMAIN a.calls}
    IN  IF "peer_fail" \in r THEN die(y)
        ELSE IF r \cap AuthBits # {}
          THEN AuthSuccess(y, CHOOSE b \in r : b \in AuthBits)
          ELSE y

-----------------------------------------------------------------------------
(* The task.                                                               *)

Options == [go : GoAuth, ho : HoAuth, login : BOOLEAN]

\* ppp_task() up to its loop: lcp_lowerup(), lcp_open().
Init ==
    LET lcp == fsm_lowerup(fsm_init(LcpFlags, CHOOSE c \in CI : TRUE, 0))
        ipcp == fsm_init({}, CHOOSE c \in CI : TRUE, 0)
    IN  u = Put([lcp |-> lcp, ipcp |-> ipcp, auth |-> AuthInit,
                 auth_pending |-> {}, phase |-> "ESTABLISH",
                 ifup |-> FALSE, alive |-> TRUE,
                 echo |-> 0, echoRunning |-> FALSE, echosPending |-> 0],
                "lcp", fsm_open(lcp))

Bounded(x) ==
    /\ x.lcp.timers <= FsmTimerBound
    /\ x.ipcp.timers <= FsmTimerBound
    /\ x.echo <= TimerBound
    /\ \A t \in {"challenge", "response", "rechallenge", "upap"} :
         x.auth[t] <= TimerBound

Become(x) == u.alive /\ u.phase # "DEAD" /\ Bounded(x) /\ u' = x

\* The packets that fsm_input() does not ignore: answers to the last request.
Packets(f) ==
    {Packet(c, f.reqid, f.go) : c \in {"CONFREQ", "CONFACK", "CONFREJ",
                                       "TERMREQ", "TERMACK"}}

\* What fsm_input() makes of them; a request is acked or rejected.
Inputs(f) == {fsm_input(f, p, v, p.ci) : p \in Packets(f), v \in {"CONFACK", "CONFREJ"}}

\* SIGIO with an LCP packet.
LcpInput ==
    \E f \in Inputs(u.lcp) :
        LET x == Put(u, "lcp", f) IN
        IF "up" \in Calls(x, "lcp")
          THEN \E o \in Options : Become(LcpDone(x, o))
          ELSE Become(LcpDown(x))

\* io() tosses every other packet unless LCP is open.
IpcpInput ==
    /\ u.lcp.state = "OPENED"
    /\ \E f \in Inputs(u.ipcp) :
         LET x == Put(u, "ipcp", f) IN
         IF "up" \in Calls(x, "ipcp")
           THEN \E ok \in BOOLEAN : Become(IpcpDone(x, ok))
           ELSE Become(IpcpDown(x))

ChapInput ==
    /\ u.lcp.state = "OPENED"
    /\ \E a \in {ChapReceiveChallenge(u.auth), ChapReceiveResponse(u.auth, TRUE),
                 ChapReceiveResponse(u.auth, FALSE), ChapReceiveSuccess(u.auth),
                 ChapReceiveFailure(u.auth)} :
         Become(AuthDone(u, a))

upap_input ==
    /\ u.lcp.state = "OPENED"
    /\ \E a \in {upap_rauthreq(u.auth, TRUE), upap_rauthreq(u.auth, FALSE),
                 upap_rauthack(u.auth), upap_rauthnak(u.auth)} :
         Become(AuthDone(u, a))

\* lcp_rprotrej(): the peer does not know protocol p.
ProtocolReject ==
    /\ u.lcp.state = "OPENED"
    /\ \/ Become(LcpDown(Put(u, "lcp", fsm_protreject(u.lcp))))
       \/ Become(ipcp_lowerdown(u))
       \/ Become(AuthDone(u, ChapProtocolReject(u.auth)))
       \/ Become(AuthDone(u, upap_protrej(u.auth)))

lcp_received_echo_reply == Become([u EXCEPT !.echosPending = 0])

\* SIGALRM for an entry of one of the protocols.
Alarm ==
    \/ u.lcp.timers > 0 /\ Become(LcpDown(Put(u, "lcp", fsm_timeout(u.lcp))))
    \/ u.ipcp.timers > 0 /\ Become(IpcpDown(Put(u, "ipcp", fsm_timeout(u.ipcp))))
    \/ u.auth.challenge > 0 /\ Become(AuthDone(u, ChapChallengeTimeout(u.auth)))
    \/ u.auth.response > 0 /\ Become(AuthDone(u, ChapResponseTimeout(u.auth)))
    \/ u.auth.rechallenge > 0 /\ Become(AuthDone(u, ChapRechallenge(u.auth)))
    \/ u.auth.upap > 0 /\ Become(AuthDone(u, upap_timeout(u.auth)))

LcpEchoTimeout ==
    /\ u.echo > 0
    /\ LET x == [u EXCEPT !.echo = @ - 1] IN
       Become(IF u.echoRunning THEN LcpEchoCheck([x EXCEPT !.echoRunning = FALSE])
              ELSE x)

\* SIGHUP, SIGINT.
Interrupt == Become(die(u))

\* SIGTERM, sent by pppDelete().
Term == Become(die([u EXCEPT !.lcp.flags = {}]))

\* The loop of ppp_task() ends, and with it the task, whatever die() does.
Exit == u.alive /\ u.phase = "DEAD" /\ u' = [die(u) EXCEPT !.alive = FALSE]

Next == \/ LcpInput \/ IpcpInput \/ ChapInput \/ upap_input \/ ProtocolReject
        \/ lcp_received_echo_reply \/ Alarm \/ LcpEchoTimeout
        \/ Interrupt \/ Term \/ Exit

Spec == Init /\ [][Next]_u

-----------------------------------------------------------------------------
(***************************************************************************)
(* The IP interface is up only on top of an open link: every way in which  *)
(* LCP, IPCP or the task goes down, re-entrant ones included, takes the    *)
(* interface down.                                                         *)
(***************************************************************************)
InterfaceNeedsLink ==
    u.ifup => /\ u.alive
              /\ u.lcp.state = "OPENED" /\ u.lcp.upper
              /\ u.ipcp.state = "OPENED" /\ u.ipcp.upper

(***************************************************************************)
(* The network phase begins when no authentication is pending any more,    *)
(* and none is pending until it ends.                                      *)
(***************************************************************************)
NetworkPhase == u.phase = "NETWORK" => u.auth_pending = {}

(***************************************************************************)
(* A protocol that waits for the answer of the peer has its retransmission *)
(* timer on the callout list, whatever timers of earlier connections were  *)
(* cancelled or left behind.                                               *)
(***************************************************************************)
AuthTimers ==
    u.alive =>
      /\ u.auth.chapS \in {"INITIAL_CHAL", "RECHALLENGE"} => u.auth.challenge > 0
      /\ u.auth.upapC = "AUTHREQ" => u.auth.upap > 0

(***************************************************************************)
(* The assertion of LcpEchoCheck(), as an invariant: one echo timer at the *)
(* most, and lcp_echo_timer_running says whether there is one.             *)
(***************************************************************************)
OneEchoTimer == u.alive => u.echo = (IF u.echoRunning THEN 1 ELSE 0)
=============================================================================
