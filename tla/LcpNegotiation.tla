--------------------------- MODULE LcpNegotiation ---------------------------
(***************************************************************************)
(* One direction of an LCP negotiation with the option routines of lcp.c   *)
(* at both ends: one end asks (lcp_addci), the other one answers           *)
(* (lcp_reqci), and the first one asks again with what lcp_nakci or        *)
(* lcp_rejci leave of its wishes.  The counters are those of fsm.c: an     *)
(* answer that is bad is ignored, and the request is sent again when the   *)
(* timer expires, MaxConfReqs times in all.  No packet is lost (PppPair    *)
(* looks at that).                                                         *)
(***************************************************************************)
EXTENDS LcpOptions

CONSTANTS
    Asks, Allows,   \* the options that the two ends may be configured for
    Mrus,           \* the MRUs they may be configured with
    MaxConfReqs, MaxNakLoops

ASSUME NegotiationAssumption ==
    /\ Asks \subseteq Negotiable /\ Allows \subseteq Negotiable
    /\ Mrus \subseteq Nat
    /\ MaxConfReqs \in Nat \ {0} /\ MaxNakLoops \in Nat

VARIABLES
    wo,         \* lcp_wantoptions of the end that asks
    go,         \* its lcp_gotoptions
    ao,         \* lcp_allowoptions of the end that answers
    peer,       \* its lcp_gotoptions, as far as they matter: the magic number
    ho,         \* its lcp_hisoptions
    tries,      \* retransmits of the end that asks
    nakloops,   \* of the end that answers
    outcome     \* "open", "acked", or "stopped" for lack of a usable answer

vars == <<wo, go, ao, peer, ho, tries, nakloops, outcome>>

\* A value that is not negotiated does not matter: one of each is enough.
Plain(neg, mru, map, md) ==
    /\ "mru" \notin neg => mru = DEFMRU
    /\ "asyncmap" \notin neg => map = {}
    /\ "chap" \notin neg => md = "md5"

Init ==
    /\ \E neg \in SUBSET Asks, mru \in Mrus, map \in SUBSET Chars, g \in Magic :
         Plain(neg, mru, map, "md5") /\
         wo = [neg |-> neg, mru |-> mru, asyncmap |-> map, mdtype |-> "md5", magic |-> g]
    /\ \E neg \in SUBSET Allows, map \in SUBSET Chars, md \in {"md5", "other"},
          g \in Magic, useMagic \in BOOLEAN :
         /\ Plain(neg, DEFMRU, map, md)
         /\ ao = [neg |-> neg, mru |-> DEFMRU, asyncmap |-> map, mdtype |-> md, magic |-> g]
         /\ peer = [ao EXCEPT !.neg = IF useMagic THEN {"magic"} ELSE {}]
    /\ go = wo
    /\ ho = NoOptions(ao)
    /\ tries = MaxConfReqs /\ nakloops = 0 /\ outcome = "open"

\* The next request: a good answer starts the restart counter again.
Again(ok, options) ==
    /\ go' = options
    /\ tries' = IF ok THEN MaxConfReqs ELSE tries - 1
    /\ outcome' = IF ~ok /\ tries = 1 THEN "stopped" ELSE "open"

Round ==
    LET s == lcp_addci(go)
    IN  /\ outcome = "open"
        /\ \E hint \in Magic :
             LET r == lcp_reqci(ao, peer, s, nakloops >= MaxNakLoops, hint)
                 rej == lcp_rejci(go, r.ci)
             IN  /\ ho' = r.ho
                 /\ nakloops' = CASE r.rc = "CONFACK" -> 0
                                  [] r.rc = "CONFNAK" /\ nakloops < MaxNakLoops -> nakloops + 1
                                  [] OTHER -> nakloops
                 /\ CASE r.rc = "CONFNAK" -> \E fresh \in Magic :
                                                LET nak == lcp_nakci(go, wo, r.ci, fresh)
                                                IN  Again(nak[1], nak[2])
                      [] r.rc = "CONFREJ" -> Again(rej[1], rej[2])
                      [] OTHER -> IF lcp_ackci(go, r.ci)
                                    THEN outcome' = "acked" /\ UNCHANGED <<go, tries>>
                                    ELSE Again(FALSE, go)
        /\ UNCHANGED <<wo, ao, peer>>

Next == Round

Spec == Init /\ [][Next]_vars

-----------------------------------------------------------------------------
(***************************************************************************)
(* When the request has been acked, what the end that answers believes of  *)
(* its peer (hisoptions, which lcp_up() configures the interface with) is  *)
(* what the other end believes to have obtained (gotoptions).              *)
(***************************************************************************)
SameOptions == outcome = "acked" => lcp_addci([ho EXCEPT !.neg = @ \cup
                   (go.neg \cap {"lqr"})]) = lcp_addci(go)

(***************************************************************************)
(* A Reject that lcp_reqci builds is one that lcp_rejci takes: the CIs are *)
(* a part of the request, in its order and with its values, so that the    *)
(* end that asks goes on without them and does not drop the answer.        *)
(***************************************************************************)
RejectsUnderstood ==
    outcome = "open" =>
        LET s == lcp_addci(go)
        IN  \A hint \in Magic :
                LET r == lcp_reqci(ao, peer, s, nakloops >= MaxNakLoops, hint)
                IN  r.rc = "CONFREJ" => r.ci # <<>> /\ lcp_rejci(go, r.ci)[1]

(***************************************************************************)
(* The two ends understand each other: every Reject is taken, and an Ack   *)
(* leaves both with the same options (lcp_reqci, lcp_rejci, lcp_ackci).    *)
(***************************************************************************)
OptionsAgree == SameOptions /\ RejectsUnderstood

(***************************************************************************)
(* The negotiation ends in an Ack, for every pair of configurations, if    *)
(* there are more Configure-Requests than Nak loops: an end that Naks what *)
(* the other one cannot change loses its patience (reject_if_disagree)     *)
(* before the other one runs out of requests.  Every round brings the end  *)
(* nearer - an option is given up for good, or a Nak is counted - except   *)
(* that magic() may return the peer's number once more.                    *)
(***************************************************************************)
Converges ==
    [][/\ outcome' # "stopped"
       /\ \/ outcome' = "acked"
          \/ go'.neg \subseteq go.neg /\ go'.neg # go.neg
          \/ nakloops' > nakloops
          \/ go.magic = peer.magic]_vars
=============================================================================
