------------------------------- MODULE PppFsm -------------------------------
(***************************************************************************)
(* The option-negotiation automaton that LCP and IPCP share (ppp/fsm.c).   *)
(*                                                                         *)
(* An automaton is a record f.  A handler of fsm.c is an operator from the *)
(* record to its next value; what the handler hands to its surroundings is *)
(* left in the record: out, the packets passed to output(), and calls, the *)
(* callbacks (up, down, starting, finished) in the order they are made.    *)
(* The modules that own an automaton drain both after every handler.       *)
(*                                                                         *)
(*   state, flags, id, reqid, retransmits, nakloops : the C fields         *)
(*   timers : fsm_timeout entries of f on the callout list.  ppp_timeout() *)
(*            never looks for an entry that is already there, so there may *)
(*            be several; ppp_untimeout() removes one of them.             *)
(*   go, ho : the protocol's gotoptions and hisoptions, one value of CI    *)
(*   upper  : whether the last of up()/down() called was up()              *)
(*   acked  : history; the peer acked the last request we transmitted      *)
(*   acking : history; our last answer to a Configure-Request was an Ack   *)
(*                                                                         *)
(* Packet lengths and the parsing of the header are left out: a packet is  *)
(* [code, id, ci].                                                         *)
(***************************************************************************)
EXTENDS Integers, Sequences

CONSTANTS
    MaxConfReqs,   \* maxconfreqtransmits (DEFMAXCONFREQS)
    MaxTermReqs,   \* maxtermtransmits (DEFMAXTERMREQS)
    MaxNakLoops,   \* maxnakloops (DEFMAXNAKLOOPS)
    IdMod,         \* number of identifiers; id is a u_char, 256 in the code
    CI,            \* the configurations an endpoint may request
    Malformed      \* a configuration that does not parse

ASSUME FsmAssumption ==
    /\ MaxConfReqs \in Nat \ {0}
    /\ MaxTermReqs \in Nat \ {0}
    /\ MaxNakLoops \in Nat
    /\ IdMod \in Nat \ {0, 1}
    /\ Malformed \notin CI

Ids == 0 .. IdMod - 1

States == {"INITIAL", "STARTING", "CLOSED", "STOPPED", "CLOSING", "STOPPING",
           "REQSENT", "ACKRCVD", "ACKSENT", "OPENED"}

\* The states in which fsm_sconfreq() considers the options in negotiation.
Negotiating == {"REQSENT", "ACKRCVD", "ACKSENT"}

\* The states that wait for the peer, and so for the retransmission timer.
Waiting == Negotiating \cup {"CLOSING", "STOPPING"}

FlagBits == {"PASSIVE", "SILENT", "RESTART"}

Verdicts == {"CONFACK", "CONFNAK", "CONFREJ"}

Codes == Verdicts \cup {"CONFREQ", "TERMREQ", "TERMACK", "CODEREJ"}

\* Mutant: the identifier is wider than a u_char.
NextIdWide(i) == i + 1

NextId(i) == (i + 1) % IdMod

\* f->reqid = -1, stored in a u_char.
NoReqid == IdMod - 1

Packet(code, id, ci) == [code |-> code, id |-> id, ci |-> ci]

-----------------------------------------------------------------------------
(* What a handler emits: packets, callbacks, timers.                       *)

fsm_sdata(f, code, id, ci) ==
    [f EXCEPT !.out = Append(@, Packet(code, id, ci)),
              !.acked = IF code = "CONFREQ" THEN FALSE ELSE @,
              !.acking = IF code \in Verdicts THEN code = "CONFACK" ELSE @]

Call(f, callback) ==
    [f EXCEPT !.calls = Append(@, callback),
              !.upper = CASE callback = "up" -> TRUE
                          [] callback = "down" -> FALSE
                          [] OTHER -> @]

PPP_TIMEOUT(f) == [f EXCEPT !.timers = @ + 1]

PPP_UNTIMEOUT(f) == [f EXCEPT !.timers = IF @ = 0 THEN 0 ELSE @ - 1]

Goto(f, s) == [f EXCEPT !.state = s]

\* Terminate-Request with a fresh identifier, and its timer.
SendTermReq(f) ==
    LET g == fsm_sdata([f EXCEPT !.id = NextId(@), !.reqid = NextId(f.id)],
                       "TERMREQ", NextId(f.id), Malformed)
    IN  [PPP_TIMEOUT(g) EXCEPT !.retransmits = @ - 1]

\* resetci: back to the configuration we want (a constant of the owner, kept
\* in the record because LCP and IPCP of the same unit want different ones).
fsm_sconfreq(f, retransmit) ==
    LET g == IF f.state \notin Negotiating
               THEN [f EXCEPT !.go = f.want, !.nakloops = 0] ELSE f
        h == IF retransmit THEN g
             ELSE [g EXCEPT !.retransmits = MaxConfReqs,
                            !.id = NextId(@), !.reqid = NextId(g.id)]
        s == fsm_sdata(h, "CONFREQ", h.reqid, h.go)
    IN  PPP_TIMEOUT([s EXCEPT !.retransmits = @ - 1])

-----------------------------------------------------------------------------
(* Events from above and below.                                            *)

fsm_init(flags, want, id) ==
    [state |-> "INITIAL", flags |-> flags, id |-> id, reqid |-> 0,
     retransmits |-> 0, nakloops |-> 0, timers |-> 0,
     want |-> want, go |-> want, ho |-> Malformed,
     upper |-> FALSE, acked |-> FALSE, acking |-> FALSE,
     out |-> <<>>, calls |-> <<>>]

\* CLOSED with an Open, STARTING with an Up: request, or wait for the peer.
StartNegotiation(f) ==
    IF "SILENT" \in f.flags THEN Goto(f, "STOPPED")
    ELSE Goto(fsm_sconfreq(f, FALSE), "REQSENT")

fsm_lowerup(f) ==
    CASE f.state = "INITIAL"  -> Goto(f, "CLOSED")
      [] f.state = "STARTING" -> StartNegotiation(f)
      [] OTHER -> f

fsm_lowerdown(f) ==
    CASE f.state = "CLOSED"  -> Goto(f, "INITIAL")
      [] f.state = "STOPPED" -> Call(Goto(f, "STARTING"), "starting")
      [] f.state = "CLOSING" -> PPP_UNTIMEOUT(Goto(f, "INITIAL"))
      [] f.state \in {"STOPPING"} \cup Negotiating ->
            PPP_UNTIMEOUT(Goto(f, "STARTING"))
      [] f.state = "OPENED"  -> Goto(Call(f, "down"), "STARTING")
      [] OTHER -> f

fsm_open(f) ==
    CASE f.state = "INITIAL" -> Call(Goto(f, "STARTING"), "starting")
      [] f.state = "CLOSED"  -> StartNegotiation(f)
      [] f.state \in {"CLOSING", "STOPPED", "OPENED"} ->
            LET g == IF f.state = "CLOSING" THEN Goto(f, "STOPPING") ELSE f
            IN  IF "RESTART" \in f.flags
                  THEN fsm_lowerup(fsm_lowerdown(g)) ELSE g
      [] OTHER -> f

\* Down to the upper layer, then ask the peer to terminate.
BeginTermination(f, s) ==
    LET g == IF f.state = "OPENED" THEN Call(f, "down") ELSE PPP_UNTIMEOUT(f)
    IN  Goto(SendTermReq([g EXCEPT !.retransmits = MaxTermReqs]), s)

fsm_close(f) ==
    CASE f.state = "STARTING" -> Goto(f, "INITIAL")
      [] f.state = "STOPPED"  -> Goto(f, "CLOSED")
      [] f.state = "STOPPING" -> Goto(f, "CLOSING")
      [] f.state \in Negotiating \cup {"OPENED"} ->
            BeginTermination(f, "CLOSING")
      [] OTHER -> f

\* Mutant: one request too many.
ExhaustedLate(f) == f.retransmits < 0

\* Mutant: the last request is not sent.
ExhaustedEarly(f) == f.retransmits <= 1

\* The restart counter is used up.
Exhausted(f) == f.retransmits <= 0

\* alrm() has unlinked the callout entry before it calls fsm_timeout().
fsm_timeout(f0) ==
    LET f == PPP_UNTIMEOUT(f0) IN
    CASE f.state \in {"CLOSING", "STOPPING"} ->
            IF Exhausted(f)
              THEN Call(Goto(f, IF f.state = "CLOSING" THEN "CLOSED"
                                ELSE "STOPPED"), "finished")
              ELSE SendTermReq(f)
      [] f.state \in Negotiating ->
            IF Exhausted(f)
              THEN IF "PASSIVE" \in f.flags THEN Goto(f, "STOPPED")
                   ELSE Call(Goto(f, "STOPPED"), "finished")
              ELSE LET g == fsm_sconfreq(f, TRUE)
                   IN  IF f.state = "ACKRCVD" THEN Goto(g, "REQSENT") ELSE g
      [] OTHER -> f

fsm_protreject(f) ==
    CASE f.state = "CLOSING" ->
            Call(Goto(PPP_UNTIMEOUT(f), "CLOSED"), "finished")
      [] f.state = "CLOSED"  -> Call(f, "finished")
      [] f.state \in {"STOPPING"} \cup Negotiating ->
            Call(Goto(PPP_UNTIMEOUT(f), "STOPPED"), "finished")
      [] f.state = "STOPPED" -> Call(f, "finished")
      [] f.state = "OPENED"  -> BeginTermination(f, "STOPPING")
      [] OTHER -> f

-----------------------------------------------------------------------------
(* Packets from the peer.                                                  *)

\* Mutant: the upper layer is not told.
RenegotiateQuietly(f) == fsm_sconfreq(f, FALSE)

\* A reply that was not expected any more: tell the upper layer that we are
\* down and start to negotiate again.
Renegotiate(f) == fsm_sconfreq(Call(f, "down"), FALSE)

\* v is what reqci() makes of the peer's request, nci the configuration that
\* its Nak or Reject carries.
fsm_rconfreq(f, id, ci, v, nci) ==
    IF f.state = "CLOSED" THEN fsm_sdata(f, "TERMACK", id, Malformed)
    ELSE IF f.state \in {"CLOSING", "STOPPING"} THEN f
    ELSE
    LET g == CASE f.state = "OPENED"  -> Renegotiate(f)
               [] f.state = "STOPPED" -> Goto(fsm_sconfreq(f, FALSE), "REQSENT")
               [] OTHER -> f
        h == [fsm_sdata(g, v, id, IF v = "CONFACK" THEN ci ELSE nci)
                EXCEPT !.ho = IF v = "CONFACK" THEN ci ELSE Malformed]
    IN  IF v = "CONFACK"
          THEN [IF g.state = "ACKRCVD"
                  THEN Call(Goto(PPP_UNTIMEOUT(h), "OPENED"), "up")
                  ELSE Goto(h, "ACKSENT") EXCEPT !.nakloops = 0]
          ELSE [IF g.state = "ACKRCVD" THEN h ELSE Goto(h, "REQSENT")
                  EXCEPT !.nakloops = IF v = "CONFNAK" THEN @ + 1 ELSE @]

\* Mutant: only the identifier of an Ack is looked at.
AckTestIdOnly(f, id, ci) == id = f.reqid

\* ackci: the Ack repeats exactly what we asked for.
AckExpected(f, id, ci) == id = f.reqid /\ ci = f.go

fsm_rconfack(f0, id, ci) ==
    IF ~AckExpected(f0, id, ci) THEN f0
    ELSE
    LET f == [f0 EXCEPT !.reqid = NoReqid, !.acked = TRUE] IN
    CASE f.state \in {"CLOSED", "STOPPED"} ->
            fsm_sdata(f, "TERMACK", id, Malformed)
      [] f.state = "REQSENT" ->
            [Goto(f, "ACKRCVD") EXCEPT !.retransmits = MaxConfReqs]
      [] f.state = "ACKRCVD" -> Goto(fsm_sconfreq(f, FALSE), "REQSENT")
      [] f.state = "ACKSENT" ->
            Call([Goto(PPP_UNTIMEOUT(f), "OPENED")
                    EXCEPT !.retransmits = MaxConfReqs], "up")
      [] f.state = "OPENED" -> Goto(Renegotiate(f), "REQSENT")
      [] OTHER -> f

\* nakci, rejci: a good Nak or Reject replaces what we ask for, except in
\* OPENED, where the options in force are not touched.
fsm_rconfnakrej(f0, id, ci) ==
    IF id # f0.reqid \/ ci = Malformed THEN f0
    ELSE
    LET f == [f0 EXCEPT !.reqid = NoReqid,
                        !.go = IF f0.state = "OPENED" THEN @ ELSE ci] IN
    CASE f.state \in {"CLOSED", "STOPPED"} ->
            fsm_sdata(f, "TERMACK", id, Malformed)
      [] f.state \in {"REQSENT", "ACKSENT"} ->
            fsm_sconfreq(PPP_UNTIMEOUT(f), FALSE)
      [] f.state = "ACKRCVD" -> Goto(fsm_sconfreq(f, FALSE), "REQSENT")
      [] f.state = "OPENED"  -> Goto(Renegotiate(f), "REQSENT")
      [] OTHER -> f

\* Mutant: no timer for the Terminate-Request of the peer.
fsm_rtermreq_NoTimer(f, id) ==
    LET g == CASE f.state \in {"ACKRCVD", "ACKSENT"} -> Goto(f, "REQSENT")
               [] f.state = "OPENED" ->
                    [Goto(Call(f, "down"), "STOPPING") EXCEPT !.retransmits = 0]
               [] OTHER -> f
    IN  fsm_sdata(g, "TERMACK", id, Malformed)

\* Mutant: a Terminate-Request is acknowledged and otherwise ignored.
fsm_rtermreq_Ignored(f, id) == fsm_sdata(f, "TERMACK", id, Malformed)

fsm_rtermreq(f, id) ==
    LET g == CASE f.state \in {"ACKRCVD", "ACKSENT"} -> Goto(f, "REQSENT")
               [] f.state = "OPENED" ->
                    PPP_TIMEOUT([Goto(Call(f, "down"), "STOPPING")
                                   EXCEPT !.retransmits = 0])
               [] OTHER -> f
    IN  fsm_sdata(g, "TERMACK", id, Malformed)

\* Mutant: the state is not reset by an Ack to a Terminate-Request.
fsm_rtermack_Kept(f) ==
    CASE f.state = "CLOSING"  -> Call(Goto(f, "CLOSED"), "finished")
      [] f.state = "STOPPING" -> Call(Goto(f, "STOPPED"), "finished")
      [] f.state = "OPENED"   -> fsm_sconfreq(f, FALSE)
      [] OTHER -> f

\* In OPENED the state is left as it is.
fsm_rtermack(f) ==
    CASE f.state = "CLOSING"  -> Call(Goto(f, "CLOSED"), "finished")
      [] f.state = "STOPPING" -> Call(Goto(f, "STOPPED"), "finished")
      [] f.state = "ACKRCVD"  -> Goto(f, "REQSENT")
      [] f.state = "OPENED"   -> Renegotiate(f)
      [] OTHER -> f

fsm_rcoderej(f) == IF f.state = "ACKRCVD" THEN Goto(f, "REQSENT") ELSE f

\* A code that neither the automaton nor extcode() knows.
UnknownCode(f) ==
    fsm_sdata([f EXCEPT !.id = NextId(@)], "CODEREJ", NextId(f.id), Malformed)

\* p.code is one of Codes; any other code is UnknownCode or extcode's.
fsm_input(f, p, v, nci) ==
    IF f.state \in {"INITIAL", "STARTING"} THEN f
    ELSE CASE p.code = "CONFREQ" -> fsm_rconfreq(f, p.id, p.ci, v, nci)
           [] p.code = "CONFACK" -> fsm_rconfack(f, p.id, p.ci)
           [] p.code \in {"CONFNAK", "CONFREJ"} ->
                fsm_rconfnakrej(f, p.id, p.ci)
           [] p.code = "TERMREQ" -> fsm_rtermreq(f, p.id)
           [] p.code = "TERMACK" -> fsm_rtermack(f)
           [] p.code = "CODEREJ" -> fsm_rcoderej(f)
           [] OTHER -> UnknownCode(f)
=============================================================================
