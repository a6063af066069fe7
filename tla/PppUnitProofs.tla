--------------------------- MODULE PppUnitProofs ---------------------------
(***************************************************************************)
(* Proofs about one PPP unit: the automaton of ppp/fsm.c against any       *)
(* environment (PppFsmSpec), the unit that is built from two of them       *)
(* (PppUnit) and the addresses of IPCP (Ipcp), for every setting of the    *)
(* options, every number of retransmissions and every bound.               *)
(***************************************************************************)
EXTENDS PppUnit, PppFsmSpec, Ipcp, TLAPS

-----------------------------------------------------------------------------
(***************************************************************************)
(* What the handlers of ppp/fsm.c do to an automaton, for every number of  *)
(* requests, every identifier width and every set of configurations: the   *)
(* proofs about one automaton and about a unit with two of them rest on    *)
(* these facts.                                                            *)
(***************************************************************************)
FsmPackets == [code : Codes, id : Ids, ci : CI \cup {Malformed}]

Callbacks == {"up", "down", "starting", "finished"}

\* An automaton inside a handler: packets and callbacks may be pending.
Rec ==
    [state : States, flags : SUBSET FlagBits, id : Ids, reqid : Ids,
     retransmits : Int, nakloops : Nat, timers : Nat,
     want : CI, go : CI, ho : CI \cup {Malformed},
     upper : BOOLEAN, acked : BOOLEAN, acking : BOOLEAN,
     out : Seq(FsmPackets), calls : Seq(Callbacks)]

\* The inductive invariant, of any automaton.
Safe(g) ==
    /\ g.state \in Waiting => g.timers >= 1
    /\ g.upper => g.state = "OPENED" /\ g.acked /\ g.acking
    /\ g.state = "ACKRCVD" => g.acked
    /\ g.state = "ACKSENT" => g.acking
    /\ g.retransmits >= 0
    /\ g.state \in Negotiating => g.retransmits <= MaxConfReqs
    /\ g.state \in {"CLOSING", "STOPPING"} => g.retransmits < MaxTermReqs

\* What every handler makes of a safe automaton g.
Step(g, h) ==
    /\ h \in Rec
    /\ Safe(h)
    /\ g.upper /\ h.upper => h.go = g.go /\ h.ho = g.ho

-----------------------------------------------------------------------------
(* The primitives: what each of them leaves in the record.                 *)

\* Identifiers stay in their range: NextId() wraps, and -1 in a u_char is one.
LEMMA IdsLemma == /\ NoReqid \in Ids
                  /\ \A i \in Ids : NextId(i) \in Ids
  BY FsmAssumption, Z3 DEF NoReqid, Ids, NextId

\* fsm_sdata() adds one packet, and touches nothing but the acknowledgements.
LEMMA SdataLemma ==
    ASSUME NEW g \in Rec, NEW code \in Codes, NEW id \in Ids,
           NEW ci \in CI \cup {Malformed}
    PROVE  LET h == fsm_sdata(g, code, id, ci) IN
           /\ h \in Rec
           /\ code = "CONFREQ" => ~h.acked
           /\ code # "CONFREQ" => (h.acked <=> g.acked)
           /\ code = "CONFACK" => h.acking
           /\ code \notin Verdicts => (h.acking <=> g.acking)
           /\ h.state = g.state /\ h.flags = g.flags /\ (h.upper <=> g.upper)
           /\ h.id = g.id /\ h.reqid = g.reqid
           /\ h.retransmits = g.retransmits /\ h.timers = g.timers
           /\ h.nakloops = g.nakloops
           /\ h.go = g.go /\ h.ho = g.ho /\ h.want = g.want /\ h.calls = g.calls
  <1> DEFINE h == fsm_sdata(g, code, id, ci)
             ak == IF code = "CONFREQ" THEN FALSE ELSE g.acked
             ag == IF code \in Verdicts THEN code = "CONFACK" ELSE g.acking
  <1>1. ak \in BOOLEAN /\ ag \in BOOLEAN
    BY DEF Rec
  <1>2. h = [g EXCEPT !.out = Append(g.out, Packet(code, id, ci)),
                      !.acked = ak, !.acking = ag]
    BY DEF fsm_sdata, Rec
  <1>3. Append(g.out, Packet(code, id, ci)) \in Seq(FsmPackets)
    BY DEF Packet, FsmPackets, Rec
  <1> HIDE DEF h, ak, ag
  <1>4. h \in Rec
    BY <1>1, <1>2, <1>3 DEF Rec
  <1>5. /\ h.acked = ak /\ h.acking = ag
        /\ h.state = g.state /\ h.flags = g.flags /\ h.upper = g.upper
        /\ h.id = g.id /\ h.reqid = g.reqid
        /\ h.retransmits = g.retransmits /\ h.timers = g.timers
        /\ h.nakloops = g.nakloops
        /\ h.go = g.go /\ h.ho = g.ho /\ h.want = g.want /\ h.calls = g.calls
    BY <1>2 DEF Rec
  <1>6. /\ code = "CONFREQ" => ak = FALSE
        /\ code # "CONFREQ" => ak = g.acked
        /\ code = "CONFACK" => ag = TRUE
        /\ code \notin Verdicts => ag = g.acking
    BY DEF ak, ag, Verdicts
  <1> QED
    BY <1>4, <1>5, <1>6 DEF h

\* A callback is remembered, and up() and down() decide about upper.
LEMMA CallLemma ==
    ASSUME NEW g \in Rec, NEW c \in Callbacks
    PROVE  LET h == Call(g, c) IN
           /\ h \in Rec
           /\ c = "up" => h.upper
           /\ c = "down" => ~h.upper
           /\ c \notin {"up", "down"} => (h.upper <=> g.upper)
           /\ h.state = g.state /\ h.flags = g.flags
           /\ (h.acked <=> g.acked) /\ (h.acking <=> g.acking)
           /\ h.id = g.id /\ h.reqid = g.reqid
           /\ h.retransmits = g.retransmits /\ h.timers = g.timers
           /\ h.nakloops = g.nakloops
           /\ h.go = g.go /\ h.ho = g.ho /\ h.want = g.want
           /\ h.calls = Append(g.calls, c)
  <1> DEFINE h == Call(g, c)
             up == CASE c = "up" -> TRUE [] c = "down" -> FALSE
                    [] OTHER -> g.upper
  <1>1. up \in BOOLEAN
    BY DEF Rec
  <1>2. h = [g EXCEPT !.calls = Append(g.calls, c), !.upper = up]
    BY DEF Call, Rec
  <1>3. Append(g.calls, c) \in Seq(Callbacks)
    BY DEF Rec
  <1>4. /\ c = "up" => up = TRUE
        /\ c = "down" => up = FALSE
        /\ c \notin {"up", "down"} => up = g.upper
    OBVIOUS
  <1> HIDE DEF h, up
  <1>5. h \in Rec
    BY <1>1, <1>2, <1>3 DEF Rec
  <1>6. /\ h.upper = up /\ h.state = g.state /\ h.flags = g.flags
        /\ h.acked = g.acked /\ h.acking = g.acking
        /\ h.id = g.id /\ h.reqid = g.reqid
        /\ h.retransmits = g.retransmits /\ h.timers = g.timers
        /\ h.nakloops = g.nakloops
        /\ h.go = g.go /\ h.ho = g.ho /\ h.want = g.want
        /\ h.calls = Append(g.calls, c)
    BY <1>2 DEF Rec
  <1> QED
    BY <1>4, <1>5, <1>6 DEF h

\* PPP_TIMEOUT adds one entry to the callout list.
LEMMA TimeoutLemma ==
    ASSUME NEW g \in Rec
    PROVE  /\ PPP_TIMEOUT(g) = [g EXCEPT !.timers = g.timers + 1]
           /\ PPP_TIMEOUT(g) \in Rec
  BY SMTT(40) DEF PPP_TIMEOUT, Rec

\* PPP_UNTIMEOUT removes one entry, if there is one.
LEMMA UntimeoutLemma ==
    ASSUME NEW g \in Rec
    PROVE  /\ \/ g.timers = 0 /\ PPP_UNTIMEOUT(g) = g
              \/ g.timers > 0 /\ PPP_UNTIMEOUT(g) = [g EXCEPT !.timers = g.timers - 1]
           /\ PPP_UNTIMEOUT(g) \in Rec
  <1>1. CASE g.timers = 0
    <2>1. PPP_UNTIMEOUT(g) = [g EXCEPT !.timers = 0]
      BY <1>1 DEF PPP_UNTIMEOUT
    <2>2. [g EXCEPT !.timers = 0] = g
      BY <1>1 DEF Rec
    <2> QED BY <1>1, <2>1, <2>2
  <1>2. CASE g.timers # 0
    <2>1. g.timers \in Nat BY DEF Rec
    <2>2. PPP_UNTIMEOUT(g) = [g EXCEPT !.timers = g.timers - 1]
      BY <1>2 DEF PPP_UNTIMEOUT
    <2>3. g.timers - 1 \in Nat BY <1>2, <2>1
    <2>4. [g EXCEPT !.timers = g.timers - 1] \in Rec
      BY <2>3 DEF Rec
    <2> QED BY <1>2, <2>1, <2>2, <2>4
  <1> QED BY <1>1, <1>2

\* A new state changes nothing else of an automaton.
LEMMA GotoLemma ==
    ASSUME NEW g \in Rec, NEW s \in States
    PROVE  /\ Goto(g, s) = [g EXCEPT !.state = s]
           /\ Goto(g, s) \in Rec
  BY DEF Goto, Rec

\* The acknowledgements, the options, the flags and the callbacks of h are
\* those of g.
SameBooks(g, h) ==
    /\ h.calls = g.calls
    /\ h.flags = g.flags
    /\ h.acked <=> g.acked
    /\ h.acking <=> g.acking
    /\ h.upper <=> g.upper
    /\ h.go = g.go
    /\ h.ho = g.ho

\* The same, field by field.
LEMMA GotoFields ==
    ASSUME NEW g \in Rec, NEW s \in States
    PROVE  LET h == Goto(g, s) IN
           /\ h \in Rec /\ h.state = s
           /\ h.timers = g.timers /\ h.retransmits = g.retransmits
           /\ SameBooks(g, h)
  BY GotoLemma DEF Rec, SameBooks

\* PPP_TIMEOUT, field by field.
LEMMA TimeoutFields ==
    ASSUME NEW g \in Rec
    PROVE  LET h == PPP_TIMEOUT(g) IN
           /\ h \in Rec /\ h.state = g.state
           /\ h.timers = g.timers + 1 /\ h.retransmits = g.retransmits
           /\ SameBooks(g, h)
  BY TimeoutLemma DEF Rec, SameBooks

\* PPP_UNTIMEOUT, field by field.
LEMMA UntimeoutFields ==
    ASSUME NEW g \in Rec
    PROVE  LET h == PPP_UNTIMEOUT(g) IN
           /\ h \in Rec /\ h.state = g.state /\ h.nakloops = g.nakloops
           /\ h.timers = (IF g.timers = 0 THEN 0 ELSE g.timers - 1)
           /\ h.retransmits = g.retransmits
           /\ SameBooks(g, h)
  <1>1. CASE g.timers = 0
    <2>1. PPP_UNTIMEOUT(g) = g BY <1>1, UntimeoutLemma
    <2> QED BY <1>1, <2>1 DEF SameBooks
  <1>2. CASE g.timers > 0
    <2> DEFINE h == [g EXCEPT !.timers = g.timers - 1]
    <2>1. PPP_UNTIMEOUT(g) = h BY <1>2, UntimeoutLemma
    <2>2. h \in Rec BY <2>1, UntimeoutLemma
    <2>3. /\ h.state = g.state /\ h.nakloops = g.nakloops
          /\ h.timers = g.timers - 1 /\ h.retransmits = g.retransmits
          /\ SameBooks(g, h)
      BY DEF Rec, SameBooks
    <2> QED BY <1>2, <2>1, <2>2, <2>3
  <1> QED
    BY <1>1, <1>2 DEF Rec

\* A new restart counter changes nothing else.
LEMMA CountLemma ==
    ASSUME NEW g \in Rec, NEW n \in Int
    PROVE  LET h == [g EXCEPT !.retransmits = n] IN
           /\ h \in Rec /\ h.state = g.state /\ h.timers = g.timers
           /\ h.retransmits = n
           /\ SameBooks(g, h)
  BY DEF Rec, SameBooks

\* A Terminate-Request costs one of the retransmissions and sets the timer.
LEMMA SendTermReqLemma ==
    ASSUME NEW g \in Rec
    PROVE  LET h == SendTermReq(g) IN
           /\ h \in Rec /\ h.state = g.state
           /\ h.timers = g.timers + 1
           /\ h.retransmits = g.retransmits - 1
           /\ SameBooks(g, h)
  <1> DEFINE a == [g EXCEPT !.id = NextId(g.id), !.reqid = NextId(g.id)]
             b == fsm_sdata(a, "TERMREQ", NextId(g.id), Malformed)
             c == PPP_TIMEOUT(b)
             h == [c EXCEPT !.retransmits = c.retransmits - 1]
  <1>1. NextId(g.id) \in Ids
    BY IdsLemma DEF Rec
  <1>2. /\ a \in Rec /\ a.state = g.state /\ a.timers = g.timers
        /\ a.retransmits = g.retransmits
        /\ SameBooks(g, a)
    BY <1>1 DEF Rec, SameBooks
  <1>3. /\ b \in Rec /\ b.state = a.state /\ b.timers = a.timers
        /\ b.retransmits = a.retransmits
        /\ SameBooks(a, b)
    <2> HIDE DEF a
    <2>1. "TERMREQ" \notin Verdicts /\ "TERMREQ" \in Codes BY DEF Verdicts, Codes
    <2>2. Malformed \in CI \cup {Malformed} OBVIOUS
    <2> QED BY <1>1, <1>2, <2>1, <2>2, SdataLemma DEF SameBooks
  <1>4. SendTermReq(g) = h
    BY DEF SendTermReq
  <1> HIDE DEF b
  <1>5. /\ c \in Rec /\ c.state = b.state /\ c.timers = b.timers + 1
        /\ c.retransmits = b.retransmits
        /\ SameBooks(b, c)
    BY <1>3, TimeoutFields
  <1> HIDE DEF c
  <1>6. /\ h \in Rec /\ h.state = c.state /\ h.timers = c.timers
        /\ h.retransmits = c.retransmits - 1 /\ SameBooks(c, h)
    <2>1. c.retransmits - 1 \in Int BY <1>5 DEF Rec
    <2> QED BY <1>5, <2>1, CountLemma
  <1> HIDE DEF h, a
  <1> QED
    BY <1>2, <1>3, <1>4, <1>5, <1>6 DEF SameBooks

\* fsm_sconfreq() sets the timer and leaves us without an Ack of the peer.
LEMMA SconfreqLemma ==
    ASSUME NEW g \in Rec, NEW retransmit \in BOOLEAN
    PROVE  LET h == fsm_sconfreq(g, retransmit) IN
           /\ h \in Rec /\ h.state = g.state
           /\ h.timers = g.timers + 1
           /\ h.retransmits =
                (IF retransmit THEN g.retransmits ELSE MaxConfReqs) - 1
           /\ ~h.acked /\ (h.acking <=> g.acking) /\ (h.upper <=> g.upper)
           /\ h.calls = g.calls /\ h.flags = g.flags
  <1> DEFINE a == IF g.state \notin Negotiating
                    THEN [g EXCEPT !.go = g.want, !.nakloops = 0] ELSE g
             b == IF retransmit THEN a
                  ELSE [a EXCEPT !.retransmits = MaxConfReqs,
                                 !.id = NextId(a.id), !.reqid = NextId(a.id)]
             c == fsm_sdata(b, "CONFREQ", b.reqid, b.go)
             d == [c EXCEPT !.retransmits = c.retransmits - 1]
  <1>1. fsm_sconfreq(g, retransmit) = PPP_TIMEOUT(d)
    BY DEF fsm_sconfreq
  <1>2. /\ a \in Rec /\ a.state = g.state /\ a.timers = g.timers
        /\ a.retransmits = g.retransmits
        /\ (a.acking <=> g.acking) /\ (a.upper <=> g.upper)
        /\ a.calls = g.calls /\ a.flags = g.flags
    <2>1. CASE g.state \in Negotiating BY <2>1
    <2>2. CASE g.state \notin Negotiating BY <2>2 DEF Rec
    <2> QED BY <2>1, <2>2
  <1> HIDE DEF a
  <1>3. /\ b \in Rec /\ b.state = a.state /\ b.timers = a.timers
        /\ b.retransmits = (IF retransmit THEN a.retransmits ELSE MaxConfReqs)
        /\ (b.acking <=> a.acking) /\ (b.upper <=> a.upper)
        /\ b.calls = a.calls /\ b.flags = a.flags
    <2>1. CASE retransmit BY <1>2, <2>1
    <2>2. CASE ~retransmit
      <3>1. MaxConfReqs \in Int /\ NextId(a.id) \in Ids
        BY <1>2, IdsLemma, FsmAssumption DEF Rec
      <3> QED BY <1>2, <2>2, <3>1 DEF Rec
    <2> QED BY <2>1, <2>2
  <1> HIDE DEF b
  <1>4. b.reqid \in Ids /\ b.go \in CI \cup {Malformed}
    BY <1>3 DEF Rec
  <1>5. /\ c \in Rec /\ c.state = b.state /\ c.timers = b.timers
        /\ c.retransmits = b.retransmits
        /\ ~c.acked /\ (c.acking <=> b.acking) /\ (c.upper <=> b.upper)
        /\ c.calls = b.calls /\ c.flags = b.flags
    <2>1. "CONFREQ" \notin Verdicts /\ "CONFREQ" \in Codes
      BY DEF Verdicts, Codes
    <2> QED BY <1>3, <1>4, <2>1, SdataLemma
  <1> HIDE DEF c
  <1>6. /\ d \in Rec /\ d.state = c.state /\ d.timers = c.timers
        /\ d.retransmits = c.retransmits - 1 /\ SameBooks(c, d)
    <2>1. c.retransmits - 1 \in Int BY <1>5 DEF Rec
    <2> QED BY <1>5, <2>1, CountLemma
  <1> HIDE DEF d
  <1> QED
    BY <1>1, <1>2, <1>3, <1>5, <1>6, TimeoutFields DEF SameBooks

-----------------------------------------------------------------------------
(* The handlers: each of them makes a safe automaton out of a safe one.    *)

\* Doing nothing is a step.
LEMMA StutterLemma == ASSUME NEW g \in Rec, Safe(g) PROVE Step(g, g)
  BY DEF Step

\* A request from a state that is not OPENED, or with the upper layer down.
LEMMA NewRequest ==
    ASSUME NEW g \in Rec, Safe(g), ~g.upper, NEW s \in States,
           s \in {"REQSENT", "OPENED"}
    PROVE  /\ Step(g, Goto(fsm_sconfreq(g, FALSE), s))
           /\ ~Goto(fsm_sconfreq(g, FALSE), s).upper
  <1> DEFINE h == fsm_sconfreq(g, FALSE)
  <1>1. /\ h \in Rec /\ h.timers = g.timers + 1
        /\ h.retransmits = MaxConfReqs - 1 /\ ~h.acked /\ ~h.upper
    BY SconfreqLemma
  <1> HIDE DEF h
  <1>2. g.timers \in Nat /\ MaxConfReqs \in Nat \ {0}
    BY FsmAssumption DEF Rec
  <1> DEFINE k == Goto(h, s)
  <1>3. /\ k \in Rec /\ k.state = s /\ k.timers = h.timers
        /\ k.retransmits = h.retransmits /\ ~k.upper
    BY <1>1, GotoFields DEF SameBooks
  <1> HIDE DEF k
  <1>4. Safe(k)
    BY <1>1, <1>2, <1>3 DEF Safe, Negotiating, Waiting
  <1> QED
    BY <1>3, <1>4 DEF Step, k, h

\* StartNegotiation keeps the automaton safe and the upper layer down.
LEMMA StartLemma ==
    ASSUME NEW g \in Rec, Safe(g), ~g.upper
    PROVE  Step(g, StartNegotiation(g)) /\ ~StartNegotiation(g).upper
  <1>1. CASE "SILENT" \in g.flags
    <2>1. StartNegotiation(g) = Goto(g, "STOPPED")
      BY <1>1 DEF StartNegotiation
    <2> QED
      BY <2>1, GotoFields
         DEF Step, Safe, SameBooks, States, Negotiating, Waiting
  <1>2. CASE "SILENT" \notin g.flags
    <2>1. StartNegotiation(g) = Goto(fsm_sconfreq(g, FALSE), "REQSENT")
      BY <1>2 DEF StartNegotiation
    <2> QED
      BY <2>1, NewRequest DEF States
  <1> QED BY <1>1, <1>2

\* fsm_lowerup() keeps the automaton safe and never brings the upper layer up.
LEMMA LowerupLemma ==
    ASSUME NEW g \in Rec, Safe(g)
    PROVE  Step(g, fsm_lowerup(g)) /\ (~g.upper => ~fsm_lowerup(g).upper)
  <1>1. CASE g.state = "INITIAL"
    BY <1>1, GotoFields
       DEF fsm_lowerup, Step, Safe, SameBooks, States, Negotiating, Waiting
  <1>2. CASE g.state = "STARTING"
    BY <1>2, StartLemma DEF fsm_lowerup, Safe
  <1>3. CASE g.state \notin {"INITIAL", "STARTING"}
    BY <1>3, StutterLemma DEF fsm_lowerup
  <1> QED BY <1>1, <1>2, <1>3

\* fsm_lowerdown() keeps the automaton safe and the upper layer goes down.
LEMMA LowerdownLemma ==
    ASSUME NEW g \in Rec, Safe(g)
    PROVE  Step(g, fsm_lowerdown(g)) /\ ~fsm_lowerdown(g).upper
  <1> USE DEF Step, Safe, SameBooks, States, Negotiating, Waiting, Callbacks
  <1>0. g.timers \in Nat
    BY DEF Rec
  <1>1. CASE g.state = "CLOSED"
    BY <1>1, GotoFields DEF fsm_lowerdown
  <1>2. CASE g.state = "STOPPED"
    <2> DEFINE h == Goto(g, "STARTING")
    <2>1. /\ h \in Rec /\ h.state = "STARTING"
          /\ h.retransmits = g.retransmits /\ ~h.upper
      BY <1>2, GotoFields
    <2> HIDE DEF h
    <2>2. fsm_lowerdown(g) = Call(h, "starting")
      BY <1>2 DEF fsm_lowerdown, h
    <2> QED BY <1>2, <2>1, <2>2, CallLemma
  <1>3. CASE g.state \in {"CLOSING", "STOPPING"} \cup Negotiating
    <2> DEFINE s == IF g.state = "CLOSING" THEN "INITIAL" ELSE "STARTING"
               h == Goto(g, s)
    <2>1. /\ h \in Rec /\ h.state = s
          /\ h.retransmits = g.retransmits /\ ~h.upper
      BY <1>3, GotoFields
    <2>2. fsm_lowerdown(g) = PPP_UNTIMEOUT(h)
      BY <1>3 DEF fsm_lowerdown
    <2> HIDE DEF h
    <2> QED BY <1>3, <2>1, <2>2, UntimeoutFields
  <1>4. CASE g.state = "OPENED"
    <2> DEFINE h == Call(g, "down")
    <2>1. h \in Rec /\ h.retransmits = g.retransmits /\ ~h.upper
      BY CallLemma
    <2> HIDE DEF h
    <2>2. fsm_lowerdown(g) = Goto(h, "STARTING")
      BY <1>4 DEF fsm_lowerdown, h
    <2> QED BY <1>4, <2>1, <2>2, GotoFields
  <1>5. CASE g.state \in {"INITIAL", "STARTING"}
    BY <1>5, StutterLemma DEF fsm_lowerdown
  <1> QED BY <1>1, <1>2, <1>3, <1>4, <1>5 DEF Rec

\* fsm_open() keeps the automaton safe, in the case that restarts it too.
LEMMA OpenLemma ==
    ASSUME NEW g \in Rec, Safe(g) PROVE Step(g, fsm_open(g))
  <1> USE DEF Step, Safe, SameBooks, States, Negotiating, Waiting, Callbacks
  <1>1. CASE g.state = "INITIAL"
    <2> DEFINE h == Goto(g, "STARTING")
    <2>1. /\ h \in Rec /\ h.state = "STARTING"
          /\ h.retransmits = g.retransmits /\ ~h.upper
      BY <1>1, GotoFields
    <2> HIDE DEF h
    <2>2. fsm_open(g) = Call(h, "starting")
      BY <1>1 DEF fsm_open, h
    <2> QED BY <1>1, <2>1, <2>2, CallLemma
  <1>2. CASE g.state = "CLOSED"
    <2>1. fsm_open(g) = StartNegotiation(g)
      BY <1>2 DEF fsm_open
    <2>2. ~g.upper
      BY <1>2
    <2> HIDE DEF Step, Safe
    <2> QED BY <2>1, <2>2, StartLemma
  <1>3. CASE g.state \in {"CLOSING", "STOPPED", "OPENED"}
    <2> DEFINE h == IF g.state = "CLOSING" THEN Goto(g, "STOPPING") ELSE g
    <2>1. Step(g, h)
      <3>1. CASE g.state = "CLOSING" BY <3>1, GotoFields
      <3>2. CASE g.state # "CLOSING" BY <3>2
      <3> QED BY <3>1, <3>2
    <2>2. fsm_open(g) = IF "RESTART" \in g.flags
                          THEN fsm_lowerup(fsm_lowerdown(h)) ELSE h
      BY <1>3 DEF fsm_open
    <2> HIDE DEF h
    <2>3. h \in Rec /\ Safe(h)
      BY <2>1
    <2> DEFINE k == fsm_lowerdown(h)
    <2>4. k \in Rec /\ Safe(k) /\ ~k.upper
      BY <2>3, LowerdownLemma
    <2> HIDE DEF k
    <2>5. Step(k, fsm_lowerup(k)) /\ ~fsm_lowerup(k).upper
      <3> HIDE DEF Step, Safe
      <3> QED BY <2>4, LowerupLemma
    <2>6. CASE "RESTART" \in g.flags
      BY <2>2, <2>5, <2>6 DEF k
    <2>7. CASE "RESTART" \notin g.flags
      BY <2>1, <2>2, <2>7
    <2> QED BY <2>6, <2>7
  <1>4. CASE g.state \notin {"INITIAL", "CLOSED", "CLOSING", "STOPPED", "OPENED"}
    BY <1>4, StutterLemma DEF fsm_open
  <1> QED BY <1>1, <1>2, <1>3, <1>4

\* BeginTermination keeps the automaton safe: the Terminate-Request is timed.
LEMMA TerminationLemma ==
    ASSUME NEW g \in Rec, Safe(g), NEW s \in {"CLOSING", "STOPPING"},
           g.state \in Negotiating \cup {"OPENED"}
    PROVE  Step(g, BeginTermination(g, s))
  <1> DEFINE a == IF g.state = "OPENED" THEN Call(g, "down") ELSE PPP_UNTIMEOUT(g)
             b == [a EXCEPT !.retransmits = MaxTermReqs]
             c == SendTermReq(b)
             h == Goto(c, s)
  <1>1. a \in Rec /\ ~a.upper
    <2>1. CASE g.state = "OPENED" BY <2>1, CallLemma DEF Callbacks
    <2>2. CASE g.state # "OPENED"
      BY <2>2, UntimeoutFields DEF Safe, SameBooks
    <2> QED BY <2>1, <2>2
  <1>2. BeginTermination(g, s) = h
    BY DEF BeginTermination
  <1>3. MaxTermReqs \in Nat \ {0} /\ MaxTermReqs \in Int /\ s \in States
    BY FsmAssumption DEF States
  <1> HIDE DEF a
  <1>4. b \in Rec /\ ~b.upper /\ b.retransmits = MaxTermReqs
    BY <1>1, <1>3, CountLemma DEF SameBooks
  <1> HIDE DEF b
  <1>5. /\ c \in Rec /\ ~c.upper /\ c.retransmits = MaxTermReqs - 1
        /\ c.timers = b.timers + 1
    BY <1>4, SendTermReqLemma DEF SameBooks
  <1> HIDE DEF c
  <1>6. /\ h \in Rec /\ ~h.upper /\ h.retransmits = MaxTermReqs - 1
        /\ h.timers = b.timers + 1 /\ h.state = s
    BY <1>3, <1>5, GotoFields DEF SameBooks
  <1>7. b.timers \in Nat
    BY <1>4 DEF Rec
  <1> HIDE DEF h
  <1> QED
    BY <1>2, <1>3, <1>6, <1>7 DEF Step, Safe, Negotiating, Waiting

\* fsm_close() keeps the automaton safe.
LEMMA CloseLemma ==
    ASSUME NEW g \in Rec, Safe(g) PROVE Step(g, fsm_close(g))
  <1>1. CASE g.state \in {"STARTING", "STOPPED", "STOPPING"}
    <2> USE DEF Step, Safe, SameBooks, States, Negotiating, Waiting
    <2>1. CASE g.state = "STARTING" BY <2>1, GotoFields DEF fsm_close
    <2>2. CASE g.state = "STOPPED" BY <2>2, GotoFields DEF fsm_close
    <2>3. CASE g.state = "STOPPING" BY <2>3, GotoFields DEF fsm_close
    <2> QED BY <1>1, <2>1, <2>2, <2>3
  <1>2. CASE g.state \in Negotiating \cup {"OPENED"}
    <2>1. fsm_close(g) = BeginTermination(g, "CLOSING")
      BY <1>2 DEF fsm_close, Negotiating
    <2> QED BY <1>2, <2>1, TerminationLemma
  <1>3. CASE g.state \notin {"STARTING", "STOPPED", "STOPPING", "OPENED"}
                            \cup Negotiating
    BY <1>3, StutterLemma DEF fsm_close
  <1> QED BY <1>1, <1>2, <1>3

\* The finished() callback in a state that waits for nothing.
LEMMA FinishedLemma ==
    ASSUME NEW g \in Rec, ~g.upper, g.retransmits >= 0,
           NEW s \in {"CLOSED", "STOPPED"}
    PROVE  Step(g, Call(Goto(g, s), "finished"))
  <1> DEFINE h == Goto(g, s)
  <1>1. /\ h \in Rec /\ ~h.upper /\ h.state = s
        /\ h.retransmits = g.retransmits
    BY GotoFields DEF States, SameBooks
  <1> HIDE DEF h
  <1> DEFINE k == Call(h, "finished")
  <1>2. /\ k \in Rec /\ ~k.upper /\ k.state = s
        /\ k.retransmits = g.retransmits
    BY <1>1, CallLemma DEF Callbacks
  <1> HIDE DEF k
  <1>3. Safe(k)
    BY <1>2 DEF Safe, Negotiating, Waiting
  <1> QED BY <1>2, <1>3 DEF Step, k, h

\* fsm_timeout(), of an entry that was on the list, sets the timer again or stops.
LEMMA TimeoutHandlerLemma ==
    ASSUME NEW g0 \in Rec, Safe(g0), g0.timers > 0
    PROVE  Step(g0, fsm_timeout(g0))
  <1> DEFINE g == PPP_UNTIMEOUT(g0)
  <1>1. /\ g \in Rec /\ g.state = g0.state /\ g.timers = g0.timers - 1
        /\ g.retransmits = g0.retransmits /\ SameBooks(g0, g)
    BY UntimeoutFields
  <1>2. g.retransmits \in Int /\ g.timers \in Nat /\ g.retransmits >= 0
    BY <1>1 DEF Rec, Safe
  <1> HIDE DEF g
  <1>3. CASE g.state \in {"CLOSING", "STOPPING"}
    <2>0. ~g.upper /\ ~g0.upper
      BY <1>1, <1>3 DEF Safe, SameBooks
    <2>1. CASE Exhausted(g)
      <3> DEFINE s == IF g.state = "CLOSING" THEN "CLOSED" ELSE "STOPPED"
      <3>1. fsm_timeout(g0) = Call(Goto(g, s), "finished")
        BY <1>3, <2>1 DEF fsm_timeout, g, Negotiating
      <3> QED BY <1>1, <1>2, <2>0, <3>1, FinishedLemma DEF Step
    <2>2. CASE ~Exhausted(g)
      <3>1. fsm_timeout(g0) = SendTermReq(g)
        BY <1>3, <2>2 DEF fsm_timeout, g, Negotiating
      <3> DEFINE h == SendTermReq(g)
      <3>2. /\ h \in Rec /\ h.state = g.state /\ h.timers = g.timers + 1
            /\ h.retransmits = g.retransmits - 1 /\ SameBooks(g, h)
        BY <1>1, SendTermReqLemma
      <3> HIDE DEF h
      <3>3. MaxTermReqs \in Nat /\ g.retransmits < MaxTermReqs
        BY <1>1, <1>3, FsmAssumption DEF Safe
      <3>4. Safe(h)
        BY <1>1, <1>2, <1>3, <2>0, <2>2, <3>2, <3>3
           DEF Safe, SameBooks, Exhausted, Negotiating, Waiting
      <3> QED BY <2>0, <3>1, <3>2, <3>4 DEF Step, h
    <2> QED BY <2>1, <2>2
  <1>4. CASE g.state \in Negotiating
    <2>0. ~g.upper /\ ~g0.upper
      BY <1>1, <1>4 DEF Safe, SameBooks, Negotiating
    <2>1. CASE Exhausted(g)
      <3>1. CASE "PASSIVE" \in g.flags
        <4>1. fsm_timeout(g0) = Goto(g, "STOPPED")
          BY <1>4, <2>1, <3>1 DEF fsm_timeout, g, Negotiating
        <4> QED
          BY <1>1, <1>2, <2>0, <4>1, GotoFields
             DEF Step, Safe, SameBooks, States, Negotiating, Waiting
      <3>2. CASE "PASSIVE" \notin g.flags
        <4>1. fsm_timeout(g0) = Call(Goto(g, "STOPPED"), "finished")
          BY <1>4, <2>1, <3>2 DEF fsm_timeout, g, Negotiating
        <4> QED BY <1>1, <1>2, <2>0, <4>1, FinishedLemma DEF Step
      <3> QED BY <3>1, <3>2
    <2>2. CASE ~Exhausted(g)
      <3> DEFINE h == fsm_sconfreq(g, TRUE)
      <3>1. fsm_timeout(g0) = IF g.state = "ACKRCVD" THEN Goto(h, "REQSENT") ELSE h
        BY <1>4, <2>2 DEF fsm_timeout, g, Negotiating
      <3>2. /\ h \in Rec /\ h.state = g.state /\ h.timers = g.timers + 1
            /\ h.retransmits = g.retransmits - 1
            /\ (h.acking <=> g.acking) /\ ~h.upper
        BY <1>1, <2>0, SconfreqLemma
      <3> HIDE DEF h
      <3>3. MaxConfReqs \in Nat /\ g.retransmits <= MaxConfReqs
        BY <1>1, <1>4, FsmAssumption DEF Safe
      <3>4. CASE g.state = "ACKRCVD"
        <4> DEFINE k == Goto(h, "REQSENT")
        <4>1. /\ k \in Rec /\ k.state = "REQSENT" /\ k.timers = g.timers + 1
              /\ k.retransmits = g.retransmits - 1 /\ ~k.upper
          BY <3>2, GotoFields DEF SameBooks, States
        <4> HIDE DEF k
        <4>2. Safe(k)
          BY <1>2, <2>2, <3>3, <4>1 DEF Safe, Exhausted, Negotiating, Waiting
        <4> QED BY <2>0, <3>1, <3>4, <4>1, <4>2 DEF Step, k
      <3>5. CASE g.state # "ACKRCVD"
        <4>1. Safe(h)
          BY <1>1, <1>2, <1>4, <2>2, <3>2, <3>3, <3>5
             DEF Safe, Exhausted, SameBooks, Negotiating, Waiting
        <4> QED BY <2>0, <3>1, <3>2, <3>5, <4>1 DEF Step
      <3> QED BY <3>4, <3>5
    <2> QED BY <2>1, <2>2
  <1>5. CASE g.state \notin {"CLOSING", "STOPPING"} \cup Negotiating
    <2>1. fsm_timeout(g0) = g
      BY <1>5 DEF fsm_timeout, g
    <2> QED
      BY <1>1, <1>2, <1>5, <2>1 DEF Step, Safe, SameBooks, Waiting
  <1> QED BY <1>3, <1>4, <1>5

\* fsm_protreject() keeps the automaton safe.
LEMMA ProtrejectLemma ==
    ASSUME NEW g \in Rec, Safe(g) PROVE Step(g, fsm_protreject(g))
  <1>1. CASE g.state \in {"CLOSING", "STOPPING"} \cup Negotiating
    <2> DEFINE h == PPP_UNTIMEOUT(g)
               s == IF g.state = "CLOSING" THEN "CLOSED" ELSE "STOPPED"
    <2>1. fsm_protreject(g) = Call(Goto(h, s), "finished")
      <3>1. CASE g.state = "CLOSING" BY <3>1 DEF fsm_protreject, Negotiating
      <3>2. CASE g.state # "CLOSING"
        BY <1>1, <3>2 DEF fsm_protreject, Negotiating
      <3> QED BY <3>1, <3>2
    <2>2. h \in Rec /\ h.retransmits >= 0 /\ ~h.upper /\ ~g.upper
      BY <1>1, UntimeoutFields DEF Safe, SameBooks, Negotiating
    <2> HIDE DEF h
    <2> QED BY <2>1, <2>2, FinishedLemma DEF Step
  <1>2. CASE g.state \in {"CLOSED", "STOPPED"}
    <2> DEFINE h == Call(g, "finished")
    <2>1. /\ h \in Rec /\ h.state = g.state /\ h.retransmits = g.retransmits
          /\ ~h.upper /\ ~g.upper
      BY <1>2, CallLemma DEF Safe, Callbacks
    <2>2. fsm_protreject(g) = h
      BY <1>2 DEF fsm_protreject, Negotiating
    <2> HIDE DEF h
    <2> QED BY <1>2, <2>1, <2>2 DEF Step, Safe, Negotiating, Waiting
  <1>3. CASE g.state = "OPENED"
    <2>1. fsm_protreject(g) = BeginTermination(g, "STOPPING")
      BY <1>3 DEF fsm_protreject, Negotiating
    <2> QED BY <1>3, <2>1, TerminationLemma
  <1>4. CASE g.state \notin {"CLOSING", "STOPPING", "CLOSED", "STOPPED", "OPENED"}
                            \cup Negotiating
    BY <1>4, StutterLemma DEF fsm_protreject
  <1> QED BY <1>1, <1>2, <1>3, <1>4

\* Renegotiate tells the upper layer and sends a new request.
LEMMA RenegotiateLemma ==
    ASSUME NEW g \in Rec
    PROVE  LET h == Renegotiate(g) IN
           /\ h \in Rec /\ h.state = g.state /\ h.timers = g.timers + 1
           /\ h.retransmits = MaxConfReqs - 1 /\ ~h.upper
           /\ (h.acking <=> g.acking)
           /\ h.calls = Append(g.calls, "down") /\ h.flags = g.flags
  <1> DEFINE a == Call(g, "down")
  <1>1. /\ a \in Rec /\ a.state = g.state /\ a.timers = g.timers
        /\ ~a.upper /\ (a.acking <=> g.acking)
        /\ a.calls = Append(g.calls, "down") /\ a.flags = g.flags
    BY CallLemma DEF Callbacks
  <1> HIDE DEF a
  <1>2. Renegotiate(g) = fsm_sconfreq(a, FALSE)
    BY DEF Renegotiate, a
  <1> DEFINE h == fsm_sconfreq(a, FALSE)
  <1>3. /\ h \in Rec /\ h.state = a.state /\ h.timers = a.timers + 1
        /\ h.retransmits = MaxConfReqs - 1
        /\ (h.acking <=> a.acking) /\ (h.upper <=> a.upper)
        /\ h.calls = a.calls /\ h.flags = a.flags
    BY <1>1, SconfreqLemma
  <1> HIDE DEF h
  <1> QED BY <1>1, <1>2, <1>3 DEF h

\* The upper layer is down and the last packet sent is a request.
LEMMA RequestSafe ==
    ASSUME NEW g \in Rec, ~g.upper, g.timers >= 1,
           g.retransmits = MaxConfReqs - 1, g.state \in {"REQSENT", "OPENED"}
    PROVE  Safe(g)
  BY FsmAssumption DEF Safe, Rec, Negotiating, Waiting

\* The answer to the peer's request decides about acking, and about nothing else.
LEMMA AnswerLemma ==
    ASSUME NEW g \in Rec, NEW id \in Ids, NEW ci \in CI \cup {Malformed},
           NEW nci \in CI \cup {Malformed}, NEW v \in Verdicts
    PROVE  LET a == IF v = "CONFACK" THEN ci ELSE nci
               b == IF v = "CONFACK" THEN ci ELSE Malformed
               h == [fsm_sdata(g, v, id, a) EXCEPT !.ho = b]
           IN  /\ h \in Rec /\ h.state = g.state /\ h.timers = g.timers
               /\ h.retransmits = g.retransmits
               /\ (h.acked <=> g.acked) /\ (h.upper <=> g.upper)
               /\ v = "CONFACK" => h.acking
               /\ h.nakloops = g.nakloops /\ h.calls = g.calls /\ h.flags = g.flags
  <1> DEFINE a == IF v = "CONFACK" THEN ci ELSE nci
             b == IF v = "CONFACK" THEN ci ELSE Malformed
             k == fsm_sdata(g, v, id, a)
             h == [k EXCEPT !.ho = b]
  <1>1. a \in CI \cup {Malformed} /\ b \in CI \cup {Malformed}
    OBVIOUS
  <1>2. v \in Codes /\ v # "CONFREQ"
    BY DEF Verdicts, Codes
  <1> HIDE DEF a, b
  <1>3. /\ k \in Rec /\ k.state = g.state /\ k.timers = g.timers
        /\ k.retransmits = g.retransmits /\ k.nakloops = g.nakloops
        /\ (k.acked <=> g.acked) /\ (k.upper <=> g.upper)
        /\ v = "CONFACK" => k.acking
        /\ k.calls = g.calls /\ k.flags = g.flags
    BY <1>1, <1>2, SdataLemma
  <1> HIDE DEF k
  <1>4. h \in Rec
    BY <1>1, <1>3 DEF Rec
  <1>5. /\ h.state = k.state /\ h.timers = k.timers
        /\ h.retransmits = k.retransmits /\ h.nakloops = k.nakloops
        /\ (h.acked <=> k.acked) /\ (h.upper <=> k.upper)
        /\ (h.acking <=> k.acking) /\ h.calls = k.calls /\ h.flags = k.flags
    BY <1>3 DEF Rec
  <1> HIDE DEF h
  <1> QED BY <1>3, <1>4, <1>5 DEF a, b, k, h

\* The count of Naks matters to nothing else.
LEMMA NakloopsLemma ==
    ASSUME NEW g \in Rec, NEW n \in Nat
    PROVE  LET h == [g EXCEPT !.nakloops = n] IN
           /\ h \in Rec /\ h.state = g.state /\ h.timers = g.timers
           /\ h.retransmits = g.retransmits
           /\ SameBooks(g, h)
  BY DEF Rec, SameBooks

\* An answer of the wrong kind leaves an unsafe half; these are the states
\* in which fsm_rconfreq() gets to its answer.
LEMMA RconfreqLemma ==
    ASSUME NEW g0 \in Rec, Safe(g0), g0.state \notin {"INITIAL", "STARTING"},
           NEW id \in Ids, NEW ci \in CI \cup {Malformed},
           NEW nci \in CI \cup {Malformed}, NEW v \in Verdicts
    PROVE  Step(g0, fsm_rconfreq(g0, id, ci, v, nci))
  <1>1. CASE g0.state = "CLOSED"
    <2> DEFINE h == fsm_sdata(g0, "TERMACK", id, Malformed)
    <2>1. fsm_rconfreq(g0, id, ci, v, nci) = h
      BY <1>1 DEF fsm_rconfreq
    <2>2. "TERMACK" \in Codes \ Verdicts
      BY DEF Codes, Verdicts
    <2>3. /\ h \in Rec /\ h.state = g0.state /\ h.timers = g0.timers
          /\ h.retransmits = g0.retransmits /\ (h.upper <=> g0.upper)
      BY <2>2, SdataLemma
    <2> HIDE DEF h
    <2> QED BY <1>1, <2>1, <2>3 DEF Step, Safe, Negotiating, Waiting
  <1>2. CASE g0.state \in {"CLOSING", "STOPPING"}
    BY <1>2, StutterLemma DEF fsm_rconfreq
  <1>3. CASE g0.state \notin {"CLOSED", "CLOSING", "STOPPING"}
    <2> DEFINE g == CASE g0.state = "OPENED"  -> Renegotiate(g0)
                      [] g0.state = "STOPPED" ->
                           Goto(fsm_sconfreq(g0, FALSE), "REQSENT")
                      [] OTHER -> g0
               a == IF v = "CONFACK" THEN ci ELSE nci
               b == IF v = "CONFACK" THEN ci ELSE Malformed
               h == [fsm_sdata(g, v, id, a) EXCEPT !.ho = b]
               up == IF g.state = "ACKRCVD"
                       THEN Call(Goto(PPP_UNTIMEOUT(h), "OPENED"), "up")
                       ELSE Goto(h, "ACKSENT")
               no == IF g.state = "ACKRCVD" THEN h ELSE Goto(h, "REQSENT")
    <2>1. fsm_rconfreq(g0, id, ci, v, nci) =
            IF v = "CONFACK"
              THEN [up EXCEPT !.nakloops = 0]
              ELSE [no EXCEPT !.nakloops =
                      IF v = "CONFNAK" THEN no.nakloops + 1 ELSE no.nakloops]
      BY <1>3 DEF fsm_rconfreq
    <2>2. /\ g \in Rec /\ Safe(g) /\ ~g.upper
          /\ g.state \in Negotiating \cup {"OPENED"}
          /\ g.state = "ACKRCVD" => g0.state = "ACKRCVD"
          /\ g.timers >= 1 /\ g.retransmits >= 0 /\ g.retransmits <= MaxConfReqs
      <3>1. CASE g0.state = "OPENED"
        <4> DEFINE k == Renegotiate(g0)
        <4>1. /\ k \in Rec /\ ~k.upper /\ k.timers >= 1 /\ k.state = "OPENED"
              /\ k.retransmits = MaxConfReqs - 1
          <5>1. g0.timers \in Nat BY DEF Rec
          <5> QED BY <3>1, <5>1, RenegotiateLemma
        <4>2. g = k
          BY <3>1
        <4> HIDE DEF k, g
        <4> QED BY <4>1, <4>2, RequestSafe, FsmAssumption
      <3>2. CASE g0.state = "STOPPED"
        <4> DEFINE k == Goto(fsm_sconfreq(g0, FALSE), "REQSENT")
        <4>1. Step(g0, k) /\ ~k.upper
          BY <3>2, NewRequest DEF Safe, States
        <4>2. k.state = "REQSENT"
          <5>1. fsm_sconfreq(g0, FALSE) \in Rec BY SconfreqLemma
          <5> QED BY <5>1, GotoFields DEF States
        <4>3. g = k
          BY <3>2
        <4> HIDE DEF k, g
        <4> QED BY <4>1, <4>2, <4>3 DEF Step, Safe, Negotiating, Waiting
      <3>3. CASE g0.state \notin {"OPENED", "STOPPED"}
        <4>1. g = g0
          BY <3>3
        <4> HIDE DEF g
        <4> QED BY <1>3, <3>3, <4>1 DEF Rec, Safe, States, Negotiating, Waiting
      <3> QED BY <3>1, <3>2, <3>3
    <2>3. g0.upper => g0.state = "OPENED"
      BY DEF Safe
    <2> HIDE DEF g
    <2>4. /\ h \in Rec /\ h.state = g.state /\ h.timers = g.timers
          /\ h.retransmits = g.retransmits
          /\ (h.acked <=> g.acked) /\ (h.upper <=> g.upper)
          /\ v = "CONFACK" => h.acking
          /\ h.nakloops = g.nakloops
      BY <2>2, AnswerLemma
    <2> HIDE DEF h
    <2>5. g.timers \in Nat /\ h.nakloops \in Nat
      BY <2>2, <2>4 DEF Rec
    <2>6. CASE v = "CONFACK" /\ g.state = "ACKRCVD"
      <3> DEFINE k == PPP_UNTIMEOUT(h)
                 l == Goto(k, "OPENED")
                 m == Call(l, "up")
                 n == [m EXCEPT !.nakloops = 0]
      <3>1. /\ k \in Rec /\ k.retransmits = h.retransmits /\ k.acked /\ k.acking
        BY <2>2, <2>4, <2>6, UntimeoutFields DEF Safe, SameBooks
      <3> HIDE DEF k
      <3>2. /\ l \in Rec /\ l.retransmits = h.retransmits /\ l.acked /\ l.acking
            /\ l.state = "OPENED"
        BY <3>1, GotoFields DEF States, SameBooks
      <3> HIDE DEF l
      <3>3. /\ m \in Rec /\ m.retransmits = h.retransmits /\ m.acked /\ m.acking
            /\ m.state = "OPENED" /\ m.upper
        BY <3>2, CallLemma DEF Callbacks
      <3> HIDE DEF m
      <3>4. /\ n \in Rec /\ n.retransmits = h.retransmits /\ n.acked /\ n.acking
            /\ n.state = "OPENED" /\ n.upper
        BY <3>3, NakloopsLemma DEF SameBooks
      <3>5. fsm_rconfreq(g0, id, ci, v, nci) = n
        BY <2>1, <2>6 DEF m, l, k
      <3> HIDE DEF n
      <3>6. ~g0.upper
        BY <2>2, <2>3, <2>6
      <3>7. h.retransmits >= 0
        BY <2>2, <2>4 DEF Safe
      <3> QED BY <3>4, <3>5, <3>6, <3>7 DEF Step, Safe, Negotiating, Waiting
    <2>7. CASE v = "CONFACK" /\ g.state # "ACKRCVD"
      <3> DEFINE l == Goto(h, "ACKSENT")
                 n == [l EXCEPT !.nakloops = 0]
      <3>1. /\ l \in Rec /\ l.retransmits = g.retransmits /\ l.acking
            /\ l.timers = g.timers /\ ~l.upper /\ l.state = "ACKSENT"
        BY <2>2, <2>4, <2>7, GotoFields DEF States, SameBooks
      <3> HIDE DEF l
      <3>2. /\ n \in Rec /\ n.retransmits = g.retransmits /\ n.acking
            /\ n.timers = g.timers /\ ~n.upper /\ n.state = "ACKSENT"
        BY <3>1, NakloopsLemma DEF SameBooks
      <3>3. fsm_rconfreq(g0, id, ci, v, nci) = n
        BY <2>1, <2>7 DEF l
      <3> HIDE DEF n
      <3> QED BY <2>2, <3>2, <3>3 DEF Step, Safe, Negotiating, Waiting
    <2>8. CASE v # "CONFACK"
      <3> DEFINE c == IF v = "CONFNAK" THEN no.nakloops + 1 ELSE no.nakloops
                 n == [no EXCEPT !.nakloops = c]
      <3>1. /\ no \in Rec /\ no.retransmits = g.retransmits
            /\ no.timers = g.timers /\ ~no.upper
            /\ no.state \in {"ACKRCVD", "REQSENT"}
            /\ no.state = "ACKRCVD" => g.state = "ACKRCVD" /\ no.acked
        <4>1. CASE g.state = "ACKRCVD"
          BY <2>2, <2>4, <4>1 DEF Safe
        <4>2. CASE g.state # "ACKRCVD"
          BY <2>2, <2>4, <4>2, GotoFields DEF States, SameBooks
        <4> QED BY <4>1, <4>2
      <3> HIDE DEF no
      <3>2. c \in Nat
        BY <3>1 DEF Rec
      <3> HIDE DEF c
      <3>3. /\ n \in Rec /\ n.retransmits = g.retransmits
            /\ n.timers = g.timers /\ ~n.upper /\ n.state = no.state
            /\ (n.acked <=> no.acked)
        BY <3>1, <3>2, NakloopsLemma DEF SameBooks
      <3>4. fsm_rconfreq(g0, id, ci, v, nci) = n
        BY <2>1, <2>8 DEF c
      <3> HIDE DEF n
      <3> QED BY <2>2, <3>1, <3>3, <3>4 DEF Step, Safe, Negotiating, Waiting
    <2> QED BY <2>6, <2>7, <2>8
  <1> QED BY <1>1, <1>2, <1>3

\* Down to the upper layer, a new request, and whichever state comes next.
LEMMA RestartLemma ==
    ASSUME NEW g \in Rec, NEW s \in {"REQSENT", "OPENED"}
    PROVE  /\ Goto(Renegotiate(g), s) \in Rec
           /\ Safe(Goto(Renegotiate(g), s))
           /\ ~Goto(Renegotiate(g), s).upper
  <1> DEFINE h == Renegotiate(g)
             k == Goto(h, s)
  <1>1. /\ h \in Rec /\ ~h.upper /\ h.timers = g.timers + 1
        /\ h.retransmits = MaxConfReqs - 1
    BY RenegotiateLemma
  <1> HIDE DEF h
  <1>2. /\ k \in Rec /\ ~k.upper /\ k.timers = g.timers + 1
        /\ k.retransmits = MaxConfReqs - 1 /\ k.state = s
    BY <1>1, GotoFields DEF States, SameBooks
  <1>3. g.timers \in Nat
    BY DEF Rec
  <1> HIDE DEF k
  <1>4. Safe(k)
    BY <1>2, <1>3, RequestSafe
  <1> QED BY <1>2, <1>4 DEF k, h

\* A Terminate-Ack that we send changes nothing but the packets.
LEMMA TermackLemma ==
    ASSUME NEW g \in Rec, NEW id \in Ids
    PROVE  LET h == fsm_sdata(g, "TERMACK", id, Malformed) IN
           /\ h \in Rec /\ h.state = g.state /\ h.timers = g.timers
           /\ h.retransmits = g.retransmits
           /\ SameBooks(g, h)
           /\ Safe(g) => Safe(h)
  <1> DEFINE h == fsm_sdata(g, "TERMACK", id, Malformed)
  <1>1. "TERMACK" \in Codes \ Verdicts
    BY DEF Codes, Verdicts
  <1>2. Malformed \in CI \cup {Malformed}
    OBVIOUS
  <1>3. /\ h \in Rec /\ h.state = g.state /\ h.timers = g.timers
        /\ h.retransmits = g.retransmits
        /\ SameBooks(g, h)
    BY <1>1, <1>2, SdataLemma DEF SameBooks
  <1> HIDE DEF h
  <1>4. Safe(g) => Safe(h)
    BY <1>3 DEF Safe, SameBooks
  <1> QED BY <1>3, <1>4 DEF h

\* The identifier is used up once it has been answered.
LEMMA ReqidLemma ==
    ASSUME NEW g \in Rec, NEW b \in BOOLEAN
    PROVE  LET h == [g EXCEPT !.reqid = NoReqid, !.acked = b] IN
           /\ h \in Rec /\ h.state = g.state /\ h.timers = g.timers
           /\ h.retransmits = g.retransmits
           /\ (h.upper <=> g.upper) /\ (h.acking <=> g.acking)
           /\ (h.acked <=> b)
           /\ h.go = g.go /\ h.ho = g.ho
  <1> DEFINE h == [g EXCEPT !.reqid = NoReqid, !.acked = b]
  <1>1. NoReqid \in Ids
    BY IdsLemma
  <1>2. h \in Rec
    BY <1>1 DEF Rec
  <1>3. /\ h.state = g.state /\ h.timers = g.timers
        /\ h.retransmits = g.retransmits
        /\ h.upper = g.upper /\ h.acking = g.acking
        /\ h.acked = b
        /\ h.go = g.go /\ h.ho = g.ho
    BY DEF Rec
  <1> QED BY <1>2, <1>3

\* fsm_rconfack() opens the automaton only if we have acked the peer as well.
LEMMA RconfackLemma ==
    ASSUME NEW g0 \in Rec, Safe(g0), g0.state \notin {"INITIAL", "STARTING"},
           NEW id \in Ids, NEW ci \in CI \cup {Malformed}
    PROVE  Step(g0, fsm_rconfack(g0, id, ci))
  <1>1. CASE ~AckExpected(g0, id, ci)
    BY <1>1, StutterLemma DEF fsm_rconfack
  <1>2. CASE AckExpected(g0, id, ci)
    <2> DEFINE g == [g0 EXCEPT !.reqid = NoReqid, !.acked = TRUE]
    <2>1. /\ g \in Rec /\ g.state = g0.state /\ g.timers = g0.timers
          /\ g.retransmits = g0.retransmits
          /\ (g.upper <=> g0.upper) /\ (g.acking <=> g0.acking) /\ g.acked
          /\ g.go = g0.go /\ g.ho = g0.ho
      BY ReqidLemma
    <2>2. fsm_rconfack(g0, id, ci) =
            CASE g.state \in {"CLOSED", "STOPPED"} ->
                    fsm_sdata(g, "TERMACK", id, Malformed)
              [] g.state = "REQSENT" ->
                    [Goto(g, "ACKRCVD") EXCEPT !.retransmits = MaxConfReqs]
              [] g.state = "ACKRCVD" -> Goto(fsm_sconfreq(g, FALSE), "REQSENT")
              [] g.state = "ACKSENT" ->
                    Call([Goto(PPP_UNTIMEOUT(g), "OPENED")
                            EXCEPT !.retransmits = MaxConfReqs], "up")
              [] g.state = "OPENED" -> Goto(Renegotiate(g), "REQSENT")
              [] OTHER -> g
      BY <1>2 DEF fsm_rconfack
    <2> HIDE DEF g
    <2>3. Safe(g)
      BY <2>1 DEF Safe
    <2>4. MaxConfReqs \in Int /\ MaxConfReqs \in Nat
      BY FsmAssumption
    <2>5. CASE g.state \in {"CLOSED", "STOPPED"}
      <3>1. fsm_rconfack(g0, id, ci) = fsm_sdata(g, "TERMACK", id, Malformed)
        BY <2>2, <2>5
      <3> QED BY <2>1, <2>3, <3>1, TermackLemma DEF Step, SameBooks
    <2>6. CASE g.state = "REQSENT"
      <3> DEFINE h == Goto(g, "ACKRCVD")
                 k == [h EXCEPT !.retransmits = MaxConfReqs]
      <3>1. /\ h \in Rec /\ h.state = "ACKRCVD" /\ h.timers = g.timers
            /\ h.acked /\ ~h.upper
        BY <2>1, <2>3, <2>6, GotoFields DEF States, SameBooks, Safe
      <3> HIDE DEF h
      <3>2. /\ k \in Rec /\ k.state = "ACKRCVD" /\ k.timers = g.timers
            /\ k.acked /\ ~k.upper /\ k.retransmits = MaxConfReqs
        BY <2>4, <3>1, CountLemma DEF SameBooks
      <3>3. fsm_rconfack(g0, id, ci) = k
        BY <2>2, <2>6 DEF h
      <3> HIDE DEF k
      <3> QED
        BY <2>3, <2>4, <2>6, <3>2, <3>3 DEF Step, Safe, Negotiating, Waiting
    <2>7. CASE g.state = "ACKRCVD"
      <3>1. ~g.upper /\ ~g0.upper
        BY <2>1, <2>3, <2>7 DEF Safe
      <3>2. fsm_rconfack(g0, id, ci) = Goto(fsm_sconfreq(g, FALSE), "REQSENT")
        BY <2>2, <2>7
      <3> QED BY <2>1, <2>3, <3>1, <3>2, NewRequest DEF Step, States
    <2>8. CASE g.state = "ACKSENT"
      <3> DEFINE h == PPP_UNTIMEOUT(g)
                 k == Goto(h, "OPENED")
                 l == [k EXCEPT !.retransmits = MaxConfReqs]
                 m == Call(l, "up")
      <3>1. h \in Rec /\ h.acked /\ h.acking
        BY <2>1, <2>3, <2>8, UntimeoutFields DEF Safe, SameBooks
      <3> HIDE DEF h
      <3>2. k \in Rec /\ k.acked /\ k.acking /\ k.state = "OPENED"
        BY <3>1, GotoFields DEF States, SameBooks
      <3> HIDE DEF k
      <3>3. /\ l \in Rec /\ l.acked /\ l.acking /\ l.state = "OPENED"
            /\ l.retransmits = MaxConfReqs
        BY <2>4, <3>2, CountLemma DEF SameBooks
      <3> HIDE DEF l
      <3>4. /\ m \in Rec /\ m.acked /\ m.acking /\ m.state = "OPENED"
            /\ m.retransmits = MaxConfReqs
        BY <3>3, CallLemma DEF Callbacks
      <3>5. fsm_rconfack(g0, id, ci) = m
        BY <2>2, <2>8 DEF l, k, h
      <3> HIDE DEF m
      <3>6. ~g0.upper
        BY <2>1, <2>8 DEF Safe
      <3> QED BY <2>4, <3>4, <3>5, <3>6 DEF Step, Safe, Negotiating, Waiting
    <2>9. CASE g.state = "OPENED"
      <3>1. fsm_rconfack(g0, id, ci) = Goto(Renegotiate(g), "REQSENT")
        BY <2>2, <2>9
      <3> QED BY <2>1, <3>1, RestartLemma DEF Step
    <2>10. CASE g.state \notin {"CLOSED", "STOPPED", "OPENED"} \cup Negotiating
      <3>1. fsm_rconfack(g0, id, ci) = g
        BY <2>2, <2>10 DEF Negotiating
      <3> QED BY <2>1, <2>3, <3>1 DEF Step
    <2> QED BY <2>5, <2>6, <2>7, <2>8, <2>9, <2>10 DEF Negotiating
  <1> QED BY <1>1, <1>2

\* fsm_rconfnakrej() keeps the automaton safe.
LEMMA RconfnakrejLemma ==
    ASSUME NEW g0 \in Rec, Safe(g0), g0.state \notin {"INITIAL", "STARTING"},
           NEW id \in Ids, NEW ci \in CI \cup {Malformed}
    PROVE  Step(g0, fsm_rconfnakrej(g0, id, ci))
  <1>1. CASE id # g0.reqid \/ ci = Malformed
    BY <1>1, StutterLemma DEF fsm_rconfnakrej
  <1>2. CASE ~(id # g0.reqid \/ ci = Malformed)
    <2> DEFINE o == IF g0.state = "OPENED" THEN g0.go ELSE ci
               g == [g0 EXCEPT !.reqid = NoReqid, !.go = o]
    <2>1. /\ g \in Rec /\ g.state = g0.state /\ g.timers = g0.timers
          /\ g.retransmits = g0.retransmits /\ (g.acked <=> g0.acked)
          /\ (g.upper <=> g0.upper) /\ (g.acking <=> g0.acking)
          /\ (g0.upper => g.go = g0.go) /\ g.ho = g0.ho
      <3>1. o \in CI /\ NoReqid \in Ids /\ (g0.upper => o = g0.go)
        BY <1>2, IdsLemma DEF Rec, Safe
      <3> HIDE DEF o
      <3>2. g \in Rec
        BY <3>1 DEF Rec
      <3>3. /\ g.state = g0.state /\ g.timers = g0.timers
            /\ g.retransmits = g0.retransmits /\ g.acked = g0.acked
            /\ g.upper = g0.upper /\ g.acking = g0.acking
            /\ g.go = o /\ g.ho = g0.ho
        BY DEF Rec
      <3> HIDE DEF g
      <3> QED BY <3>1, <3>2, <3>3
    <2>2. fsm_rconfnakrej(g0, id, ci) =
            CASE g.state \in {"CLOSED", "STOPPED"} ->
                    fsm_sdata(g, "TERMACK", id, Malformed)
              [] g.state \in {"REQSENT", "ACKSENT"} ->
                    fsm_sconfreq(PPP_UNTIMEOUT(g), FALSE)
              [] g.state = "ACKRCVD" -> Goto(fsm_sconfreq(g, FALSE), "REQSENT")
              [] g.state = "OPENED"  -> Goto(Renegotiate(g), "REQSENT")
              [] OTHER -> g
      BY <1>2 DEF fsm_rconfnakrej
    <2> HIDE DEF g
    <2>3. Safe(g)
      BY <2>1 DEF Safe
    <2>4. CASE g.state \in {"CLOSED", "STOPPED"}
      <3>1. fsm_rconfnakrej(g0, id, ci) = fsm_sdata(g, "TERMACK", id, Malformed)
        BY <2>2, <2>4
      <3> QED BY <2>1, <2>3, <3>1, TermackLemma DEF Step, SameBooks
    <2>5. CASE g.state \in {"REQSENT", "ACKSENT"}
      <3> DEFINE h == PPP_UNTIMEOUT(g)
                 k == fsm_sconfreq(h, FALSE)
      <3>1. /\ h \in Rec /\ h.state = g.state /\ ~h.upper /\ ~g0.upper
            /\ (h.acking <=> g.acking)
        BY <2>1, <2>3, <2>5, UntimeoutFields DEF SameBooks, Safe
      <3> HIDE DEF h
      <3>2. /\ k \in Rec /\ k.state = g.state /\ ~k.upper
            /\ k.timers = h.timers + 1 /\ k.retransmits = MaxConfReqs - 1
            /\ (k.acking <=> g.acking)
        BY <3>1, SconfreqLemma
      <3>3. h.timers \in Nat /\ MaxConfReqs \in Nat \ {0}
        BY <3>1, FsmAssumption DEF Rec
      <3>4. fsm_rconfnakrej(g0, id, ci) = k
        BY <2>2, <2>5 DEF h
      <3> HIDE DEF k
      <3>5. Safe(k)
        BY <2>3, <2>5, <3>2, <3>3 DEF Safe, Negotiating, Waiting
      <3> QED BY <3>1, <3>2, <3>4, <3>5 DEF Step
    <2>6. CASE g.state = "ACKRCVD"
      <3>1. ~g.upper /\ ~g0.upper
        BY <2>1, <2>3, <2>6 DEF Safe
      <3>2. fsm_rconfnakrej(g0, id, ci) = Goto(fsm_sconfreq(g, FALSE), "REQSENT")
        BY <2>2, <2>6
      <3> QED BY <2>1, <2>3, <3>1, <3>2, NewRequest DEF Step, States
    <2>7. CASE g.state = "OPENED"
      <3>1. fsm_rconfnakrej(g0, id, ci) = Goto(Renegotiate(g), "REQSENT")
        BY <2>2, <2>7
      <3> QED BY <2>1, <3>1, RestartLemma DEF Step
    <2>8. CASE g.state \notin {"CLOSED", "STOPPED", "OPENED"} \cup Negotiating
      <3>1. fsm_rconfnakrej(g0, id, ci) = g
        BY <2>2, <2>8 DEF Negotiating
      <3> QED BY <2>1, <2>3, <3>1 DEF Step
    <2> QED BY <2>4, <2>5, <2>6, <2>7, <2>8 DEF Negotiating
  <1> QED BY <1>1, <1>2

\* fsm_rtermreq() keeps the automaton safe: STOPPING has a timer.
LEMMA RtermreqLemma ==
    ASSUME NEW g0 \in Rec, Safe(g0), NEW id \in Ids
    PROVE  Step(g0, fsm_rtermreq(g0, id))
  <1> DEFINE a == Goto(Call(g0, "down"), "STOPPING")
             b == [a EXCEPT !.retransmits = 0]
             g == CASE g0.state \in {"ACKRCVD", "ACKSENT"} -> Goto(g0, "REQSENT")
                    [] g0.state = "OPENED" -> PPP_TIMEOUT(b)
                    [] OTHER -> g0
             h == fsm_sdata(g, "TERMACK", id, Malformed)
  <1>1. fsm_rtermreq(g0, id) = h
    BY DEF fsm_rtermreq
  <1>2. Step(g0, g)
    <2>1. CASE g0.state \in {"ACKRCVD", "ACKSENT"}
      <3>1. g = Goto(g0, "REQSENT") BY <2>1
      <3> HIDE DEF g
      <3> QED
        BY <2>1, <3>1, GotoFields
           DEF Step, Safe, SameBooks, States, Negotiating, Waiting
    <2>2. CASE g0.state = "OPENED"
      <3> DEFINE c == Call(g0, "down")
      <3>1. c \in Rec /\ ~c.upper
        BY CallLemma DEF Callbacks
      <3>2. a = Goto(c, "STOPPING")
        OBVIOUS
      <3>3. g = PPP_TIMEOUT(b)
        BY <2>2
      <3> HIDE DEF c, a, g
      <3>4. a \in Rec /\ ~a.upper /\ a.state = "STOPPING"
        BY <3>1, <3>2, GotoFields DEF SameBooks, States
      <3>5. b \in Rec /\ ~b.upper /\ b.state = "STOPPING" /\ b.retransmits = 0
        BY <3>4, CountLemma DEF SameBooks
      <3> HIDE DEF b
      <3>6. /\ g \in Rec /\ ~g.upper /\ g.state = "STOPPING" /\ g.retransmits = 0
            /\ g.timers = b.timers + 1 /\ b.timers \in Nat
        BY <3>3, <3>5, TimeoutFields DEF SameBooks, Rec
      <3> QED BY <3>6, FsmAssumption DEF Step, Safe, Negotiating, Waiting
    <2>3. CASE g0.state \notin {"ACKRCVD", "ACKSENT", "OPENED"}
      <3>1. g = g0 BY <2>3
      <3> HIDE DEF g
      <3> QED BY <3>1, StutterLemma
    <2> QED BY <2>1, <2>2, <2>3
  <1> HIDE DEF g
  <1>3. h \in Rec /\ Safe(h) /\ SameBooks(g, h)
    BY <1>2, TermackLemma DEF Step
  <1> HIDE DEF h
  <1> QED BY <1>1, <1>2, <1>3 DEF Step, SameBooks

\* fsm_rtermack() keeps the automaton safe, in OPENED too.
LEMMA RtermackLemma ==
    ASSUME NEW g \in Rec, Safe(g) PROVE Step(g, fsm_rtermack(g))
  <1>1. CASE g.state \in {"CLOSING", "STOPPING"}
    <2> DEFINE s == IF g.state = "CLOSING" THEN "CLOSED" ELSE "STOPPED"
    <2>1. fsm_rtermack(g) = Call(Goto(g, s), "finished")
      BY <1>1 DEF fsm_rtermack
    <2>2. ~g.upper /\ g.retransmits >= 0
      BY <1>1 DEF Safe
    <2> QED BY <2>1, <2>2, FinishedLemma
  <1>2. CASE g.state = "ACKRCVD"
    <2>1. fsm_rtermack(g) = Goto(g, "REQSENT")
      BY <1>2 DEF fsm_rtermack
    <2> QED
      BY <1>2, <2>1, GotoFields
         DEF Step, Safe, SameBooks, States, Negotiating, Waiting
  <1>3. CASE g.state = "OPENED"
    <2> DEFINE h == Renegotiate(g)
    <2>1. fsm_rtermack(g) = h
      BY <1>3 DEF fsm_rtermack
    <2>2. /\ h \in Rec /\ h.state = "OPENED" /\ h.timers = g.timers + 1
          /\ h.retransmits = MaxConfReqs - 1 /\ ~h.upper /\ g.timers \in Nat
      BY <1>3, RenegotiateLemma DEF Rec
    <2> HIDE DEF h
    <2>3. Safe(h)
      BY <2>2, RequestSafe
    <2> QED BY <2>1, <2>2, <2>3 DEF Step
  <1>4. CASE g.state \notin {"CLOSING", "STOPPING", "ACKRCVD", "OPENED"}
    BY <1>4, StutterLemma DEF fsm_rtermack
  <1> QED BY <1>1, <1>2, <1>3, <1>4

\* fsm_rcoderej() keeps the automaton safe.
LEMMA RcoderejLemma ==
    ASSUME NEW g \in Rec, Safe(g) PROVE Step(g, fsm_rcoderej(g))
  <1>1. CASE g.state = "ACKRCVD"
    <2>1. fsm_rcoderej(g) = Goto(g, "REQSENT")
      BY <1>1 DEF fsm_rcoderej
    <2> QED
      BY <1>1, <2>1, GotoFields
         DEF Step, Safe, SameBooks, States, Negotiating, Waiting
  <1>2. CASE g.state # "ACKRCVD"
    BY <1>2, StutterLemma DEF fsm_rcoderej
  <1> QED BY <1>1, <1>2

\* A Code-Reject that we send uses an identifier and nothing else.
LEMMA UnknownCodeLemma ==
    ASSUME NEW g \in Rec, Safe(g) PROVE Step(g, UnknownCode(g))
  <1> DEFINE a == [g EXCEPT !.id = NextId(g.id)]
             h == fsm_sdata(a, "CODEREJ", NextId(g.id), Malformed)
  <1>1. UnknownCode(g) = h
    BY DEF UnknownCode
  <1>2. NextId(g.id) \in Ids /\ "CODEREJ" \in Codes \ Verdicts
    BY IdsLemma DEF Rec, Codes, Verdicts
  <1>3. /\ a \in Rec /\ a.state = g.state /\ a.timers = g.timers
        /\ a.retransmits = g.retransmits /\ SameBooks(g, a)
    BY <1>2 DEF Rec, SameBooks
  <1> HIDE DEF a
  <1>4. Malformed \in CI \cup {Malformed}
    OBVIOUS
  <1>5. /\ h \in Rec /\ h.state = a.state /\ h.timers = a.timers
        /\ h.retransmits = a.retransmits /\ SameBooks(a, h)
    BY <1>2, <1>3, <1>4, SdataLemma DEF SameBooks
  <1> HIDE DEF h
  <1> QED BY <1>1, <1>3, <1>5 DEF Step, Safe, SameBooks

\* fsm_input() keeps the automaton safe, whatever packet arrives.
LEMMA InputLemma ==
    ASSUME NEW g \in Rec, Safe(g), NEW id \in Ids,
           NEW ci \in CI \cup {Malformed}, NEW nci \in CI \cup {Malformed},
           NEW v \in Verdicts, NEW code \in Codes \cup {"UNKNOWN"}
    PROVE  Step(g, fsm_input(g, Packet(code, id, ci), v, nci))
  <1> DEFINE p == Packet(code, id, ci)
  <1>0. p.code = code /\ p.id = id /\ p.ci = ci
    BY DEF Packet
  <1> HIDE DEF p
  <1>1. CASE g.state \in {"INITIAL", "STARTING"}
    <2>1. fsm_input(g, p, v, nci) = g BY <1>1 DEF fsm_input
    <2> QED BY <2>1, StutterLemma DEF p
  <1>2. CASE g.state \notin {"INITIAL", "STARTING"}
    <2> USE <1>0, <1>2
    <2>1. CASE code = "CONFREQ"
      <3>1. fsm_input(g, p, v, nci) = fsm_rconfreq(g, id, ci, v, nci)
        BY <2>1 DEF fsm_input
      <3> QED BY <3>1, RconfreqLemma DEF p
    <2>2. CASE code = "CONFACK"
      <3>1. fsm_input(g, p, v, nci) = fsm_rconfack(g, id, ci)
        BY <2>2 DEF fsm_input
      <3> QED BY <3>1, RconfackLemma DEF p
    <2>3. CASE code \in {"CONFNAK", "CONFREJ"}
      <3>1. fsm_input(g, p, v, nci) = fsm_rconfnakrej(g, id, ci)
        BY <2>3 DEF fsm_input
      <3> QED BY <3>1, RconfnakrejLemma DEF p
    <2>4. CASE code = "TERMREQ"
      <3>1. fsm_input(g, p, v, nci) = fsm_rtermreq(g, id)
        BY <2>4 DEF fsm_input
      <3> QED BY <3>1, RtermreqLemma DEF p
    <2>5. CASE code = "TERMACK"
      <3>1. fsm_input(g, p, v, nci) = fsm_rtermack(g)
        BY <2>5 DEF fsm_input
      <3> QED BY <3>1, RtermackLemma DEF p
    <2>6. CASE code = "CODEREJ"
      <3>1. fsm_input(g, p, v, nci) = fsm_rcoderej(g)
        BY <2>6 DEF fsm_input
      <3> QED BY <3>1, RcoderejLemma DEF p
    <2>7. CASE code = "UNKNOWN"
      <3>1. fsm_input(g, p, v, nci) = UnknownCode(g)
        BY <2>7 DEF fsm_input
      <3> QED BY <3>1, UnknownCodeLemma DEF p
    <2> QED
      BY <2>1, <2>2, <2>3, <2>4, <2>5, <2>6, <2>7 DEF Codes, Verdicts
  <1> QED BY <1>1, <1>2

-----------------------------------------------------------------------------
(***************************************************************************)
(* What the protocol above is told: a handler makes one callback at the    *)
(* most, up() only at the end of a negotiation, and the upper layer never  *)
(* goes up or down without one.                                            *)
(***************************************************************************)
TellsDown(g, h) ==
    /\ h.flags = g.flags
    /\ \/ h.calls = g.calls /\ (h.upper <=> g.upper)
       \/ h.calls = Append(g.calls, "down") /\ ~h.upper
       \/ \E c \in {"starting", "finished"} : h.calls = Append(g.calls, c) /\ (h.upper <=> g.upper)

TellsUp(g, h) ==
    /\ h.flags = g.flags
    /\ h.calls = Append(g.calls, "up") /\ h.upper
    /\ ~g.upper /\ g.state \in Negotiating

Lower == {"INITIAL", "STARTING"}

\* StartNegotiation makes no callback.
LEMMA StartTells ==
    ASSUME NEW g \in Rec
    PROVE  LET h == StartNegotiation(g) IN
           h.flags = g.flags /\ h.calls = g.calls /\ (h.upper <=> g.upper)
<1>1. CASE "SILENT" \in g.flags
  BY <1>1, GotoFields DEF StartNegotiation, SameBooks, States
<1>2. CASE "SILENT" \notin g.flags
  <2> DEFINE k == fsm_sconfreq(g, FALSE)
  <2>1. k \in Rec /\ k.flags = g.flags /\ k.calls = g.calls /\ (k.upper <=> g.upper)
    BY SconfreqLemma
  <2> HIDE DEF k
  <2>2. StartNegotiation(g) = Goto(k, "REQSENT")
    BY <1>2 DEF StartNegotiation, k
  <2> QED BY <2>1, <2>2, GotoFields DEF SameBooks, States
<1> QED
  BY <1>1, <1>2

\* fsm_lowerup() makes no callback.
LEMMA LowerupTells ==
    ASSUME NEW g \in Rec
    PROVE  LET h == fsm_lowerup(g) IN
           h.flags = g.flags /\ h.calls = g.calls /\ (h.upper <=> g.upper)
<1>1. CASE g.state = "INITIAL"
  BY <1>1, GotoFields DEF fsm_lowerup, SameBooks, States
<1>2. CASE g.state = "STARTING"
  BY <1>2, StartTells DEF fsm_lowerup
<1>3. CASE g.state \notin Lower
  BY <1>3 DEF fsm_lowerup, Lower
<1> QED
  BY <1>1, <1>2, <1>3 DEF Lower

\* fsm_lowerdown() leaves the automaton without its lower layer.
LEMMA LowerdownTells ==
    ASSUME NEW g \in Rec, Safe(g)
    PROVE  LET h == fsm_lowerdown(g) IN
           /\ TellsDown(g, h) /\ h.state \in Lower
           /\ g.state \in Lower => h = g
<1> USE DEF Lower
<1>1. CASE g.state = "CLOSED"
  BY <1>1, GotoFields DEF fsm_lowerdown, TellsDown, SameBooks, States, Negotiating
<1>2. CASE g.state = "STOPPED"
  <2> DEFINE k == Goto(g, "STARTING")
  <2>1. k \in Rec /\ SameBooks(g, k) /\ k.state = "STARTING"
    BY GotoFields DEF States
  <2> HIDE DEF k
  <2>2. fsm_lowerdown(g) = Call(k, "starting")
    BY <1>2 DEF fsm_lowerdown, k, Negotiating
  <2> QED BY <1>2, <2>1, <2>2, CallLemma DEF TellsDown, SameBooks, Callbacks
<1>3. CASE g.state \in {"CLOSING", "STOPPING"} \cup Negotiating
  <2> DEFINE s == IF g.state = "CLOSING" THEN "INITIAL" ELSE "STARTING"
             k == Goto(g, s)
  <2>1. k \in Rec /\ SameBooks(g, k) /\ k.state = s
    BY GotoFields DEF States
  <2>2. fsm_lowerdown(g) = PPP_UNTIMEOUT(k)
    BY <1>3 DEF fsm_lowerdown, Negotiating
  <2> HIDE DEF k
  <2> QED BY <1>3, <2>1, <2>2, UntimeoutFields DEF TellsDown, SameBooks, Negotiating
<1>4. CASE g.state = "OPENED"
  <2> DEFINE k == Call(g, "down")
  <2>1. k \in Rec /\ ~k.upper /\ k.calls = Append(g.calls, "down") /\ k.flags = g.flags
    BY CallLemma DEF Callbacks
  <2> HIDE DEF k
  <2>2. fsm_lowerdown(g) = Goto(k, "STARTING")
    BY <1>4 DEF fsm_lowerdown, k, Negotiating
  <2> QED BY <1>4, <2>1, <2>2, GotoFields DEF TellsDown, SameBooks, States
<1>5. CASE g.state \in Lower
  BY <1>5 DEF fsm_lowerdown, TellsDown, Negotiating
<1> QED
  BY <1>1, <1>2, <1>3, <1>4, <1>5 DEF Rec, States, Negotiating

\* fsm_open(): without a lower layer the automaton waits for one.
LEMMA OpenTells ==
    ASSUME NEW g \in Rec, Safe(g)
    PROVE  LET h == fsm_open(g) IN
           /\ TellsDown(g, h)
           /\ g.state \in Lower => h.state \in Lower
<1> USE DEF Lower
<1>1. CASE g.state = "INITIAL"
  <2> DEFINE k == Goto(g, "STARTING")
  <2>1. k \in Rec /\ SameBooks(g, k) /\ k.state = "STARTING"
    BY GotoFields DEF States
  <2> HIDE DEF k
  <2>2. fsm_open(g) = Call(k, "starting")
    BY <1>1 DEF fsm_open, k
  <2> QED BY <1>1, <2>1, <2>2, CallLemma DEF TellsDown, SameBooks, Callbacks
<1>2. CASE g.state = "CLOSED"
  <2>1. fsm_open(g) = StartNegotiation(g)
    BY <1>2 DEF fsm_open
  <2> QED BY <1>2, <2>1, StartTells DEF TellsDown
<1>3. CASE g.state \in {"CLOSING", "STOPPED", "OPENED"}
  <2> DEFINE k == IF g.state = "CLOSING" THEN Goto(g, "STOPPING") ELSE g
  <2>1. k \in Rec /\ SameBooks(g, k) /\ Safe(k)
    <3>1. CASE g.state = "CLOSING"
      BY <3>1, GotoFields DEF States, SameBooks, Safe, Waiting, Negotiating
    <3>2. CASE g.state # "CLOSING"
      BY <3>2 DEF SameBooks
    <3> QED BY <3>1, <3>2
  <2>2. fsm_open(g) = IF "RESTART" \in g.flags THEN fsm_lowerup(fsm_lowerdown(k)) ELSE k
    BY <1>3 DEF fsm_open
  <2> HIDE DEF k
  <2> DEFINE m == fsm_lowerdown(k)
  <2>3. TellsDown(k, m) /\ m \in Rec
    BY <2>1, LowerdownTells, LowerdownLemma DEF Step
  <2> HIDE DEF m
  <2> DEFINE n == fsm_lowerup(m)
  <2>4. n.flags = m.flags /\ n.calls = m.calls /\ (n.upper <=> m.upper)
    BY <2>3, LowerupTells
  <2> HIDE DEF n
  <2>5. TellsDown(g, n) /\ TellsDown(g, k)
    BY <2>1, <2>3, <2>4 DEF TellsDown, SameBooks
  <2>6. fsm_open(g) \in {k, n}
    BY <2>2 DEF m, n
  <2> QED BY <1>3, <2>5, <2>6
<1>4. CASE g.state \notin {"INITIAL", "CLOSED", "CLOSING", "STOPPED", "OPENED"}
  BY <1>4 DEF fsm_open, TellsDown
<1> QED
  BY <1>1, <1>2, <1>3, <1>4

\* BeginTermination tells the upper layer first.
LEMMA TerminationTells ==
    ASSUME NEW g \in Rec, Safe(g), NEW s \in {"CLOSING", "STOPPING"}
    PROVE  LET h == BeginTermination(g, s) IN TellsDown(g, h) /\ ~h.upper
<1> DEFINE a == IF g.state = "OPENED" THEN Call(g, "down") ELSE PPP_UNTIMEOUT(g)
           b == [a EXCEPT !.retransmits = MaxTermReqs]
           c == SendTermReq(b)
<1>1. a \in Rec /\ TellsDown(g, a) /\ ~a.upper
  <2>1. CASE g.state = "OPENED"
    BY <2>1, CallLemma DEF Callbacks, TellsDown
  <2>2. CASE g.state # "OPENED"
    BY <2>2, UntimeoutFields DEF Safe, SameBooks, TellsDown
  <2> QED BY <2>1, <2>2
<1>2. BeginTermination(g, s) = Goto(c, s)
  BY DEF BeginTermination
<1>3. MaxTermReqs \in Int /\ s \in States
  BY FsmAssumption DEF States
<1> HIDE DEF a
<1>4. b \in Rec /\ SameBooks(a, b)
  BY <1>1, <1>3, CountLemma
<1> HIDE DEF b
<1>5. c \in Rec /\ SameBooks(b, c)
  BY <1>4, SendTermReqLemma
<1> HIDE DEF c
<1>6. SameBooks(c, Goto(c, s))
  BY <1>3, <1>5, GotoFields
<1> QED
  BY <1>1, <1>2, <1>4, <1>5, <1>6 DEF SameBooks, TellsDown

\* fsm_close() leaves the upper layer down.
LEMMA CloseTells ==
    ASSUME NEW g \in Rec, Safe(g)
    PROVE  LET h == fsm_close(g) IN
           /\ TellsDown(g, h) /\ ~h.upper
           /\ g.state \in Lower => h.state = "INITIAL"
<1> USE DEF Lower
<1>1. CASE g.state \in {"STARTING", "STOPPED", "STOPPING"}
  <2> DEFINE s == IF g.state = "STARTING" THEN "INITIAL" ELSE IF g.state = "STOPPED" THEN "CLOSED" ELSE "CLOSING"
  <2>1. fsm_close(g) = Goto(g, s)
    BY <1>1 DEF fsm_close, Negotiating
  <2>2. s \in States
    BY DEF States
  <2> QED BY <1>1, <2>1, <2>2, GotoFields DEF TellsDown, SameBooks, Safe
<1>2. CASE g.state \in Negotiating \cup {"OPENED"}
  <2>1. fsm_close(g) = BeginTermination(g, "CLOSING")
    BY <1>2 DEF fsm_close, Negotiating
  <2> QED BY <1>2, <2>1, TerminationTells DEF Negotiating
<1>3. CASE g.state \notin {"STARTING", "STOPPED", "STOPPING", "OPENED"} \cup Negotiating
  BY <1>3 DEF fsm_close, TellsDown, Safe
<1> QED
  BY <1>1, <1>2, <1>3

\* fsm_protreject() in OPENED.
LEMMA ProtrejectTells ==
    ASSUME NEW g \in Rec, Safe(g), g.state = "OPENED"
    PROVE  TellsDown(g, fsm_protreject(g)) /\ ~fsm_protreject(g).upper
<1>1. fsm_protreject(g) = BeginTermination(g, "STOPPING")
  BY DEF fsm_protreject, Negotiating
<1> QED
  BY <1>1, TerminationTells

\* fsm_timeout()
LEMMA TimeoutTells ==
    ASSUME NEW g0 \in Rec, Safe(g0)
    PROVE  LET h == fsm_timeout(g0) IN
           /\ TellsDown(g0, h)
           /\ g0.state \in Lower => h.state = g0.state
<1> DEFINE g == PPP_UNTIMEOUT(g0)
<1>1. g \in Rec /\ SameBooks(g0, g) /\ g.state = g0.state
  BY UntimeoutFields
<1> HIDE DEF g
<1>2. ASSUME NEW s \in {"CLOSED", "STOPPED"} PROVE TellsDown(g0, Call(Goto(g, s), "finished"))
  <2> DEFINE k == Goto(g, s)
  <2>1. k \in Rec /\ SameBooks(g, k)
    BY <1>1, GotoFields DEF States
  <2> HIDE DEF k
  <2>2. TellsDown(g0, Call(k, "finished"))
    BY <1>1, <2>1, CallLemma DEF TellsDown, SameBooks, Callbacks
  <2> QED BY <2>2 DEF k
<1>3. CASE g.state \in {"CLOSING", "STOPPING"}
  <2>1. CASE Exhausted(g)
    <3> DEFINE s == IF g.state = "CLOSING" THEN "CLOSED" ELSE "STOPPED"
    <3>1. fsm_timeout(g0) = Call(Goto(g, s), "finished")
      BY <1>3, <2>1 DEF fsm_timeout, g, Negotiating
    <3> QED BY <1>1, <1>2, <1>3, <3>1 DEF Lower
  <2>2. CASE ~Exhausted(g)
    <3>1. fsm_timeout(g0) = SendTermReq(g)
      BY <1>3, <2>2 DEF fsm_timeout, g, Negotiating
    <3> QED BY <1>1, <1>3, <3>1, SendTermReqLemma DEF Lower, TellsDown, SameBooks
  <2> QED BY <2>1, <2>2
<1>4. CASE g.state \in Negotiating
  <2>1. CASE Exhausted(g)
    <3>1. fsm_timeout(g0) \in {Goto(g, "STOPPED"), Call(Goto(g, "STOPPED"), "finished")}
      BY <1>4, <2>1 DEF fsm_timeout, g, Negotiating
    <3>2. TellsDown(g0, Goto(g, "STOPPED"))
      BY <1>1, GotoFields DEF TellsDown, SameBooks, States
    <3> QED BY <1>1, <1>2, <1>4, <3>1, <3>2 DEF Lower, Negotiating
  <2>2. CASE ~Exhausted(g)
    <3> DEFINE k == fsm_sconfreq(g, TRUE)
    <3>1. fsm_timeout(g0) \in {k, Goto(k, "REQSENT")}
      BY <1>4, <2>2 DEF fsm_timeout, g, Negotiating
    <3>2. k \in Rec /\ k.flags = g.flags /\ k.calls = g.calls /\ (k.upper <=> g.upper)
      BY <1>1, SconfreqLemma
    <3> HIDE DEF k
    <3>3. TellsDown(g0, k) /\ TellsDown(g0, Goto(k, "REQSENT"))
      BY <1>1, <3>2, GotoFields DEF TellsDown, SameBooks, States
    <3> QED BY <1>1, <1>4, <3>1, <3>3 DEF Lower, Negotiating
  <2> QED BY <2>1, <2>2
<1>5. CASE g.state \notin {"CLOSING", "STOPPING"} \cup Negotiating
  <2>1. fsm_timeout(g0) = g
    BY <1>5 DEF fsm_timeout, g
  <2> QED BY <1>1, <2>1 DEF TellsDown, SameBooks
<1> QED
  BY <1>3, <1>4, <1>5

\* Sending a packet tells nobody.
LEMMA SdataTells ==
    ASSUME NEW g \in Rec, NEW code \in Codes, NEW id \in Ids, NEW ci \in CI \cup {Malformed}
    PROVE  TellsDown(g, fsm_sdata(g, code, id, ci))
  BY SdataLemma DEF TellsDown

\* fsm_rconfreq(): up() only for the Ack that a negotiation still needed.
LEMMA RconfreqTells ==
    ASSUME NEW g0 \in Rec, Safe(g0), g0.state \notin Lower,
           NEW id \in Ids, NEW ci \in CI \cup {Malformed},
           NEW nci \in CI \cup {Malformed}, NEW v \in Verdicts
    PROVE  LET h == fsm_rconfreq(g0, id, ci, v, nci) IN TellsDown(g0, h) \/ TellsUp(g0, h)
<1>1. CASE g0.state = "CLOSED"
  <2>1. fsm_rconfreq(g0, id, ci, v, nci) = fsm_sdata(g0, "TERMACK", id, Malformed)
    BY <1>1 DEF fsm_rconfreq
  <2> QED BY <2>1, SdataTells DEF Codes
<1>2. CASE g0.state \in {"CLOSING", "STOPPING"}
  BY <1>2 DEF fsm_rconfreq, TellsDown
<1>3. CASE g0.state \notin {"CLOSED", "CLOSING", "STOPPING"}
  <2> DEFINE g == CASE g0.state = "OPENED"  -> Renegotiate(g0)
                    [] g0.state = "STOPPED" -> Goto(fsm_sconfreq(g0, FALSE), "REQSENT")
                    [] OTHER -> g0
             a == IF v = "CONFACK" THEN ci ELSE nci
             b == IF v = "CONFACK" THEN ci ELSE Malformed
             h == [fsm_sdata(g, v, id, a) EXCEPT !.ho = b]
             up == IF g.state = "ACKRCVD" THEN Call(Goto(PPP_UNTIMEOUT(h), "OPENED"), "up") ELSE Goto(h, "ACKSENT")
             no == IF g.state = "ACKRCVD" THEN h ELSE Goto(h, "REQSENT")
             n == IF v = "CONFNAK" THEN no.nakloops + 1 ELSE no.nakloops
  <2>1. fsm_rconfreq(g0, id, ci, v, nci) =
          IF v = "CONFACK" THEN [up EXCEPT !.nakloops = 0] ELSE [no EXCEPT !.nakloops = n]
    BY <1>3 DEF fsm_rconfreq
  <2>2. g \in Rec /\ TellsDown(g0, g) /\ (g.state = "ACKRCVD" => g = g0)
    <3>1. CASE g0.state = "OPENED"
      <4>1. g = Renegotiate(g0)
        BY <3>1
      <4> HIDE DEF g
      <4> QED BY <3>1, <4>1, RenegotiateLemma DEF TellsDown
    <3>2. CASE g0.state = "STOPPED"
      <4> DEFINE k == fsm_sconfreq(g0, FALSE)
      <4>1. g = Goto(k, "REQSENT")
        BY <3>2
      <4>2. k \in Rec /\ k.flags = g0.flags /\ k.calls = g0.calls /\ (k.upper <=> g0.upper)
        BY SconfreqLemma
      <4> HIDE DEF g, k
      <4> QED BY <4>1, <4>2, GotoFields DEF TellsDown, SameBooks, States
    <3>3. CASE g0.state \notin {"OPENED", "STOPPED"}
      BY <3>3 DEF TellsDown
    <3> QED BY <3>1, <3>2, <3>3
  <2> HIDE DEF g
  <2>3. h \in Rec /\ h.flags = g.flags /\ h.calls = g.calls /\ (h.upper <=> g.upper)
    BY <2>2, AnswerLemma
  <2> HIDE DEF h
  <2>4. no \in Rec /\ no.flags = g.flags /\ no.calls = g.calls /\ (no.upper <=> g.upper)
    BY <2>3, GotoFields DEF SameBooks, States
  <2> HIDE DEF no
  <2>5. up \in Rec /\ (TellsDown(g0, up) \/ TellsUp(g0, up))
    <3>1. CASE g.state = "ACKRCVD"
      <4> DEFINE k == Goto(PPP_UNTIMEOUT(h), "OPENED")
      <4>1. k \in Rec /\ SameBooks(h, k)
        <5> DEFINE m == PPP_UNTIMEOUT(h)
        <5>1. m \in Rec /\ SameBooks(h, m)
          BY <2>3, UntimeoutFields
        <5> HIDE DEF m
        <5>2. Goto(m, "OPENED") \in Rec /\ SameBooks(h, Goto(m, "OPENED"))
          BY <5>1, GotoFields DEF SameBooks, States
        <5> QED BY <5>2 DEF m
      <4>2. up = Call(k, "up")
        BY <3>1
      <4> HIDE DEF k, up
      <4>3. g = g0 /\ ~g0.upper /\ g0.state \in Negotiating
        BY <2>2, <3>1 DEF Safe, Negotiating
      <4> QED BY <2>3, <4>1, <4>2, <4>3, CallLemma, SMTT(40) DEF TellsUp, SameBooks, Callbacks
    <3>2. CASE g.state # "ACKRCVD"
      <4>1. up = Goto(h, "ACKSENT")
        BY <3>2
      <4> HIDE DEF up
      <4> QED BY <2>2, <2>3, <4>1, GotoFields DEF TellsDown, SameBooks, States
    <3> QED BY <3>1, <3>2
  <2> HIDE DEF up
  <2>6. n \in Nat
    BY <2>4 DEF Rec
  <2>7. SameBooks(up, [up EXCEPT !.nakloops = 0]) /\ SameBooks(no, [no EXCEPT !.nakloops = n])
    <3> HIDE DEF n
    <3> QED BY <2>4, <2>5, <2>6, NakloopsLemma
  <2> HIDE DEF n
  <2> QED BY <2>1, <2>2, <2>4, <2>5, <2>7 DEF TellsDown, TellsUp, SameBooks
<1> QED
  BY <1>1, <1>2, <1>3

\* fsm_rconfack()
LEMMA RconfackTells ==
    ASSUME NEW g0 \in Rec, Safe(g0), NEW id \in Ids, NEW ci \in CI \cup {Malformed}
    PROVE  LET h == fsm_rconfack(g0, id, ci) IN TellsDown(g0, h) \/ TellsUp(g0, h)
<1> DEFINE g == [g0 EXCEPT !.reqid = NoReqid, !.acked = TRUE]
<1>1. g \in Rec /\ g.state = g0.state /\ g.flags = g0.flags /\ g.calls = g0.calls /\ g.upper = g0.upper
  BY IdsLemma DEF Rec
<1>2. CASE ~AckExpected(g0, id, ci)
  BY <1>2 DEF fsm_rconfack, TellsDown
<1>3. CASE AckExpected(g0, id, ci)
  <2> HIDE DEF g
  <2>1. CASE g.state \in {"CLOSED", "STOPPED"}
    <3>1. fsm_rconfack(g0, id, ci) = fsm_sdata(g, "TERMACK", id, Malformed)
      BY <1>3, <2>1 DEF fsm_rconfack, g
    <3> DEFINE k == fsm_sdata(g, "TERMACK", id, Malformed)
    <3>2. TellsDown(g, k)
      <4>1. "TERMACK" \in Codes /\ Malformed \in CI \cup {Malformed}
        BY DEF Codes
      <4> QED BY <1>1, <4>1, SdataTells
    <3> HIDE DEF k
    <3>3. TellsDown(g0, k)
      BY <1>1, <3>2 DEF TellsDown
    <3> QED BY <3>1, <3>3 DEF k
  <2>2. CASE g.state = "REQSENT"
    <3> DEFINE k == Goto(g, "ACKRCVD")
    <3>1. fsm_rconfack(g0, id, ci) = [k EXCEPT !.retransmits = MaxConfReqs]
      BY <1>3, <2>2 DEF fsm_rconfack, g
    <3>2. k \in Rec /\ SameBooks(g, k) /\ MaxConfReqs \in Int
      BY <1>1, GotoFields, FsmAssumption DEF States
    <3> HIDE DEF k
    <3> QED BY <1>1, <3>1, <3>2, CountLemma DEF SameBooks, TellsDown
  <2>3. CASE g.state = "ACKRCVD"
    <3> DEFINE k == fsm_sconfreq(g, FALSE)
    <3>1. fsm_rconfack(g0, id, ci) = Goto(k, "REQSENT")
      BY <1>3, <2>3 DEF fsm_rconfack, g
    <3>2. k \in Rec /\ k.flags = g.flags /\ k.calls = g.calls /\ (k.upper <=> g.upper)
      BY <1>1, SconfreqLemma
    <3> HIDE DEF k
    <3> QED BY <1>1, <3>1, <3>2, GotoFields DEF SameBooks, TellsDown, States
  <2>4. CASE g.state = "ACKSENT"
    <3> DEFINE m == PPP_UNTIMEOUT(g)
               k == Goto(m, "OPENED")
               n == [k EXCEPT !.retransmits = MaxConfReqs]
    <3>1. fsm_rconfack(g0, id, ci) = Call(n, "up")
      BY <1>3, <2>4 DEF fsm_rconfack, g
    <3>2. m \in Rec /\ SameBooks(g, m)
      BY <1>1, UntimeoutFields
    <3> HIDE DEF m
    <3>3. k \in Rec /\ SameBooks(g, k) /\ MaxConfReqs \in Int
      BY <3>2, GotoFields, FsmAssumption DEF SameBooks, States
    <3> HIDE DEF k
    <3>4. n \in Rec /\ SameBooks(k, n)
      BY <3>3, CountLemma
    <3> HIDE DEF n
    <3>5. ~g0.upper /\ g0.state \in Negotiating
      BY <1>1, <2>4 DEF Safe, Negotiating
    <3> QED BY <1>1, <3>1, <3>3, <3>4, <3>5, CallLemma DEF SameBooks, TellsUp, Callbacks
  <2>5. CASE g.state = "OPENED"
    <3> DEFINE k == Renegotiate(g)
    <3>1. fsm_rconfack(g0, id, ci) = Goto(k, "REQSENT")
      BY <1>3, <2>5 DEF fsm_rconfack, g
    <3>2. k \in Rec /\ ~k.upper /\ k.calls = Append(g.calls, "down") /\ k.flags = g.flags
      BY <1>1, RenegotiateLemma
    <3> HIDE DEF k
    <3> QED BY <1>1, <3>1, <3>2, GotoFields DEF SameBooks, TellsDown, States
  <2>6. CASE g.state \notin {"CLOSED", "STOPPED", "REQSENT", "ACKRCVD", "ACKSENT", "OPENED"}
    <3>1. fsm_rconfack(g0, id, ci) = g
      BY <1>3, <2>6 DEF fsm_rconfack, g
    <3> QED BY <1>1, <3>1 DEF TellsDown
  <2> QED BY <2>1, <2>2, <2>3, <2>4, <2>5, <2>6
<1> QED
  BY <1>2, <1>3

\* fsm_rconfnakrej()
LEMMA RconfnakrejTells ==
    ASSUME NEW g0 \in Rec, Safe(g0), NEW id \in Ids, NEW ci \in CI \cup {Malformed}
    PROVE  TellsDown(g0, fsm_rconfnakrej(g0, id, ci))
<1> DEFINE go == IF g0.state = "OPENED" THEN g0.go ELSE ci
           g == [g0 EXCEPT !.reqid = NoReqid, !.go = go]
<1>1. CASE id # g0.reqid \/ ci = Malformed
  BY <1>1 DEF fsm_rconfnakrej, TellsDown
<1>2. CASE id = g0.reqid /\ ci # Malformed
  <2>1. go \in CI
    BY <1>2 DEF Rec
  <2>2. g \in Rec /\ g.state = g0.state /\ g.flags = g0.flags /\ g.calls = g0.calls /\ g.upper = g0.upper
    <3> HIDE DEF go
    <3> QED BY <2>1, IdsLemma DEF Rec
  <2>3. g = [g0 EXCEPT !.reqid = NoReqid, !.go = IF g0.state = "OPENED" THEN @ ELSE ci]
    OBVIOUS
  <2> HIDE DEF g
  <2>4. CASE g.state \in {"CLOSED", "STOPPED"}
    <3>1. fsm_rconfnakrej(g0, id, ci) = fsm_sdata(g, "TERMACK", id, Malformed)
      BY <1>2, <2>3, <2>4 DEF fsm_rconfnakrej
    <3> DEFINE k == fsm_sdata(g, "TERMACK", id, Malformed)
    <3>2. TellsDown(g, k)
      <4>1. "TERMACK" \in Codes /\ Malformed \in CI \cup {Malformed}
        BY DEF Codes
      <4> QED BY <2>2, <4>1, SdataTells
    <3> HIDE DEF k
    <3>3. TellsDown(g0, k)
      BY <2>2, <3>2 DEF TellsDown
    <3> QED BY <3>1, <3>3 DEF k
  <2>5. CASE g.state \in {"REQSENT", "ACKSENT"}
    <3> DEFINE k == PPP_UNTIMEOUT(g)
    <3>1. fsm_rconfnakrej(g0, id, ci) = fsm_sconfreq(k, FALSE)
      BY <1>2, <2>3, <2>5 DEF fsm_rconfnakrej
    <3>2. k \in Rec /\ SameBooks(g, k)
      BY <2>2, UntimeoutFields
    <3> HIDE DEF k
    <3> DEFINE n == fsm_sconfreq(k, FALSE)
    <3>3. n.flags = k.flags /\ n.calls = k.calls /\ (n.upper <=> k.upper)
      BY <3>2, SconfreqLemma
    <3> HIDE DEF n
    <3>4. TellsDown(g0, n)
      BY <2>2, <3>2, <3>3 DEF SameBooks, TellsDown
    <3> QED BY <3>1, <3>4 DEF n
  <2>6. CASE g.state = "ACKRCVD"
    <3> DEFINE k == fsm_sconfreq(g, FALSE)
    <3>1. fsm_rconfnakrej(g0, id, ci) = Goto(k, "REQSENT")
      BY <1>2, <2>3, <2>6 DEF fsm_rconfnakrej
    <3>2. k \in Rec /\ k.flags = g.flags /\ k.calls = g.calls /\ (k.upper <=> g.upper)
      BY <2>2, SconfreqLemma
    <3> HIDE DEF k
    <3> QED BY <2>2, <3>1, <3>2, GotoFields DEF SameBooks, TellsDown, States
  <2>7. CASE g.state = "OPENED"
    <3> DEFINE k == Renegotiate(g)
    <3>1. fsm_rconfnakrej(g0, id, ci) = Goto(k, "REQSENT")
      BY <1>2, <2>3, <2>7 DEF fsm_rconfnakrej
    <3>2. k \in Rec /\ ~k.upper /\ k.calls = Append(g.calls, "down") /\ k.flags = g.flags
      BY <2>2, RenegotiateLemma
    <3> HIDE DEF k
    <3> QED BY <2>2, <3>1, <3>2, GotoFields DEF SameBooks, TellsDown, States
  <2>8. CASE g.state \notin {"CLOSED", "STOPPED", "REQSENT", "ACKRCVD", "ACKSENT", "OPENED"}
    <3>1. fsm_rconfnakrej(g0, id, ci) = g
      BY <1>2, <2>3, <2>8 DEF fsm_rconfnakrej
    <3> QED BY <2>2, <3>1 DEF TellsDown
  <2> QED BY <2>4, <2>5, <2>6, <2>7, <2>8
<1> QED
  BY <1>1, <1>2

\* fsm_rtermreq()
LEMMA RtermreqTells ==
    ASSUME NEW g0 \in Rec, Safe(g0), NEW id \in Ids
    PROVE  TellsDown(g0, fsm_rtermreq(g0, id))
<1> DEFINE k == Goto(Call(g0, "down"), "STOPPING")
           m == [k EXCEPT !.retransmits = 0]
           g == CASE g0.state \in {"ACKRCVD", "ACKSENT"} -> Goto(g0, "REQSENT")
                  [] g0.state = "OPENED" -> PPP_TIMEOUT(m)
                  [] OTHER -> g0
<1>1. fsm_rtermreq(g0, id) = fsm_sdata(g, "TERMACK", id, Malformed)
  BY DEF fsm_rtermreq
<1>2. g \in Rec /\ TellsDown(g0, g)
  <2>1. CASE g0.state \in {"ACKRCVD", "ACKSENT"}
    <3>1. g = Goto(g0, "REQSENT")
      BY <2>1
    <3> HIDE DEF g
    <3> QED BY <3>1, GotoFields DEF TellsDown, SameBooks, States
  <2>2. CASE g0.state = "OPENED"
    <3>1. g = PPP_TIMEOUT(m)
      BY <2>2
    <3> HIDE DEF g
    <3>2. k \in Rec /\ ~k.upper /\ k.calls = Append(g0.calls, "down") /\ k.flags = g0.flags
      <4> DEFINE n == Call(g0, "down")
      <4>1. n \in Rec /\ ~n.upper /\ n.calls = Append(g0.calls, "down") /\ n.flags = g0.flags
        BY CallLemma DEF Callbacks
      <4> HIDE DEF n
      <4>2. LET x == Goto(n, "STOPPING") IN
            x \in Rec /\ ~x.upper /\ x.calls = Append(g0.calls, "down") /\ x.flags = g0.flags
        BY <4>1, GotoFields DEF SameBooks, States
      <4> QED BY <4>2 DEF n
    <3> HIDE DEF k
    <3>3. m \in Rec /\ SameBooks(k, m)
      <4>1. 0 \in Int
        OBVIOUS
      <4> QED BY <3>2, <4>1, CountLemma
    <3> HIDE DEF m
    <3> QED BY <3>1, <3>2, <3>3, TimeoutFields DEF TellsDown, SameBooks
  <2>3. CASE g0.state \notin {"ACKRCVD", "ACKSENT", "OPENED"}
    BY <2>3 DEF TellsDown
  <2> QED BY <2>1, <2>2, <2>3
<1> HIDE DEF g
<1>3. LET h == fsm_sdata(g, "TERMACK", id, Malformed) IN
      h.flags = g.flags /\ h.calls = g.calls /\ (h.upper <=> g.upper)
  BY <1>2, SdataLemma DEF Codes
<1> QED
  BY <1>1, <1>2, <1>3 DEF TellsDown

\* fsm_rtermack()
LEMMA RtermackTells ==
    ASSUME NEW g \in Rec, Safe(g)
    PROVE  TellsDown(g, fsm_rtermack(g))
<1>1. CASE g.state \in {"CLOSING", "STOPPING"}
  <2> DEFINE s == IF g.state = "CLOSING" THEN "CLOSED" ELSE "STOPPED"
             k == Goto(g, s)
  <2>1. fsm_rtermack(g) = Call(k, "finished")
    BY <1>1 DEF fsm_rtermack
  <2>2. k \in Rec /\ SameBooks(g, k)
    BY GotoFields DEF States
  <2> HIDE DEF k
  <2> QED BY <2>1, <2>2, CallLemma DEF TellsDown, SameBooks, Callbacks
<1>2. CASE g.state = "ACKRCVD"
  BY <1>2, GotoFields DEF fsm_rtermack, TellsDown, SameBooks, States
<1>3. CASE g.state = "OPENED"
  BY <1>3, RenegotiateLemma DEF fsm_rtermack, TellsDown
<1>4. CASE g.state \notin {"CLOSING", "STOPPING", "ACKRCVD", "OPENED"}
  BY <1>4 DEF fsm_rtermack, TellsDown
<1> QED
  BY <1>1, <1>2, <1>3, <1>4

\* fsm_input(): without a lower layer nothing happens.
LEMMA InputTells ==
    ASSUME NEW g \in Rec, Safe(g), NEW id \in Ids,
           NEW ci \in CI \cup {Malformed}, NEW nci \in CI \cup {Malformed}, NEW v \in Verdicts,
           NEW code \in {"CONFREQ", "CONFACK", "CONFNAK", "CONFREJ", "TERMREQ", "TERMACK"}
    PROVE  LET h == fsm_input(g, Packet(code, id, ci), v, nci) IN
           /\ TellsDown(g, h) \/ TellsUp(g, h)
           /\ g.state \in Lower => h = g
<1> DEFINE p == Packet(code, id, ci)
<1>0. p.code = code /\ p.id = id /\ p.ci = ci
  BY DEF Packet
<1> HIDE DEF p
<1>1. CASE g.state \in Lower
  <2>1. fsm_input(g, p, v, nci) = g
    BY <1>1 DEF fsm_input, Lower
  <2> QED BY <2>1 DEF p, TellsDown
<1>2. CASE g.state \notin Lower
  <2> USE <1>0, <1>2 DEF Lower
  <2>1. CASE code = "CONFREQ"
    <3>1. fsm_input(g, p, v, nci) = fsm_rconfreq(g, id, ci, v, nci)
      BY <2>1 DEF fsm_input
    <3> QED BY <3>1, RconfreqTells DEF p
  <2>2. CASE code = "CONFACK"
    <3>1. fsm_input(g, p, v, nci) = fsm_rconfack(g, id, ci)
      BY <2>2 DEF fsm_input
    <3> QED BY <3>1, RconfackTells DEF p
  <2>3. CASE code \in {"CONFNAK", "CONFREJ"}
    <3>1. fsm_input(g, p, v, nci) = fsm_rconfnakrej(g, id, ci)
      BY <2>3 DEF fsm_input
    <3> QED BY <3>1, RconfnakrejTells DEF p
  <2>4. CASE code = "TERMREQ"
    <3>1. fsm_input(g, p, v, nci) = fsm_rtermreq(g, id)
      BY <2>4 DEF fsm_input
    <3> QED BY <3>1, RtermreqTells DEF p
  <2>5. CASE code = "TERMACK"
    <3>1. fsm_input(g, p, v, nci) = fsm_rtermack(g)
      BY <2>5 DEF fsm_input
    <3> QED BY <3>1, RtermackTells DEF p
  <2> QED BY <2>1, <2>2, <2>3, <2>4, <2>5
<1> QED
  BY <1>1, <1>2

(***************************************************************************)
(* The automaton.                                                          *)
(***************************************************************************)
FsmInv == TypeOK /\ Safe(fsm)

\* fsm_init() makes a safe automaton.
LEMMA FsmInitLemma == FsmInit => FsmInv
  <1> SUFFICES ASSUME NEW s \in Settings, NEW id \in Ids,
                      fsm = fsm_init(s.flags, s.want, id)
               PROVE  FsmInv
    BY DEF FsmInit
  <1>1. 0 \in Ids
    BY FsmAssumption DEF Ids
  <1>2. TypeOK
    BY <1>1 DEF TypeOK, FsmRecord, fsm_init, Settings, States
  <1>3. Safe(fsm)
    BY DEF fsm_init, Safe, Negotiating, Waiting
  <1> QED BY <1>2, <1>3 DEF FsmInv

\* An automaton between two handlers is one.
LEMMA FsmRecLemma == TypeOK => fsm \in Rec
  <1>1. <<>> \in Seq(FsmPackets) /\ <<>> \in Seq(Callbacks)
    OBVIOUS
  <1>2. TypeOK => fsm \in FsmRecord
    BY DEF TypeOK
  <1> QED BY <1>1, <1>2 DEF FsmRecord, Rec

\* Packets and callbacks leave the automaton after a handler.
LEMMA FsmEmitLemma ==
    ASSUME FsmInv, NEW g, Step(fsm, g), Emit(g)
    PROVE  FsmInv' /\ (fsm.upper /\ fsm'.upper => fsm'.go = fsm.go /\ fsm'.ho = fsm.ho)
  <1>1. g \in Rec /\ Safe(g) /\ (fsm.upper /\ g.upper => g.go = fsm.go /\ g.ho = fsm.ho)
    BY DEF Step
  <1>2. fsm' = [g EXCEPT !.out = <<>>, !.calls = <<>>]
    BY DEF Emit
  <1>3. fsm' \in FsmRecord
    BY <1>1, <1>2 DEF Rec, FsmRecord
  <1>4. /\ fsm'.state = g.state /\ fsm'.timers = g.timers
        /\ fsm'.retransmits = g.retransmits /\ fsm'.upper = g.upper
        /\ fsm'.acked = g.acked /\ fsm'.acking = g.acking
        /\ fsm'.go = g.go /\ fsm'.ho = g.ho
    BY <1>1, <1>2 DEF Rec
  <1>5. Safe(fsm')
    BY <1>1, <1>4 DEF Safe
  <1> QED BY <1>1, <1>3, <1>4, <1>5 DEF FsmInv, TypeOK

\* Every action keeps the invariant, and the options of a link that stays up.
LEMMA FsmNextLemma ==
    ASSUME FsmInv, [FsmNext]_fsm
    PROVE  FsmInv' /\ (fsm.upper /\ fsm'.upper => fsm'.go = fsm.go /\ fsm'.ho = fsm.ho)
  <1>0. fsm \in Rec /\ Safe(fsm)
    BY FsmRecLemma DEF FsmInv
  <1>1. CASE LowerUp
    BY <1>0, <1>1, LowerupLemma, FsmEmitLemma DEF LowerUp
  <1>2. CASE LowerDown
    BY <1>0, <1>2, LowerdownLemma, FsmEmitLemma DEF LowerDown
  <1>3. CASE Open
    BY <1>0, <1>3, OpenLemma, FsmEmitLemma DEF Open
  <1>4. CASE Close
    BY <1>0, <1>4, CloseLemma, FsmEmitLemma DEF Close
  <1>5. CASE ProtReject
    BY <1>0, <1>5, ProtrejectLemma, FsmEmitLemma DEF ProtReject
  <1>6. CASE Timeout
    BY <1>0, <1>6, TimeoutHandlerLemma, FsmEmitLemma DEF Timeout
  <1>7. CASE InputConfReq
    <2> PICK id \in Ids, ci \in CI \cup {Malformed}, v \in Verdicts, nci \in CI :
          Emit(fsm_input(fsm, Packet("CONFREQ", id, ci), v, nci))
      BY <1>7 DEF InputConfReq
    <2>1. "CONFREQ" \in Codes \cup {"UNKNOWN"}
      BY DEF Codes
    <2>2. Step(fsm, fsm_input(fsm, Packet("CONFREQ", id, ci), v, nci))
      BY <1>0, <2>1, InputLemma
    <2> QED BY <2>2, FsmEmitLemma
  <1>8. CASE InputOther
    <2> PICK code \in (Codes \ {"CONFREQ"}) \cup {"UNKNOWN"}, id \in Ids,
             ci \in CI \cup {Malformed} :
          Emit(fsm_input(fsm, Packet(code, id, ci), "CONFREJ", Malformed))
      BY <1>8 DEF InputOther
    <2>1. "CONFREJ" \in Verdicts /\ Malformed \in CI \cup {Malformed}
      BY DEF Verdicts
    <2>2. Step(fsm, fsm_input(fsm, Packet(code, id, ci), "CONFREJ", Malformed))
      BY <1>0, <2>1, InputLemma
    <2> QED BY <2>2, FsmEmitLemma
  <1>9. CASE UNCHANGED fsm
    BY <1>9 DEF FsmInv, TypeOK, Safe
  <1> QED
    BY <1>1, <1>2, <1>3, <1>4, <1>5, <1>6, <1>7, <1>8, <1>9 DEF FsmNext

\* The inductive invariant holds of every behaviour of the automaton.
THEOREM FsmInvariant == FsmSpec => []FsmInv
  <1>1. FsmInit => FsmInv
    BY FsmInitLemma
  <1>2. FsmInv /\ [FsmNext]_fsm => FsmInv'
    BY FsmNextLemma
  <1> QED BY <1>1, <1>2, PTL DEF FsmSpec

\* The C struct keeps its shape: identifiers within a u_char, counters in Nat.
THEOREM TypeCorrect == FsmSpec => []TypeOK
  <1>1. FsmInv => TypeOK
    BY DEF FsmInv
  <1> QED BY <1>1, FsmInvariant, PTL

\* fsm.c never waits for the peer without a restart timer on the callout list.
THEOREM TimerAlwaysArmed == FsmSpec => []TimerArmed
  <1>1. FsmInv => TimerArmed
    BY DEF FsmInv, Safe, TimerArmed
  <1> QED BY <1>1, FsmInvariant, PTL

\* fsm.c tells the upper layer up() only after both Acks, and down() before
\* either of them is given up.
THEOREM UpAfterBothAcks == FsmSpec => []UpMeansAgreed
  <1>1. FsmInv => UpMeansAgreed
    BY DEF FsmInv, Safe, UpMeansAgreed
  <1> QED BY <1>1, FsmInvariant, PTL

\* The restart counter of fsm.c stays within what a restart loads.
THEOREM RestartsBounded == FsmSpec => []RestartBudget
  <1>1. FsmInv => RestartBudget
    BY DEF FsmInv, Safe, RestartBudget
  <1> QED BY <1>1, FsmInvariant, PTL

\* The negotiated options do not change while the upper layer is up.
THEOREM OptionsFixedWhileUp == FsmSpec => OptionsStable
  <1>1. FsmInv /\ [FsmNext]_fsm =>
          [fsm.upper /\ fsm'.upper => fsm'.go = fsm.go /\ fsm'.ho = fsm.ho]_fsm
    BY FsmNextLemma
  <1> QED BY <1>1, FsmInvariant, PTL DEF FsmSpec, OptionsStable

-----------------------------------------------------------------------------
(***************************************************************************)
(* The authentication protocols.                                           *)
(***************************************************************************)
AuthStates == {"INITIAL", "CLOSED", "PENDING", "LISTEN", "RESPONSE", "OPEN", "INITIAL_CHAL",
               "RECHALLENGE", "BADAUTH", "AUTHREQ"}
Reports == {"peer_fail", "with_fail"} \cup AuthBits

AuthRec ==
    [chapC : AuthStates, chapS : AuthStates, chalTx : Nat,
     upapC : AuthStates, upapS : AuthStates, upapTx : Nat,
     challenge : Nat, response : Nat, rechallenge : Nat, upap : Nat, calls : Seq(Reports)]

Challenging == {"INITIAL_CHAL", "RECHALLENGE"}

\* A protocol that waits for an answer has a timer.
AuthOK(a) ==
    /\ a \in AuthRec
    /\ a.chapS \in Challenging => a.challenge > 0
    /\ a.upapC = "AUTHREQ" => a.upap > 0

\* The names of the states.
LEMMA StatesIn ==
    /\ "INITIAL" \in AuthStates /\ "CLOSED" \in AuthStates /\ "PENDING" \in AuthStates
    /\ "LISTEN" \in AuthStates /\ "RESPONSE" \in AuthStates /\ "OPEN" \in AuthStates
    /\ "INITIAL_CHAL" \in AuthStates /\ "RECHALLENGE" \in AuthStates
    /\ "BADAUTH" \in AuthStates /\ "AUTHREQ" \in AuthStates
  BY DEF AuthStates

\* What matters of a new state of a protocol.
LEMMA ChapState ==
    ASSUME NEW a \in AuthRec, a.upapC = "AUTHREQ" => a.upap > 0, NEW s \in AuthStates, s \notin Challenging
    PROVE  AuthOK([a EXCEPT !.chapS = s])
<1> DEFINE b == [a EXCEPT !.chapS = s]
<1>1. b \in AuthRec
  BY DEF AuthRec
<1>2. b.chapS = s /\ b.upapC = a.upapC /\ b.upap = a.upap
  BY DEF AuthRec
<1> HIDE DEF b
<1>3. AuthOK(b)
  BY <1>1, <1>2 DEF AuthOK
<1> QED
  BY <1>3 DEF b

\* Less() does not go below 0.
LEMMA LessNat == \A n \in Nat : Less(n) \in Nat
  BY DEF Less

\* A report changes nothing but the calls.
LEMMA ReportOK ==
    ASSUME NEW a, AuthOK(a), NEW what \in Reports
    PROVE  AuthOK(Report(a, what))
<1>1. Append(a.calls, what) \in Seq(Reports)
  BY DEF AuthOK, AuthRec, AuthStates
<1>2. Report(a, what) = [a EXCEPT !.calls = Append(a.calls, what)]
  BY DEF Report
<1> QED
  BY <1>1, <1>2 DEF AuthOK, AuthRec, AuthStates

\* A first challenge is timed.
LEMMA StartChallengeOK ==
    ASSUME NEW a, AuthOK(a), NEW s \in AuthStates
    PROVE  AuthOK(StartChallenge(a, s))
<1> DEFINE b == [[[a EXCEPT !.chalTx = 0] EXCEPT !.challenge = a.challenge + 1, !.chalTx = 1] EXCEPT !.chapS = s]
<1>1. StartChallenge(a, s) = b
  BY DEF StartChallenge, ChapSendChallenge, AuthOK, AuthRec
<1>2. a.challenge + 1 \in Nat /\ a.challenge + 1 > 0
  BY DEF AuthOK, AuthRec
<1>3. b \in AuthRec /\ b.challenge = a.challenge + 1 /\ b.upapC = a.upapC /\ b.upap = a.upap
  BY <1>2 DEF AuthOK, AuthRec
<1> HIDE DEF b
<1> QED
  BY <1>1, <1>2, <1>3 DEF AuthOK

\* ChapSendChallenge() times the challenge, whatever became of its last timer.
LEMMA ChapSendChallengeOK ==
    ASSUME NEW a \in AuthRec, a.upapC = "AUTHREQ" => a.upap > 0
    PROVE  AuthOK(ChapSendChallenge(a))
<1> DEFINE b == [a EXCEPT !.challenge = a.challenge + 1, !.chalTx = a.chalTx + 1]
<1>1. ChapSendChallenge(a) = b
  BY DEF ChapSendChallenge
<1>2. a.challenge + 1 \in Nat /\ a.challenge + 1 > 0 /\ a.chalTx + 1 \in Nat
  BY DEF AuthRec
<1>3. b \in AuthRec /\ b.challenge = a.challenge + 1 /\ b.upapC = a.upapC /\ b.upap = a.upap
  BY <1>2 DEF AuthRec
<1> HIDE DEF b
<1> QED
  BY <1>1, <1>2, <1>3 DEF AuthOK

\* ChapSendResponse() is the client's, and leaves the server alone.
LEMMA ChapSendResponseOK ==
    ASSUME NEW a, AuthOK(a)
    PROVE  AuthOK(ChapSendResponse(a))
<1> DEFINE b == [a EXCEPT !.chapC = "RESPONSE", !.response = a.response + 1]
<1>1. ChapSendResponse(a) = b
  BY DEF ChapSendResponse
<1>2. a.response + 1 \in Nat
  BY DEF AuthOK, AuthRec
<1>3. b \in AuthRec /\ b.chapS = a.chapS /\ b.challenge = a.challenge /\ b.upapC = a.upapC /\ b.upap = a.upap
  BY <1>2, StatesIn DEF AuthOK, AuthRec
<1> HIDE DEF b
<1> QED
  BY <1>1, <1>3 DEF AuthOK

\* ChapAuthWithPeer() starts the client.
LEMMA ChapAuthWithPeerOK ==
    ASSUME NEW a, AuthOK(a)
    PROVE  AuthOK(ChapAuthWithPeer(a))
  BY DEF AuthOK, AuthRec, AuthStates, ChapAuthWithPeer

\* ChapAuthPeer() starts the server, or leaves it pending.
LEMMA ChapAuthPeerOK ==
    ASSUME NEW a, AuthOK(a)
    PROVE  AuthOK(ChapAuthPeer(a))
  BY StartChallengeOK DEF AuthOK, AuthRec, AuthStates, ChapAuthPeer, Challenging

\* ChapChallengeTimeout() repeats the challenge or gives up.
LEMMA ChapChallengeTimeoutOK ==
    ASSUME NEW a0, AuthOK(a0)
    PROVE  AuthOK(ChapChallengeTimeout(a0))
<1> DEFINE a == [a0 EXCEPT !.challenge = Less(a0.challenge)]
<1>1. a \in AuthRec /\ a.chapS = a0.chapS /\ (a.upapC = "AUTHREQ" => a.upap > 0)
  BY LessNat DEF AuthOK, AuthRec, AuthStates
<1>2. ChapChallengeTimeout(a0) =
        IF a.chapS \notin {"INITIAL_CHAL", "RECHALLENGE"} THEN a
        ELSE IF a.chalTx >= MaxTransmits THEN Report([a EXCEPT !.chapS = "BADAUTH"], "peer_fail")
        ELSE ChapSendChallenge(a)
  BY DEF ChapChallengeTimeout
<1> HIDE DEF a
<1>3. AuthOK([a EXCEPT !.chapS = "BADAUTH"])
  BY <1>1, StatesIn, ChapState DEF Challenging
<1>4. AuthOK(Report([a EXCEPT !.chapS = "BADAUTH"], "peer_fail"))
  BY <1>3, ReportOK DEF Reports, AuthBits
<1>5. AuthOK(ChapSendChallenge(a))
  BY <1>1, ChapSendChallengeOK
<1>6. a.chapS \notin {"INITIAL_CHAL", "RECHALLENGE"} => AuthOK(a)
  BY <1>1 DEF AuthOK, Challenging
<1> QED
  BY <1>2, <1>4, <1>5, <1>6

\* ChapResponseTimeout() repeats the response.
LEMMA ChapResponseTimeoutOK ==
    ASSUME NEW a0, AuthOK(a0)
    PROVE  AuthOK(ChapResponseTimeout(a0))
<1> DEFINE a == [a0 EXCEPT !.response = Less(a0.response)]
<1>1. AuthOK(a)
  BY LessNat DEF AuthOK, AuthRec, AuthStates
<1>2. ChapResponseTimeout(a0) = IF a.chapC = "RESPONSE" THEN ChapSendResponse(a) ELSE a
  BY DEF ChapResponseTimeout
<1> HIDE DEF a
<1> QED
  BY <1>1, <1>2, ChapSendResponseOK

\* ChapRechallenge() challenges a peer that had been accepted.
LEMMA ChapRechallengeOK ==
    ASSUME NEW a0, AuthOK(a0)
    PROVE  AuthOK(ChapRechallenge(a0))
<1> DEFINE a == [a0 EXCEPT !.rechallenge = Less(a0.rechallenge)]
           b == StartChallenge(a, "RECHALLENGE")
           n == IF Rechallenge THEN b.rechallenge + 1 ELSE b.rechallenge
<1>1. AuthOK(a)
  BY LessNat DEF AuthOK, AuthRec, AuthStates
<1>2. ChapRechallenge(a0) = IF a.chapS # "OPEN" THEN a ELSE [b EXCEPT !.rechallenge = n]
  BY DEF ChapRechallenge
<1> HIDE DEF a
<1>3. AuthOK(b)
  BY <1>1, StartChallengeOK DEF AuthStates
<1> HIDE DEF b
<1>4. n \in Nat
  BY <1>3 DEF AuthOK, AuthRec, AuthStates
<1> HIDE DEF n
<1>5. AuthOK([b EXCEPT !.rechallenge = n])
  BY <1>3, <1>4 DEF AuthOK, AuthRec, AuthStates
<1> QED
  BY <1>1, <1>2, <1>5

\* ChapLowerUp() sends the challenge that was pending.
LEMMA ChapLowerUpOK ==
    ASSUME NEW a, AuthOK(a)
    PROVE  AuthOK(ChapLowerUp(a))
<1> DEFINE s == CASE a.chapC = "INITIAL" -> "CLOSED" [] a.chapC = "PENDING" -> "LISTEN" [] OTHER -> a.chapC
           c == [a EXCEPT !.chapC = s]
<1>1. s \in AuthStates
  BY DEF AuthOK, AuthRec, AuthStates
<1>2. ChapLowerUp(a) = CASE c.chapS = "INITIAL" -> [c EXCEPT !.chapS = "CLOSED"]
                         [] c.chapS = "PENDING" -> StartChallenge(c, "INITIAL_CHAL")
                         [] OTHER -> c
  BY DEF ChapLowerUp
<1> HIDE DEF s
<1>3. AuthOK(c)
  BY <1>1 DEF AuthOK, AuthRec, AuthStates
<1> HIDE DEF c
<1>4. AuthOK([c EXCEPT !.chapS = "CLOSED"]) /\ AuthOK(StartChallenge(c, "INITIAL_CHAL"))
  BY <1>3, StatesIn, ChapState, StartChallengeOK DEF AuthOK, Challenging
<1> QED
  BY <1>2, <1>3, <1>4

\* ChapLowerDown() waits for nothing any more, and may cancel the timer.
LEMMA ChapLowerDownOK ==
    ASSUME NEW a, a \in AuthRec, a.upapC = "AUTHREQ" => a.upap > 0
    PROVE  AuthOK(ChapLowerDown(a))
<1> DEFINE n == IF a.chapS \in {"INITIAL_CHAL", "RECHALLENGE"} THEN Less(a.challenge) ELSE a.challenge
           m == IF a.chapS = "OPEN" /\ Rechallenge THEN Less(a.rechallenge) ELSE a.rechallenge
           k == IF a.chapC = "RESPONSE" THEN Less(a.response) ELSE a.response
<1>1. n \in Nat /\ m \in Nat /\ k \in Nat
  BY LessNat DEF AuthRec, AuthStates
<1>2. ChapLowerDown(a) = [a EXCEPT !.challenge = n, !.rechallenge = m, !.response = k,
                                   !.chapC = "INITIAL", !.chapS = "INITIAL"]
  BY DEF ChapLowerDown
<1> HIDE DEF n, m, k
<1> DEFINE b == ChapLowerDown(a)
<1>3. b \in AuthRec
  BY <1>1, <1>2, StatesIn DEF AuthRec
<1>4. b.chapS = "INITIAL" /\ b.upapC = a.upapC /\ b.upap = a.upap
  BY <1>2 DEF AuthRec
<1> HIDE DEF b
<1>5. AuthOK(b)
  BY <1>3, <1>4 DEF AuthOK, Challenging
<1> QED
  BY <1>5 DEF b

\* ChapProtocolReject() reports, then goes down.
LEMMA ChapProtocolRejectOK ==
    ASSUME NEW a, AuthOK(a)
    PROVE  AuthOK(ChapProtocolReject(a))
<1> DEFINE b == IF a.chapS \in {"INITIAL", "CLOSED"} THEN a ELSE Report(a, "peer_fail")
           c == IF a.chapC \in {"INITIAL", "CLOSED"} THEN b ELSE Report(b, "with_fail")
<1>1. AuthOK(b)
  BY ReportOK DEF Reports, AuthBits
<1>2. AuthOK(c)
  BY <1>1, ReportOK DEF Reports, AuthBits
<1>3. ChapProtocolReject(a) = ChapLowerDown(c)
  BY DEF ChapProtocolReject
<1> HIDE DEF c
<1> QED
  BY <1>2, <1>3, ChapLowerDownOK DEF AuthOK

\* ChapReceiveChallenge() is the client's.
LEMMA ChapReceiveChallengeOK ==
    ASSUME NEW a, AuthOK(a)
    PROVE  AuthOK(ChapReceiveChallenge(a))
<1> DEFINE n == IF a.chapC = "RESPONSE" THEN Less(a.response) ELSE a.response
           b == [a EXCEPT !.response = n]
<1>1. n \in Nat
  BY LessNat DEF AuthOK, AuthRec, AuthStates
<1>2. ChapReceiveChallenge(a) = IF a.chapC \in {"CLOSED", "PENDING"} THEN a ELSE ChapSendResponse(b)
  BY DEF ChapReceiveChallenge
<1> HIDE DEF n
<1>3. AuthOK(b)
  BY <1>1 DEF AuthOK, AuthRec, AuthStates
<1> HIDE DEF b
<1> QED
  BY <1>2, <1>3, ChapSendResponseOK

\* ChapReceiveResponse() cancels the timer and leaves the challenging states.
LEMMA ChapReceiveResponseOK ==
    ASSUME NEW a, AuthOK(a), NEW good \in BOOLEAN
    PROVE  AuthOK(ChapReceiveResponse(a, good))
<1> DEFINE b == [a EXCEPT !.challenge = Less(a.challenge)]
           c == IF a.chapS = "INITIAL_CHAL" THEN Report(b, "CHAP_PEER") ELSE b
           n == IF Rechallenge THEN c.rechallenge + 1 ELSE c.rechallenge
           d == [b EXCEPT !.chapS = "BADAUTH"]
<1>1. CASE a.chapS \in {"CLOSED", "PENDING", "OPEN", "BADAUTH"}
  BY <1>1 DEF ChapReceiveResponse
<1>2. CASE a.chapS \notin {"CLOSED", "PENDING", "OPEN", "BADAUTH"}
  <2>1. b \in AuthRec /\ (b.upapC = "AUTHREQ" => b.upap > 0)
    BY LessNat DEF AuthOK, AuthRec, AuthStates
  <2>2. ChapReceiveResponse(a, good) = IF good THEN [c EXCEPT !.chapS = "OPEN", !.rechallenge = n] ELSE Report(d, "peer_fail")
    BY <1>2 DEF ChapReceiveResponse
  <2> HIDE DEF b
  <2>3. AuthOK(d)
    BY <2>1, StatesIn, ChapState DEF Challenging
  <2>4. AuthOK(Report(d, "peer_fail"))
    BY <2>3, ReportOK DEF Reports, AuthBits
  <2>5. c \in AuthRec /\ (c.upapC = "AUTHREQ" => c.upap > 0)
    <3>1. Append(b.calls, "CHAP_PEER") \in Seq(Reports)
      BY <2>1 DEF AuthRec, Reports, AuthBits
    <3>2. Report(b, "CHAP_PEER") = [b EXCEPT !.calls = Append(b.calls, "CHAP_PEER")]
      BY DEF Report
    <3>3. Report(b, "CHAP_PEER") \in AuthRec /\ (Report(b, "CHAP_PEER").upapC = "AUTHREQ" => Report(b, "CHAP_PEER").upap > 0)
      BY <2>1, <3>1, <3>2 DEF AuthRec, AuthStates
    <3> QED BY <2>1, <3>3
  <2> HIDE DEF c, d
  <2>6. n \in Nat
    BY <2>5 DEF AuthRec, AuthStates
  <2> HIDE DEF n
  <2>7. AuthOK([c EXCEPT !.chapS = "OPEN", !.rechallenge = n])
    <3> DEFINE e == [c EXCEPT !.chapS = "OPEN", !.rechallenge = n]
    <3>1. e \in AuthRec /\ e.chapS = "OPEN" /\ e.upapC = c.upapC /\ e.upap = c.upap
      BY <2>5, <2>6, StatesIn DEF AuthRec
    <3> HIDE DEF e
    <3>2. AuthOK(e)
      BY <2>5, <3>1 DEF AuthOK, Challenging
    <3> QED BY <3>2 DEF e
  <2> QED BY <2>2, <2>4, <2>7
<1> QED
  BY <1>1, <1>2

\* ChapReceiveSuccess() and ChapReceiveFailure() are the client's.
LEMMA ChapReceiveSuccessOK ==
    ASSUME NEW a, AuthOK(a)
    PROVE  AuthOK(ChapReceiveSuccess(a)) /\ AuthOK(ChapReceiveFailure(a))
<1> DEFINE b == [a EXCEPT !.response = Less(a.response), !.chapC = "OPEN"]
           c == [a EXCEPT !.response = Less(a.response)]
<1>1. AuthOK(b) /\ AuthOK(c)
  BY LessNat DEF AuthOK, AuthRec, AuthStates
<1>2. /\ ChapReceiveSuccess(a) = IF a.chapC # "RESPONSE" THEN a ELSE Report(b, "CHAP_WITHPEER")
      /\ ChapReceiveFailure(a) = IF a.chapC # "RESPONSE" THEN a ELSE Report(c, "with_fail")
  BY DEF ChapReceiveSuccess, ChapReceiveFailure
<1> HIDE DEF b, c
<1> QED
  BY <1>1, <1>2, ReportOK DEF Reports, AuthBits

\* upap_sauthreq() times the request.
LEMMA upap_sauthreqOK ==
    ASSUME NEW a \in AuthRec, a.chapS \in Challenging => a.challenge > 0
    PROVE  AuthOK(upap_sauthreq(a))
<1> DEFINE b == [a EXCEPT !.upap = a.upap + 1, !.upapTx = a.upapTx + 1, !.upapC = "AUTHREQ"]
<1>1. upap_sauthreq(a) = b
  BY DEF upap_sauthreq
<1>2. a.upap + 1 \in Nat /\ a.upap + 1 > 0 /\ a.upapTx + 1 \in Nat
  BY DEF AuthRec
<1>3. b \in AuthRec /\ b.upap = a.upap + 1 /\ b.chapS = a.chapS /\ b.challenge = a.challenge
  BY <1>2, StatesIn DEF AuthRec
<1> HIDE DEF b
<1> QED
  BY <1>1, <1>2, <1>3 DEF AuthOK

\* upap_authwithpeer() sends the request or leaves it pending.
LEMMA upap_authwithpeerOK ==
    ASSUME NEW a, AuthOK(a)
    PROVE  AuthOK(upap_authwithpeer(a)) /\ AuthOK(upap_authpeer(a))
<1> DEFINE b == [a EXCEPT !.upapTx = 0]
           s == IF a.upapS \in {"INITIAL", "PENDING"} THEN "PENDING" ELSE "LISTEN"
<1>1. AuthOK(b)
  BY DEF AuthOK, AuthRec, AuthStates
<1>2. upap_authwithpeer(a) = IF a.upapC \in {"INITIAL", "PENDING"} THEN [b EXCEPT !.upapC = "PENDING"] ELSE upap_sauthreq(b)
  BY DEF upap_authwithpeer
<1>3. AuthOK([a EXCEPT !.upapS = s])
  BY DEF AuthOK, AuthRec, AuthStates
<1>4. upap_authpeer(a) = [a EXCEPT !.upapS = s]
  BY DEF upap_authpeer
<1> HIDE DEF b
<1>5. AuthOK([b EXCEPT !.upapC = "PENDING"]) /\ AuthOK(upap_sauthreq(b))
  BY <1>1, upap_sauthreqOK DEF AuthOK, AuthRec, AuthStates
<1> QED
  BY <1>2, <1>3, <1>4, <1>5

\* upap_timeout() repeats the request or gives up.
LEMMA upap_timeoutOK ==
    ASSUME NEW a0, AuthOK(a0)
    PROVE  AuthOK(upap_timeout(a0))
<1> DEFINE a == [a0 EXCEPT !.upap = Less(a0.upap)]
           b == [a EXCEPT !.upapC = "BADAUTH"]
<1>1. a \in AuthRec /\ (a.chapS \in Challenging => a.challenge > 0)
  BY LessNat DEF AuthOK, AuthRec, AuthStates
<1>2. upap_timeout(a0) = IF a.upapC # "AUTHREQ" THEN a
                         ELSE IF a.upapTx >= MaxTransmits THEN Report(b, "with_fail") ELSE upap_sauthreq(a)
  BY DEF upap_timeout
<1> HIDE DEF a
<1>3. AuthOK(b)
  BY <1>1 DEF AuthOK, AuthRec, AuthStates
<1> HIDE DEF b
<1>4. AuthOK(Report(b, "with_fail")) /\ AuthOK(upap_sauthreq(a))
  BY <1>1, <1>3, ReportOK, upap_sauthreqOK DEF Reports, AuthBits
<1>5. a.upapC # "AUTHREQ" => AuthOK(a)
  BY <1>1 DEF AuthOK
<1> QED
  BY <1>2, <1>4, <1>5

\* upap_lowerup() sends the request that was pending.
LEMMA upap_lowerupOK ==
    ASSUME NEW a, AuthOK(a)
    PROVE  AuthOK(upap_lowerup(a))
<1> DEFINE c == CASE a.upapC = "INITIAL" -> [a EXCEPT !.upapC = "CLOSED"]
                  [] a.upapC = "PENDING" -> upap_sauthreq(a)
                  [] OTHER -> a
           s == CASE c.upapS = "INITIAL" -> "CLOSED" [] c.upapS = "PENDING" -> "LISTEN" [] OTHER -> c.upapS
<1>1. AuthOK(c)
  <2>1. AuthOK([a EXCEPT !.upapC = "CLOSED"]) /\ AuthOK(upap_sauthreq(a))
    BY upap_sauthreqOK DEF AuthOK, AuthRec, AuthStates
  <2> QED BY <2>1
<1>2. upap_lowerup(a) = [c EXCEPT !.upapS = s]
  BY DEF upap_lowerup
<1> HIDE DEF c
<1>3. s \in AuthStates
  BY <1>1 DEF AuthOK, AuthRec, AuthStates
<1> HIDE DEF s
<1> QED
  BY <1>1, <1>2, <1>3 DEF AuthOK, AuthRec

\* upap_lowerdown() waits for nothing any more.
LEMMA upap_lowerdownOK ==
    ASSUME NEW a, AuthOK(a)
    PROVE  AuthOK(upap_lowerdown(a))
<1> DEFINE n == IF a.upapC = "AUTHREQ" THEN Less(a.upap) ELSE a.upap
<1>1. n \in Nat
  BY LessNat DEF AuthOK, AuthRec, AuthStates
<1>2. upap_lowerdown(a) = [a EXCEPT !.upap = n, !.upapC = "INITIAL", !.upapS = "INITIAL"]
  BY DEF upap_lowerdown
<1> HIDE DEF n
<1> QED
  BY <1>1, <1>2 DEF AuthOK, AuthRec, AuthStates

\* upap_protrej() reports, then goes down.
LEMMA upap_protrejOK ==
    ASSUME NEW a, AuthOK(a)
    PROVE  AuthOK(upap_protrej(a))
<1> DEFINE b == IF a.upapC = "AUTHREQ" THEN Report(a, "with_fail") ELSE a
           c == IF a.upapS = "LISTEN" THEN Report(b, "peer_fail") ELSE b
<1>1. AuthOK(b)
  BY ReportOK DEF Reports, AuthBits
<1>2. AuthOK(c)
  BY <1>1, ReportOK DEF Reports, AuthBits
<1>3. upap_protrej(a) = upap_lowerdown(c)
  BY DEF upap_protrej
<1> HIDE DEF c
<1> QED
  BY <1>2, <1>3, upap_lowerdownOK

\* An answer of the peer ends the wait; its timer stays on the list.
LEMMA upap_inputOK ==
    ASSUME NEW a, AuthOK(a), NEW good \in BOOLEAN
    PROVE  AuthOK(upap_rauthreq(a, good)) /\ AuthOK(upap_rauthack(a)) /\ AuthOK(upap_rauthnak(a))
<1>1. /\ AuthOK([a EXCEPT !.upapS = "OPEN"]) /\ AuthOK([a EXCEPT !.upapS = "BADAUTH"])
      /\ AuthOK([a EXCEPT !.upapC = "OPEN"]) /\ AuthOK([a EXCEPT !.upapC = "BADAUTH"])
  BY DEF AuthOK, AuthRec, AuthStates
<1>2. /\ AuthOK(Report([a EXCEPT !.upapS = "OPEN"], "UPAP_PEER"))
      /\ AuthOK(Report([a EXCEPT !.upapS = "BADAUTH"], "peer_fail"))
      /\ AuthOK(Report([a EXCEPT !.upapC = "OPEN"], "UPAP_WITHPEER"))
      /\ AuthOK(Report([a EXCEPT !.upapC = "BADAUTH"], "with_fail"))
  BY <1>1, ReportOK DEF Reports, AuthBits
<1> QED
  BY <1>2 DEF upap_rauthreq, upap_rauthack, upap_rauthnak

-----------------------------------------------------------------------------
(***************************************************************************)
(* The unit.                                                               *)
(***************************************************************************)
Phases == {"ESTABLISH", "AUTHENTICATE", "NETWORK", "TERMINATE", "DEAD"}

\* A unit, inside a handler or between two.
Units ==
    [lcp : Rec, ipcp : Rec, auth : AuthRec, auth_pending : SUBSET AuthBits,
     phase : Phases, ifup : BOOLEAN, alive : BOOLEAN,
     echo : Nat, echoRunning : BOOLEAN, echosPending : Nat]

\* Everything but the two automata is the same.
Rest(x, y) ==
    /\ y.auth = x.auth /\ y.auth_pending = x.auth_pending /\ y.phase = x.phase
    /\ y.ifup = x.ifup /\ y.alive = x.alive
    /\ y.echo = x.echo /\ y.echoRunning = x.echoRunning

\* The automaton g is f but for the packets and the callbacks it holds.
Like(f, g) ==
    /\ g \in Rec /\ Safe(g)
    /\ g.state = f.state /\ g.flags = f.flags /\ (g.upper <=> f.upper)

\* The callbacks of an automaton that has made none, and that has made one.
LEMMA NoCalls ==
    ASSUME NEW x, NEW p, x[p].calls = <<>>
    PROVE  Calls(x, p) = {}
  BY DEF Calls

\* One callback.
LEMMA OneCall ==
    ASSUME NEW x, NEW p, NEW c, x[p].calls = Append(<<>>, c)
    PROVE  Calls(x, p) = {c}
<1>1. Append(<<>>, c) = <<c>>
  OBVIOUS
<1>2. DOMAIN <<c>> = {1} /\ <<c>>[1] = c
  OBVIOUS
<1> QED
  BY <1>1, <1>2 DEF Calls

\* The packets of an automaton leave it.
LEMMA DrainLemma ==
    ASSUME NEW f \in Rec, Safe(f)
    PROVE  /\ Like(f, [f EXCEPT !.out = <<>>])
           /\ [f EXCEPT !.out = <<>>].calls = f.calls
           /\ Like(f, [f EXCEPT !.calls = <<>>])
           /\ [f EXCEPT !.calls = <<>>].calls = <<>>
<1>1. <<>> \in Seq(FsmPackets) /\ <<>> \in Seq(Callbacks)
  OBVIOUS
<1> DEFINE g == [f EXCEPT !.out = <<>>]
           h == [f EXCEPT !.calls = <<>>]
           Same(k) == /\ k.state = f.state /\ k.flags = f.flags /\ k.upper = f.upper
                      /\ k.timers = f.timers /\ k.acked = f.acked /\ k.acking = f.acking
                      /\ k.retransmits = f.retransmits
<1>2. g \in Rec /\ Same(g) /\ g.calls = f.calls
  BY <1>1 DEF Rec
<1>3. h \in Rec /\ Same(h) /\ h.calls = <<>>
  BY <1>1 DEF Rec
<1> HIDE DEF g, h
<1>4. Like(f, g) /\ Like(f, h)
  BY <1>2, <1>3 DEF Safe, Like
<1> QED
  BY <1>2, <1>3, <1>4 DEF g, h

\* LCP becomes f.
LEMMA PutLcp ==
    ASSUME NEW x \in Units, NEW f \in Rec, Safe(f)
    PROVE  LET y == Put(x, "lcp", f) IN
           /\ y \in Units /\ Rest(x, y) /\ y.ipcp = x.ipcp
           /\ Like(f, y.lcp) /\ y.lcp.calls = f.calls
<1> DEFINE g == [f EXCEPT !.out = <<>>]
           y == [x EXCEPT !.lcp = g]
<1>1. Like(f, g) /\ g.calls = f.calls
  BY DrainLemma
<1>2. Put(x, "lcp", f) = y
  BY DEF Put
<1> HIDE DEF g
<1>3. g \in Rec
  BY <1>1 DEF Like
<1>4. y \in Units /\ Rest(x, y) /\ y.ipcp = x.ipcp /\ y.lcp = g
  BY <1>3 DEF Units, Rest
<1> HIDE DEF y
<1> QED
  BY <1>1, <1>2, <1>4

\* IPCP becomes f.
LEMMA PutIpcp ==
    ASSUME NEW x \in Units, NEW f \in Rec, Safe(f)
    PROVE  LET y == Put(x, "ipcp", f) IN
           /\ y \in Units /\ Rest(x, y) /\ y.lcp = x.lcp
           /\ Like(f, y.ipcp) /\ y.ipcp.calls = f.calls
<1> DEFINE g == [f EXCEPT !.out = <<>>]
           y == [x EXCEPT !.ipcp = g]
<1>1. Like(f, g) /\ g.calls = f.calls
  BY DrainLemma
<1>2. Put(x, "ipcp", f) = y
  BY DEF Put
<1> HIDE DEF g
<1>3. g \in Rec
  BY <1>1 DEF Like
<1>4. y \in Units /\ Rest(x, y) /\ y.lcp = x.lcp /\ y.ipcp = g
  BY <1>3 DEF Units, Rest
<1> HIDE DEF y
<1> QED
  BY <1>1, <1>2, <1>4

\* The callbacks of an automaton have been made.
LEMMA CalledLcp ==
    ASSUME NEW x \in Units, Safe(x.lcp)
    PROVE  LET y == Called(x, "lcp") IN
           /\ y \in Units /\ Rest(x, y) /\ y.ipcp = x.ipcp
           /\ Like(x.lcp, y.lcp) /\ y.lcp.calls = <<>>
<1> DEFINE f == x.lcp
           g == [f EXCEPT !.calls = <<>>]
           y == [x EXCEPT !.lcp = g]
<1>0. f \in Rec
  BY DEF Units
<1>1. Like(f, g) /\ g.calls = <<>>
  BY <1>0, DrainLemma
<1>2. Called(x, "lcp") = y
  BY DEF Called
<1> HIDE DEF g
<1>3. g \in Rec
  BY <1>1 DEF Like
<1>4. y \in Units /\ Rest(x, y) /\ y.ipcp = x.ipcp /\ y.lcp = g
  BY <1>3 DEF Units, Rest
<1> HIDE DEF y
<1> QED
  BY <1>1, <1>2, <1>4

\* The same for IPCP.
LEMMA CalledIpcp ==
    ASSUME NEW x \in Units, Safe(x.ipcp)
    PROVE  LET y == Called(x, "ipcp") IN
           /\ y \in Units /\ Rest(x, y) /\ y.lcp = x.lcp
           /\ Like(x.ipcp, y.ipcp) /\ y.ipcp.calls = <<>>
<1> DEFINE f == x.ipcp
           g == [f EXCEPT !.calls = <<>>]
           y == [x EXCEPT !.ipcp = g]
<1>0. f \in Rec
  BY DEF Units
<1>1. Like(f, g) /\ g.calls = <<>>
  BY <1>0, DrainLemma
<1>2. Called(x, "ipcp") = y
  BY DEF Called
<1> HIDE DEF g
<1>3. g \in Rec
  BY <1>1 DEF Like
<1>4. y \in Units /\ Rest(x, y) /\ y.lcp = x.lcp /\ y.ipcp = g
  BY <1>3 DEF Units, Rest
<1> HIDE DEF y
<1> QED
  BY <1>1, <1>2, <1>4

-----------------------------------------------------------------------------
(***************************************************************************)
(* The inductive invariant.  Between two handlers no callback is pending.  *)
(* The interface is up only while LCP and IPCP have told so; IPCP has no   *)
(* lower layer unless LCP is up; and the echo timer runs only while LCP is *)
(* up, or after it failed in a unit that stays (INITIAL).                  *)
(***************************************************************************)
Parts(x) == x \in Units /\ Safe(x.lcp) /\ Safe(x.ipcp) /\ AuthOK(x.auth)

UnitOK(x) ==
    /\ Parts(x)
    /\ x.lcp.calls = <<>> /\ x.ipcp.calls = <<>>
    /\ x.phase = "NETWORK" => x.auth_pending = {}
    /\ x.ifup => x.lcp.upper /\ x.ipcp.upper
    /\ ~x.lcp.upper => x.ipcp.state \in Lower
    /\ x.echoRunning => x.lcp.upper \/ x.lcp.state = "INITIAL"
    /\ x.echo = (IF x.echoRunning THEN 1 ELSE 0)
    /\ ~x.alive => ~x.ifup

\* IPCP goes down, or stays what it is to the interface.
LEMMA IpcpDownLemma ==
    ASSUME NEW x, UnitOK(x), NEW f \in Rec, Safe(f), TellsDown(x.ipcp, f),
           x.lcp.upper \/ f.state \in Lower
    PROVE  LET y == IpcpDown(Put(x, "ipcp", f)) IN
           /\ UnitOK(y) /\ y.lcp = x.lcp /\ y.alive = x.alive
           /\ y.echoRunning = x.echoRunning
           /\ "up" \notin Calls(Put(x, "ipcp", f), "ipcp")
           /\ y.ipcp.state = f.state
<1> DEFINE p == Put(x, "ipcp", f)
           q == IF "down" \in Calls(p, "ipcp") THEN [p EXCEPT !.ifup = FALSE] ELSE p
           y == Called(q, "ipcp")
<1>1. /\ p \in Units /\ Rest(x, p) /\ p.lcp = x.lcp
      /\ Like(f, p.ipcp) /\ p.ipcp.calls = f.calls
  BY PutIpcp DEF UnitOK, Parts
<1>2. IpcpDown(p) = y
  BY DEF IpcpDown, ipcp_down
<1> HIDE DEF p
<1>3. /\ "down" \in Calls(p, "ipcp") => ~f.upper
      /\ "down" \notin Calls(p, "ipcp") => (f.upper <=> x.ipcp.upper)
      /\ "up" \notin Calls(p, "ipcp")
  <2>1. x.ipcp.calls = <<>>
    BY DEF UnitOK
  <2>2. CASE f.calls = <<>> /\ (f.upper <=> x.ipcp.upper)
    BY <1>1, <2>2, NoCalls
  <2>3. CASE f.calls = Append(<<>>, "down") /\ ~f.upper
    BY <1>1, <2>3, OneCall
  <2>4. ASSUME NEW c \in {"starting", "finished"}, f.calls = Append(<<>>, c), f.upper <=> x.ipcp.upper
        PROVE  <1>3!:
    BY <1>1, <2>4, OneCall
  <2> QED BY <2>1, <2>2, <2>3, <2>4 DEF TellsDown
<1>4. /\ q \in Units /\ q.lcp = p.lcp /\ q.ipcp = p.ipcp /\ q.auth = p.auth
      /\ q.auth_pending = p.auth_pending /\ q.phase = p.phase /\ q.alive = p.alive
      /\ q.echo = p.echo /\ q.echoRunning = p.echoRunning
      /\ q.ifup => p.ifup /\ "down" \notin Calls(p, "ipcp")
  BY <1>1 DEF Units
<1> HIDE DEF q
<1>5. Safe(q.ipcp)
  BY <1>1, <1>4 DEF Like
<1>6. /\ y \in Units /\ Rest(q, y) /\ y.lcp = q.lcp
      /\ Like(q.ipcp, y.ipcp) /\ y.ipcp.calls = <<>>
  BY <1>4, <1>5, CalledIpcp
<1> HIDE DEF y
<1>7. UnitOK(y)
  BY <1>1, <1>3, <1>4, <1>6 DEF UnitOK, Parts, Rest, Like
<1> QED
  BY <1>1, <1>2, <1>3, <1>4, <1>6, <1>7 DEF p, Rest, Like

\* lcp_down() takes down everything that rests on LCP, and leaves LCP alone.
\* x may be a unit whose LCP has gone down already.
LEMMA LcpDownLemma ==
    ASSUME NEW x, Parts(x), x.ipcp.calls = <<>>
    PROVE  LET y == lcp_down(x) IN
           /\ Parts(y) /\ y.lcp = x.lcp
           /\ y.ipcp.calls = <<>> /\ y.ipcp.state \in Lower
           /\ ~y.ifup /\ y.phase = "TERMINATE" /\ y.alive = x.alive
           /\ ~y.echoRunning /\ y.auth_pending = x.auth_pending
           /\ y.echo = (IF x.echoRunning THEN Less(x.echo) ELSE x.echo)
<1> DEFINE e == lcp_echo_lowerdown(x)
           f == fsm_lowerdown(e.ipcp)
           p == Put(e, "ipcp", f)
           q == IF "down" \in Calls(p, "ipcp") THEN [p EXCEPT !.ifup = FALSE] ELSE p
           r == Called(q, "ipcp")
           a == upap_lowerdown(ChapLowerDown(r.auth))
           y == [r EXCEPT !.auth = a, !.ifup = FALSE, !.phase = "TERMINATE"]
<1>1. lcp_down(x) = y
  BY DEF lcp_down, ipcp_lowerdown, IpcpDown, ipcp_down
<1>2. /\ e \in Units /\ e.lcp = x.lcp /\ e.ipcp = x.ipcp /\ e.auth = x.auth
      /\ e.auth_pending = x.auth_pending /\ e.alive = x.alive
      /\ ~e.echoRunning /\ e.echo = (IF x.echoRunning THEN Less(x.echo) ELSE x.echo)
  <2>1. x \in Units /\ x.echo \in Nat /\ Less(x.echo) \in Nat
    BY LessNat DEF Parts, Units
  <2>2. CASE x.echoRunning
    <3>1. e = [x EXCEPT !.echo = Less(x.echo), !.echoRunning = FALSE]
      BY <2>2 DEF lcp_echo_lowerdown
    <3> HIDE DEF e
    <3> QED BY <2>1, <2>2, <3>1 DEF Units
  <2>3. CASE ~x.echoRunning
    BY <2>1, <2>3 DEF lcp_echo_lowerdown
  <2> QED BY <2>2, <2>3
<1> HIDE DEF e
<1>3. f \in Rec /\ Safe(f) /\ f.state \in Lower
  <2>1. e.ipcp \in Rec /\ Safe(e.ipcp)
    BY <1>2 DEF Parts, Units
  <2> QED BY <2>1, LowerdownLemma, LowerdownTells DEF Step
<1> HIDE DEF f
<1>4. p \in Units /\ Rest(e, p) /\ p.lcp = e.lcp /\ Like(f, p.ipcp)
  BY <1>2, <1>3, PutIpcp
<1> HIDE DEF p
<1>5. /\ q \in Units /\ q.lcp = p.lcp /\ q.ipcp = p.ipcp /\ q.auth = p.auth
      /\ q.auth_pending = p.auth_pending /\ q.alive = p.alive
      /\ q.echo = p.echo /\ q.echoRunning = p.echoRunning
  BY <1>4 DEF Units
<1> HIDE DEF q
<1>6. /\ r \in Units /\ Rest(q, r) /\ r.lcp = q.lcp
      /\ Like(q.ipcp, r.ipcp) /\ r.ipcp.calls = <<>>
  <2>1. Safe(q.ipcp)
    BY <1>4, <1>5 DEF Like
  <2> QED BY <1>5, <2>1, CalledIpcp
<1> HIDE DEF r
<1>7. AuthOK(a)
  <2>1. AuthOK(r.auth)
    BY <1>2, <1>4, <1>5, <1>6 DEF Parts, Rest
  <2>2. AuthOK(ChapLowerDown(r.auth))
    BY <2>1, ChapLowerDownOK DEF AuthOK
  <2> QED BY <2>2, upap_lowerdownOK
<1> HIDE DEF a
<1>8. /\ y \in Units /\ y.lcp = r.lcp /\ y.ipcp = r.ipcp /\ y.auth = a
      /\ y.auth_pending = r.auth_pending /\ y.alive = r.alive
      /\ y.echo = r.echo /\ y.echoRunning = r.echoRunning
      /\ y.ifup = FALSE /\ y.phase = "TERMINATE"
  <2>1. a \in AuthRec /\ "TERMINATE" \in Phases
    BY <1>7 DEF AuthOK, Phases
  <2> QED BY <1>6, <2>1 DEF Units
<1> HIDE DEF y
<1>9. /\ y.lcp = x.lcp /\ Like(f, y.ipcp) /\ y.ipcp.calls = <<>>
      /\ y.alive = x.alive /\ y.auth_pending = x.auth_pending
      /\ y.echoRunning = e.echoRunning /\ y.echo = e.echo
  BY <1>2, <1>4, <1>5, <1>6, <1>8 DEF Rest, Like
<1> QED
  BY <1>1, <1>2, <1>3, <1>7, <1>8, <1>9 DEF Parts, Like

\* LCP changes, and the layers above are not told and need not be.
LEMMA LcpQuiet ==
    ASSUME NEW x, UnitOK(x), NEW y \in Units, Rest(x, y), y.ipcp = x.ipcp,
           Safe(y.lcp), y.lcp.calls = <<>>,
           y.lcp.upper <=> x.lcp.upper, x.lcp.state = "INITIAL" => y.lcp.state = "INITIAL"
    PROVE  UnitOK(y)
  BY DEF UnitOK, Parts, Rest

\* lcp_finished(): the link is opened again, or the task ends.
LEMMA LcpFinishedLemma ==
    ASSUME NEW x, UnitOK(x)
    PROVE  LET y == lcp_finished(x) IN
           /\ UnitOK(y) /\ y.alive = x.alive /\ y.echoRunning = x.echoRunning
           /\ y.lcp.flags = x.lcp.flags
           /\ y.lcp.upper <=> x.lcp.upper
           /\ x.lcp.state \in Lower => y.lcp = x.lcp
<1>0. x \in Units /\ x.lcp \in Rec /\ Safe(x.lcp) /\ x.lcp.calls = <<>>
  BY DEF UnitOK, Parts, Units
<1>1. CASE x.lcp.state \in {"STOPPED", "CLOSED"} /\ "RESTART" \in x.lcp.flags
  <2> DEFINE f == fsm_open(x.lcp)
             p == Put(x, "lcp", f)
             y == Called(p, "lcp")
  <2>1. f \in Rec /\ Safe(f) /\ TellsDown(x.lcp, f)
    BY <1>0, OpenLemma, OpenTells DEF Step
  <2>2. lcp_finished(x) = y
    BY <1>1 DEF lcp_finished
  <2> HIDE DEF f
  <2>3. ~x.lcp.upper /\ ~f.upper /\ f.flags = x.lcp.flags
    BY <1>0, <1>1, <2>1 DEF Safe, TellsDown
  <2>4. p \in Units /\ Rest(x, p) /\ p.ipcp = x.ipcp /\ Like(f, p.lcp)
    BY <1>0, <2>1, PutLcp
  <2> HIDE DEF p
  <2>5. Safe(p.lcp)
    BY <2>4 DEF Like
  <2>6. y \in Units /\ Rest(p, y) /\ y.ipcp = p.ipcp /\ Like(p.lcp, y.lcp) /\ y.lcp.calls = <<>>
    BY <2>4, <2>5, CalledLcp
  <2> HIDE DEF y
  <2>7. Rest(x, y) /\ y.ipcp = x.ipcp /\ ~y.lcp.upper /\ y.lcp.flags = x.lcp.flags /\ Safe(y.lcp)
    BY <2>3, <2>4, <2>6 DEF Rest, Like
  <2>8. x.lcp.state # "INITIAL" /\ x.lcp.state \notin Lower
    BY <1>1 DEF Lower
  <2>9. UnitOK(y)
    BY <2>3, <2>6, <2>7, <2>8, LcpQuiet
  <2> QED BY <2>2, <2>3, <2>7, <2>8, <2>9 DEF Rest
<1>2. CASE ~(x.lcp.state \in {"STOPPED", "CLOSED"} /\ "RESTART" \in x.lcp.flags)
  <2> DEFINE y == [x EXCEPT !.phase = "DEAD"]
  <2>1. lcp_finished(x) = y
    BY <1>2 DEF lcp_finished
  <2>2. /\ y \in Units /\ y.lcp = x.lcp /\ y.ipcp = x.ipcp /\ y.auth = x.auth
        /\ y.phase = "DEAD" /\ y.ifup = x.ifup /\ y.alive = x.alive
        /\ y.echo = x.echo /\ y.echoRunning = x.echoRunning
    BY <1>0 DEF Units, Phases
  <2> HIDE DEF y
  <2>3. UnitOK(y)
    BY <2>2 DEF UnitOK, Parts
  <2> QED BY <2>1, <2>2, <2>3
<1> QED
  BY <1>1, <1>2

\* What going down makes of a unit x: LCP of the new unit y is what it was
\* told to be (f), or has been opened again.
WentDown(x, f, y) ==
    /\ UnitOK(y)
    /\ y.alive = x.alive
    /\ y.echoRunning => x.echoRunning
    /\ y.lcp.flags = f.flags
    /\ y.lcp.upper <=> f.upper
    /\ f.state \in Lower => y.lcp.state = f.state

\* Any handler of LCP that does not call up(), with the callbacks it makes.
LEMMA LcpHandled ==
    ASSUME NEW x, UnitOK(x), NEW f \in Rec, Safe(f), TellsDown(x.lcp, f),
           x.lcp.state = "INITIAL" => f.state = "INITIAL"
    PROVE  /\ WentDown(x, f, LcpDown(Put(x, "lcp", f)))
           /\ "up" \notin Calls(Put(x, "lcp", f), "lcp")
<1> DEFINE p == Put(x, "lcp", f)
           d == "down" \in Calls(p, "lcp")
           y == IF d THEN lcp_down(p) ELSE p
           z == Called(y, "lcp")
<1>0. x \in Units /\ x.lcp.calls = <<>> /\ x.ipcp.calls = <<>>
  BY DEF UnitOK, Parts
<1>1. /\ p \in Units /\ Rest(x, p) /\ p.ipcp = x.ipcp
      /\ Like(f, p.lcp) /\ p.lcp.calls = f.calls
  BY <1>0, PutLcp
<1>2. LcpDown(p) = IF "finished" \in Calls(p, "lcp") THEN lcp_finished(z) ELSE z
  BY DEF LcpDown
<1> HIDE DEF p
<1>3. /\ d => ~f.upper
      /\ ~d => (f.upper <=> x.lcp.upper)
      /\ "up" \notin Calls(p, "lcp")
  <2>2. CASE f.calls = <<>> /\ (f.upper <=> x.lcp.upper)
    BY <1>1, <2>2, NoCalls
  <2>3. CASE f.calls = Append(<<>>, "down") /\ ~f.upper
    BY <1>1, <2>3, OneCall
  <2>4. ASSUME NEW c \in {"starting", "finished"}, f.calls = Append(<<>>, c), f.upper <=> x.lcp.upper
        PROVE  <1>3!:
    BY <1>1, <2>4, OneCall
  <2> QED BY <1>0, <2>2, <2>3, <2>4 DEF TellsDown
<1> HIDE DEF d
<1>4. Parts(p) /\ p.ipcp.calls = <<>>
  BY <1>0, <1>1 DEF UnitOK, Parts, Rest, Like
<1>5. WentDown(x, f, z) /\ z.lcp.state = f.state
  <2>1. CASE d
    <3>1. /\ Parts(y) /\ y.lcp = p.lcp
          /\ y.ipcp.calls = <<>> /\ y.ipcp.state \in Lower
          /\ ~y.ifup /\ y.phase = "TERMINATE" /\ y.alive = p.alive
          /\ ~y.echoRunning
          /\ y.echo = (IF p.echoRunning THEN Less(p.echo) ELSE p.echo)
      BY <1>4, <2>1, LcpDownLemma
    <3> HIDE DEF y
    <3>2. y.echo = 0
      BY <1>1, <3>1 DEF UnitOK, Rest, Less
    <3>3. /\ z \in Units /\ Rest(y, z) /\ z.ipcp = y.ipcp
          /\ Like(y.lcp, z.lcp) /\ z.lcp.calls = <<>>
      BY <3>1, CalledLcp DEF Parts
    <3> HIDE DEF z
    <3>4. Like(f, z.lcp) /\ ~z.lcp.upper
      BY <1>1, <1>3, <2>1, <3>1, <3>3 DEF Like
    <3>5. UnitOK(z)
      BY <3>1, <3>2, <3>3, <3>4 DEF UnitOK, Parts, Rest, Like
    <3> QED BY <1>1, <3>1, <3>3, <3>4, <3>5 DEF WentDown, Rest, Like
  <2>2. CASE ~d
    <3>1. /\ z \in Units /\ Rest(p, z) /\ z.ipcp = p.ipcp
          /\ Like(p.lcp, z.lcp) /\ z.lcp.calls = <<>>
      BY <1>4, <2>2, CalledLcp DEF Parts
    <3> HIDE DEF z
    <3>2. Rest(x, z) /\ z.ipcp = x.ipcp /\ Like(f, z.lcp)
      BY <1>1, <3>1 DEF Rest, Like
    <3>3. UnitOK(z)
      BY <1>3, <2>2, <3>1, <3>2, LcpQuiet DEF Like
    <3> QED BY <3>2, <3>3 DEF WentDown, Rest, Like
  <2> QED BY <2>1, <2>2
<1> HIDE DEF z
<1>6. WentDown(x, f, lcp_finished(z))
  <2> DEFINE w == lcp_finished(z)
  <2>1. /\ UnitOK(w) /\ w.alive = z.alive /\ w.echoRunning = z.echoRunning
        /\ w.lcp.flags = z.lcp.flags
        /\ w.lcp.upper <=> z.lcp.upper
        /\ z.lcp.state \in Lower => w.lcp = z.lcp
    BY <1>5, LcpFinishedLemma DEF WentDown
  <2> HIDE DEF w
  <2>2. WentDown(x, f, w)
    BY <1>5, <2>1 DEF WentDown
  <2> QED BY <2>2 DEF w
<1> QED
  BY <1>2, <1>3, <1>5, <1>6 DEF p

\* lcp_close() leaves LCP down.
LEMMA LcpCloseLemma ==
    ASSUME NEW x, UnitOK(x)
    PROVE  LET y == lcp_close(x) IN
           /\ UnitOK(y) /\ y.alive = x.alive /\ ~y.lcp.upper
           /\ y.echoRunning => x.echoRunning
           /\ x.lcp.state \in Lower => y.lcp.state = "INITIAL"
<1>0. x \in Units /\ x.lcp \in Rec /\ Safe(x.lcp) /\ x.lcp.calls = <<>>
  BY DEF UnitOK, Parts, Units
<1>1. CASE x.lcp.state = "STOPPED" /\ x.lcp.flags \cap {"PASSIVE", "SILENT"} # {}
  <2> DEFINE f == Goto(x.lcp, "CLOSED")
             p == Put(x, "lcp", f)
             y == lcp_finished(p)
  <2>1. f \in Rec /\ f.calls = <<>> /\ ~x.lcp.upper /\ ~f.upper /\ Safe(f)
    <3>1. /\ f \in Rec /\ f.state = "CLOSED" /\ f.retransmits = x.lcp.retransmits
          /\ SameBooks(x.lcp, f)
      BY <1>0, GotoFields DEF States
    <3> HIDE DEF f
    <3> QED BY <1>0, <1>1, <3>1 DEF Safe, SameBooks, Waiting, Negotiating
  <2>2. lcp_close(x) = y
    BY <1>1 DEF lcp_close
  <2> HIDE DEF f
  <2>3. /\ p \in Units /\ Rest(x, p) /\ p.ipcp = x.ipcp
        /\ Like(f, p.lcp) /\ p.lcp.calls = <<>>
    BY <1>0, <2>1, PutLcp
  <2> HIDE DEF p
  <2>4. UnitOK(p) /\ ~p.lcp.upper
    BY <1>1, <2>1, <2>3, LcpQuiet DEF Like
  <2>5. UnitOK(y) /\ y.alive = p.alive /\ y.echoRunning = p.echoRunning /\ ~y.lcp.upper
    BY <2>4, LcpFinishedLemma
  <2> HIDE DEF y
  <2> QED BY <1>1, <2>2, <2>3, <2>5 DEF Rest, Lower
<1>2. CASE ~(x.lcp.state = "STOPPED" /\ x.lcp.flags \cap {"PASSIVE", "SILENT"} # {})
  <2> DEFINE f == fsm_close(x.lcp)
  <2>1. /\ f \in Rec /\ Safe(f) /\ TellsDown(x.lcp, f) /\ ~f.upper
        /\ x.lcp.state \in Lower => f.state = "INITIAL"
    BY <1>0, CloseLemma, CloseTells DEF Step
  <2>2. lcp_close(x) = LcpDown(Put(x, "lcp", f))
    BY <1>2 DEF lcp_close
  <2> HIDE DEF f
  <2>3. WentDown(x, f, lcp_close(x))
    BY <2>1, <2>2, LcpHandled DEF Lower
  <2> QED BY <2>1, <2>3 DEF WentDown, Lower
<1> QED
  BY <1>1, <1>2

\* die() leaves LCP down, whether or not the task ends.
LEMMA DieLemma ==
    ASSUME NEW x, UnitOK(x)
    PROVE  LET y == die(x) IN
           /\ UnitOK(y) /\ ~y.lcp.upper
           /\ y.echoRunning => x.echoRunning
           /\ x.lcp.state \in Lower => y.lcp.state = "INITIAL"
<1> DEFINE c == lcp_close(x)
           k == [c EXCEPT !.alive = FALSE]
<1>1. /\ UnitOK(c) /\ ~c.lcp.upper
      /\ c.echoRunning => x.echoRunning
      /\ x.lcp.state \in Lower => c.lcp.state = "INITIAL"
  BY LcpCloseLemma
<1>2. die(x) = c \/ die(x) = k
  BY DEF die
<1> HIDE DEF c
<1>3. /\ k \in Units /\ k.lcp = c.lcp /\ k.ipcp = c.ipcp /\ k.auth = c.auth
      /\ k.auth_pending = c.auth_pending /\ k.phase = c.phase /\ k.ifup = c.ifup
      /\ k.echo = c.echo /\ k.echoRunning = c.echoRunning
  BY <1>1 DEF UnitOK, Parts, Units
<1> HIDE DEF k
<1>4. UnitOK(k)
  BY <1>1, <1>3 DEF UnitOK, Parts
<1> QED
  BY <1>1, <1>2, <1>3, <1>4

-----------------------------------------------------------------------------
(* Coming up.                                                              *)

\* Nothing but the phase and the authentication change.
LEMMA AuthQuiet ==
    ASSUME NEW x, UnitOK(x), NEW a, AuthOK(a), NEW s \in SUBSET AuthBits, NEW ph \in Phases,
           ph = "NETWORK" => s = {}
    PROVE  LET y == [x EXCEPT !.auth = a, !.auth_pending = s, !.phase = ph] IN
           UnitOK(y) /\ y.lcp = x.lcp /\ y.ipcp = x.ipcp /\ y.alive = x.alive
<1> DEFINE y == [x EXCEPT !.auth = a, !.auth_pending = s, !.phase = ph]
<1>1. a \in AuthRec /\ x \in Units
  BY DEF AuthOK, UnitOK, Parts
<1>2. /\ y \in Units /\ y.lcp = x.lcp /\ y.ipcp = x.ipcp /\ y.auth = a
      /\ y.auth_pending = s /\ y.phase = ph /\ y.ifup = x.ifup /\ y.alive = x.alive
      /\ y.echo = x.echo /\ y.echoRunning = x.echoRunning
  BY <1>1 DEF Units
<1> HIDE DEF y
<1>3. UnitOK(y)
  BY <1>2 DEF UnitOK, Parts
<1> QED
  BY <1>2, <1>3 DEF y

\* A handler of IPCP with its callbacks: up() is made on an open link.
LEMMA IpcpHandled ==
    ASSUME NEW x, UnitOK(x), x.alive, NEW f \in Rec, Safe(f),
           \/ TellsDown(x.ipcp, f) /\ (x.lcp.upper \/ f.state \in Lower)
           \/ TellsUp(x.ipcp, f),
           NEW ok \in BOOLEAN
    PROVE  /\ UnitOK(IpcpDone(Put(x, "ipcp", f), ok))
           /\ "up" \notin Calls(Put(x, "ipcp", f), "ipcp")
                => UnitOK(IpcpDown(Put(x, "ipcp", f)))
<1> DEFINE p == Put(x, "ipcp", f)
           y == IpcpDown(p)
<1>1. CASE TellsDown(x.ipcp, f) /\ (x.lcp.upper \/ f.state \in Lower)
  <2>1. UnitOK(y) /\ "up" \notin Calls(p, "ipcp")
    BY <1>1, IpcpDownLemma
  <2>2. IpcpDone(p, ok) = y
    BY <2>1 DEF IpcpDone
  <2> QED BY <2>1, <2>2
<1>2. CASE TellsUp(x.ipcp, f)
  <2>1. /\ p \in Units /\ Rest(x, p) /\ p.lcp = x.lcp
        /\ Like(f, p.ipcp) /\ p.ipcp.calls = f.calls
    BY PutIpcp DEF UnitOK, Parts
  <2>2. Calls(p, "ipcp") = {"up"}
    <3>1. p.ipcp.calls = Append(<<>>, "up")
      BY <1>2, <2>1 DEF TellsUp, UnitOK
    <3> HIDE DEF p
    <3> QED BY <3>1, OneCall
  <2>3. y = Called(p, "ipcp") /\ IpcpDone(p, ok) = ipcp_up(y, ok)
    BY <2>2 DEF IpcpDown, IpcpDone
  <2> HIDE DEF p
  <2>4. /\ y \in Units /\ Rest(p, y) /\ y.lcp = p.lcp
        /\ Like(p.ipcp, y.ipcp) /\ y.ipcp.calls = <<>>
    BY <2>1, <2>3, CalledIpcp DEF Like
  <2> HIDE DEF y
  <2>5. x.lcp.upper /\ y.lcp = x.lcp /\ Rest(x, y) /\ y.ipcp.upper /\ Safe(y.ipcp)
    BY <1>2, <2>1, <2>4 DEF UnitOK, TellsUp, Negotiating, Lower, Rest, Like
  <2>6. UnitOK(y)
    BY <2>4, <2>5 DEF UnitOK, Parts, Rest
  <2>7. CASE ok
    <3> DEFINE w == [y EXCEPT !.ifup = TRUE]
    <3>1. ipcp_up(y, ok) = w
      BY <2>7 DEF ipcp_up
    <3>2. /\ w \in Units /\ w.lcp = y.lcp /\ w.ipcp = y.ipcp /\ w.auth = y.auth
          /\ w.auth_pending = y.auth_pending /\ w.phase = y.phase /\ w.alive = y.alive
          /\ w.echo = y.echo /\ w.echoRunning = y.echoRunning
      BY <2>4 DEF Units
    <3> HIDE DEF w
    <3>3. w.alive
      BY <2>5, <3>2 DEF Rest
    <3>4. UnitOK(w)
      BY <2>5, <2>6, <3>2, <3>3 DEF UnitOK, Parts
    <3> QED BY <2>2, <2>3, <3>1, <3>4 DEF p
  <2>8. CASE ~ok
    <3> DEFINE g == fsm_close(y.ipcp)
    <3>1. g \in Rec /\ Safe(g) /\ TellsDown(y.ipcp, g)
      BY <2>4, <2>6, CloseLemma, CloseTells DEF Step, UnitOK, Parts, Units
    <3>2. ipcp_up(y, ok) = die(IpcpDown(Put(y, "ipcp", g)))
      BY <2>8 DEF ipcp_up
    <3> HIDE DEF g
    <3>3. UnitOK(IpcpDown(Put(y, "ipcp", g)))
      BY <2>5, <2>6, <3>1, IpcpDownLemma
    <3>4. UnitOK(ipcp_up(y, ok))
      BY <3>2, <3>3, DieLemma
    <3> QED BY <2>2, <2>3, <3>4 DEF p
  <2> QED BY <2>7, <2>8
<1> QED
  BY <1>1, <1>2

\* ipcp_open() makes no callback that brings the interface up.
LEMMA IpcpOpenLemma ==
    ASSUME NEW x, UnitOK(x)
    PROVE  UnitOK(ipcp_open(x))
<1> DEFINE f == fsm_open(x.ipcp)
           p == Put(x, "ipcp", f)
<1>1. x.ipcp \in Rec /\ Safe(x.ipcp)
  BY DEF UnitOK, Parts, Units
<1>2. f \in Rec /\ Safe(f) /\ TellsDown(x.ipcp, f) /\ (x.lcp.upper \/ f.state \in Lower)
  BY <1>1, OpenLemma, OpenTells DEF Step, UnitOK
<1>3. ipcp_open(x) = IpcpDone(p, TRUE)
  BY DEF ipcp_open
<1> HIDE DEF f
<1>4. UnitOK(IpcpDown(p)) /\ "up" \notin Calls(p, "ipcp")
  BY <1>2, IpcpDownLemma
<1> HIDE DEF p
<1> QED
  BY <1>3, <1>4 DEF IpcpDone

\* The check that too many echo requests are unanswered.
LEMMA LcpEchoFailureLemma ==
    ASSUME NEW x, UnitOK(x), ~x.echoRunning, x.lcp.upper \/ x.lcp.state = "INITIAL"
    PROVE  LET y == LcpEchoFailure(x) IN
           UnitOK(y) /\ ~y.echoRunning /\ y.lcp.state = "INITIAL"
<1> DEFINE f == fsm_lowerdown(x.lcp)
           d == LcpDown(Put(x, "lcp", f))
           e == [d EXCEPT !.phase = "TERMINATE"]
           y == IF x.lcp.state = "OPENED" THEN e ELSE x
           z == [y EXCEPT !.echosPending = 0]
<1>0. LcpEchoFailure(x) = die(z)
  BY DEF LcpEchoFailure
<1>1. x.lcp \in Rec /\ Safe(x.lcp)
  BY DEF UnitOK, Parts, Units
<1>2. UnitOK(y) /\ ~y.echoRunning /\ y.lcp.state \in Lower
  <2>1. CASE x.lcp.state = "OPENED"
    <3>1. f \in Rec /\ Safe(f) /\ TellsDown(x.lcp, f) /\ f.state \in Lower
      BY <1>1, LowerdownLemma, LowerdownTells DEF Step
    <3> HIDE DEF f
    <3>2. WentDown(x, f, d)
      BY <2>1, <3>1, LcpHandled
    <3> HIDE DEF d
    <3>3. UnitOK(d) /\ ~d.echoRunning /\ d.lcp.state \in Lower
      BY <3>1, <3>2 DEF WentDown
    <3>4. /\ e \in Units /\ e.lcp = d.lcp /\ e.ipcp = d.ipcp /\ e.auth = d.auth
          /\ e.phase = "TERMINATE" /\ e.ifup = d.ifup /\ e.alive = d.alive
          /\ e.echo = d.echo /\ e.echoRunning = d.echoRunning
      BY <3>3 DEF UnitOK, Parts, Units, Phases
    <3> HIDE DEF e
    <3>5. UnitOK(e)
      BY <3>3, <3>4 DEF UnitOK, Parts
    <3> QED BY <2>1, <3>3, <3>4, <3>5
  <2>2. CASE x.lcp.state # "OPENED"
    BY <1>1, <2>2 DEF Safe, Lower
  <2> QED BY <2>1, <2>2
<1> HIDE DEF y
<1>3. z \in Units /\ Rest(y, z) /\ z.lcp = y.lcp /\ z.ipcp = y.ipcp
  BY <1>2 DEF UnitOK, Parts, Units, Rest
<1> HIDE DEF z
<1>4. UnitOK(z) /\ ~z.echoRunning /\ z.lcp.state \in Lower
  BY <1>2, <1>3 DEF UnitOK, Parts, Rest
<1> QED
  BY <1>0, <1>4, DieLemma

\* LcpEchoCheck(), when the timer has run out or is started.
LEMMA LcpEchoCheckLemma ==
    ASSUME NEW x, UnitOK(x), ~x.echoRunning, x.lcp.upper \/ x.lcp.state = "INITIAL"
    PROVE  UnitOK(LcpEchoCheck(x))
<1> DEFINE n == [x EXCEPT !.echosPending = x.echosPending + 1]
           y == IF x.echosPending >= EchoFails THEN LcpEchoFailure(n) ELSE n
           z == [y EXCEPT !.echo = y.echo + 1, !.echoRunning = TRUE]
<1>0. LcpEchoCheck(x) = IF ~y.alive THEN y ELSE z
  BY DEF LcpEchoCheck
<1>1. n \in Units /\ Rest(x, n) /\ n.lcp = x.lcp /\ n.ipcp = x.ipcp
  BY DEF UnitOK, Parts, Units, Rest
<1> HIDE DEF n
<1>2. UnitOK(n) /\ ~n.echoRunning /\ (n.lcp.upper \/ n.lcp.state = "INITIAL")
  BY <1>1 DEF UnitOK, Parts, Rest
<1>3. UnitOK(y) /\ ~y.echoRunning /\ (y.lcp.upper \/ y.lcp.state = "INITIAL")
  BY <1>2, LcpEchoFailureLemma
<1> HIDE DEF y
<1>4. y.echo = 0
  BY <1>3 DEF UnitOK
<1>5. /\ z \in Units /\ z.lcp = y.lcp /\ z.ipcp = y.ipcp /\ z.auth = y.auth
      /\ z.auth_pending = y.auth_pending /\ z.phase = y.phase /\ z.ifup = y.ifup
      /\ z.alive = y.alive /\ z.echo = 1 /\ z.echoRunning = TRUE
  <2>1. y \in Units /\ y.echo + 1 = 1
    BY <1>3, <1>4 DEF UnitOK, Parts
  <2>2. z = [y EXCEPT !.echo = 1, !.echoRunning = TRUE]
    BY <2>1
  <2> HIDE DEF z
  <2> QED BY <2>1, <2>2 DEF Units
<1> HIDE DEF z
<1>6. UnitOK(z)
  BY <1>3, <1>5 DEF UnitOK, Parts
<1> QED
  BY <1>0, <1>3, <1>6

\* lcp_echo_lowerup() on a link that has just come up.
LEMMA LcpEchoLowerupLemma ==
    ASSUME NEW x, UnitOK(x), x.lcp.upper, ~x.echoRunning
    PROVE  UnitOK(lcp_echo_lowerup(x))
<1> DEFINE y == [x EXCEPT !.echosPending = 0, !.echoRunning = FALSE]
<1>1. /\ y \in Units /\ y.lcp = x.lcp /\ y.ipcp = x.ipcp /\ y.auth = x.auth
      /\ y.auth_pending = x.auth_pending /\ y.phase = x.phase /\ y.ifup = x.ifup
      /\ y.alive = x.alive /\ y.echo = x.echo /\ y.echoRunning = FALSE
  BY DEF UnitOK, Parts, Units
<1>2. lcp_echo_lowerup(x) = IF EchoFails = 0 THEN y ELSE LcpEchoCheck(y)
  BY DEF lcp_echo_lowerup
<1> HIDE DEF y
<1>3. UnitOK(y) /\ y.lcp.upper
  BY <1>1 DEF UnitOK, Parts
<1> QED
  BY <1>1, <1>2, <1>3, LcpEchoCheckLemma

\* link_established(): authentication, or the network at once.
LEMMA LinkEstablishedLemma ==
    ASSUME NEW x, UnitOK(x), NEW o
    PROVE  UnitOK(link_established(x, o))
<1> DEFINE y == IF AuthRequired /\ o.go = "none" /\ ~o.login THEN die(x) ELSE x
           a == CASE o.go = "chap" -> ChapAuthPeer(y.auth)
                  [] o.go = "upap" -> upap_authpeer(y.auth)
                  [] OTHER -> y.auth
           b == CASE o.ho = "chap" -> ChapAuthWithPeer(a)
                  [] o.ho = "upap" -> upap_authwithpeer(a)
                  [] OTHER -> a
           pending == (CASE o.go = "chap" -> {"CHAP_PEER"}
                         [] o.go = "upap" -> {"UPAP_PEER"} [] OTHER -> {})
                      \cup (CASE o.ho = "chap" -> {"CHAP_WITHPEER"}
                              [] o.ho = "upap" -> {"UPAP_WITHPEER"} [] OTHER -> {})
           z == [y EXCEPT !.auth = b, !.auth_pending = pending, !.phase = "AUTHENTICATE"]
           w == [z EXCEPT !.phase = "NETWORK"]
<1>1. UnitOK(y)
  BY DieLemma
<1>2. link_established(x, o) = IF ~y.alive THEN y ELSE IF pending = {} THEN ipcp_open(w) ELSE z
  BY DEF link_established
<1>3. pending \in SUBSET AuthBits
  BY DEF AuthBits
<1> HIDE DEF y, pending
<1>4. AuthOK(a)
  <2>1. AuthOK(y.auth)
    BY <1>1 DEF UnitOK, Parts
  <2>2. AuthOK(ChapAuthPeer(y.auth)) /\ AuthOK(upap_authpeer(y.auth))
    BY <2>1, ChapAuthPeerOK, upap_authwithpeerOK
  <2> QED BY <2>1, <2>2
<1> HIDE DEF a
<1>5. AuthOK(b)
  <2>1. AuthOK(ChapAuthWithPeer(a)) /\ AuthOK(upap_authwithpeer(a))
    BY <1>4, ChapAuthWithPeerOK, upap_authwithpeerOK
  <2> QED BY <1>4, <2>1
<1> HIDE DEF b
<1>6. UnitOK(z) /\ z.auth_pending = pending /\ z.auth = b
  <2>1. "AUTHENTICATE" \in Phases /\ "AUTHENTICATE" # "NETWORK"
    BY DEF Phases
  <2>2. UnitOK(z)
    BY <1>1, <1>3, <1>5, <2>1, AuthQuiet
  <2>3. z.auth_pending = pending /\ z.auth = b
    BY <1>1 DEF UnitOK, Parts, Units
  <2> QED BY <2>2, <2>3
<1> HIDE DEF z
<1>7. pending = {} => UnitOK(w)
  <2>1. "NETWORK" \in Phases
    BY DEF Phases
  <2>2. w = [z EXCEPT !.auth = b, !.auth_pending = pending, !.phase = "NETWORK"]
    BY <1>6 DEF UnitOK, Parts, Units
  <2> HIDE DEF w
  <2>3. ASSUME pending = {} PROVE UnitOK([z EXCEPT !.auth = b, !.auth_pending = pending, !.phase = "NETWORK"])
    BY <1>3, <1>5, <1>6, <2>1, <2>3, AuthQuiet
  <2> QED BY <2>2, <2>3
<1> HIDE DEF w
<1> QED
  BY <1>1, <1>2, <1>6, <1>7, IpcpOpenLemma

\* lcp_up(): authentication, IPCP and the echo check get their lower layer.
LEMMA LcpUpLemma ==
    ASSUME NEW x, UnitOK(x), x.lcp.upper, ~x.echoRunning, NEW o
    PROVE  UnitOK(lcp_up(x, o))
<1> DEFINE a == upap_lowerup(ChapLowerUp(x.auth))
           y == [x EXCEPT !.auth = a]
           f == fsm_lowerup(y.ipcp)
           p == Put(y, "ipcp", f)
           z == IpcpDone(p, TRUE)
<1>1. lcp_up(x, o) = link_established(lcp_echo_lowerup(z), o)
  BY DEF lcp_up
<1>2. AuthOK(a)
  <2>1. AuthOK(x.auth)
    BY DEF UnitOK, Parts
  <2> QED BY <2>1, ChapLowerUpOK, upap_lowerupOK
<1> HIDE DEF a
<1>3. /\ y \in Units /\ y.lcp = x.lcp /\ y.ipcp = x.ipcp /\ y.auth = a
      /\ y.auth_pending = x.auth_pending /\ y.phase = x.phase /\ y.ifup = x.ifup
      /\ y.alive = x.alive /\ y.echo = x.echo /\ y.echoRunning = x.echoRunning
  <2>1. a \in AuthRec /\ x \in Units
    BY <1>2 DEF AuthOK, UnitOK, Parts
  <2> QED BY <2>1 DEF Units
<1> HIDE DEF y
<1>4. UnitOK(y)
  BY <1>2, <1>3 DEF UnitOK, Parts
<1>5. f \in Rec /\ Safe(f) /\ TellsDown(y.ipcp, f)
  <2>1. y.ipcp \in Rec /\ Safe(y.ipcp)
    BY <1>4 DEF UnitOK, Parts, Units
  <2> QED BY <2>1, LowerupLemma, LowerupTells DEF Step, TellsDown
<1> HIDE DEF f
<1>6. /\ UnitOK(IpcpDown(p)) /\ IpcpDown(p).lcp = y.lcp
      /\ IpcpDown(p).echoRunning = y.echoRunning /\ "up" \notin Calls(p, "ipcp")
  BY <1>3, <1>4, <1>5, IpcpDownLemma
<1> HIDE DEF p
<1>7. z = IpcpDown(p)
  BY <1>6 DEF IpcpDone
<1> HIDE DEF z
<1>8. UnitOK(lcp_echo_lowerup(z))
  BY <1>3, <1>6, <1>7, LcpEchoLowerupLemma
<1> QED
  BY <1>1, <1>8, LinkEstablishedLemma

\* up() of LCP: the negotiation that ends now had no link.
LEMMA LcpComesUp ==
    ASSUME NEW x, UnitOK(x), NEW f \in Rec, Safe(f), TellsUp(x.lcp, f), NEW o
    PROVE  /\ UnitOK(LcpDone(Put(x, "lcp", f), o))
           /\ "up" \in Calls(Put(x, "lcp", f), "lcp")
<1> DEFINE p == Put(x, "lcp", f)
           y == Called(p, "lcp")
<1>1. /\ p \in Units /\ Rest(x, p) /\ p.ipcp = x.ipcp
      /\ Like(f, p.lcp) /\ p.lcp.calls = f.calls
  BY PutLcp DEF UnitOK, Parts
<1> HIDE DEF p
<1>2. Calls(p, "lcp") = {"up"}
  <2>1. p.lcp.calls = Append(<<>>, "up")
    BY <1>1 DEF TellsUp, UnitOK
  <2> QED BY <2>1, OneCall
<1>3. LcpDown(p) = y
  BY <1>2 DEF LcpDown
<1>4. LcpDone(p, o) = lcp_up(y, o)
  BY <1>2, <1>3 DEF LcpDone
<1>5. /\ y \in Units /\ Rest(p, y) /\ y.ipcp = p.ipcp
      /\ Like(p.lcp, y.lcp) /\ y.lcp.calls = <<>>
  BY <1>1, CalledLcp DEF Like
<1> HIDE DEF y
<1>6. y.lcp.upper /\ ~x.echoRunning /\ ~x.lcp.upper
  BY <1>1, <1>5 DEF UnitOK, TellsUp, Like, Negotiating
<1>7. UnitOK(y)
  BY <1>1, <1>5, <1>6 DEF UnitOK, Parts, Rest, Like
<1>8. ~y.echoRunning
  BY <1>1, <1>5, <1>6 DEF Rest
<1>9. UnitOK(LcpDone(p, o))
  BY <1>4, <1>6, <1>7, <1>8, LcpUpLemma
<1> QED
  BY <1>2, <1>9 DEF p

\* What the authentication protocols report.
LEMMA AuthDoneLemma ==
    ASSUME NEW x, UnitOK(x), NEW a, AuthOK(a)
    PROVE  UnitOK(AuthDone(x, a))
<1> DEFINE b == [a EXCEPT !.calls = <<>>]
           y == [x EXCEPT !.auth = b]
           r == {a.calls[i] : i \in DOMAIN a.calls}
<1>1. AuthOK(b)
  <2>1. <<>> \in Seq(Reports)
    OBVIOUS
  <2>2. /\ b \in AuthRec /\ b.chapS = a.chapS /\ b.challenge = a.challenge
        /\ b.upapC = a.upapC /\ b.upap = a.upap
    BY <2>1 DEF AuthOK, AuthRec
  <2> HIDE DEF b
  <2> QED BY <2>2 DEF AuthOK
<1>2. AuthDone(x, a) = IF "peer_fail" \in r THEN die(y)
                       ELSE IF r \cap AuthBits # {}
                         THEN AuthSuccess(y, CHOOSE c \in r : c \in AuthBits)
                         ELSE y
  BY DEF AuthDone
<1> HIDE DEF b, r
<1>3. /\ y \in Units /\ y.lcp = x.lcp /\ y.ipcp = x.ipcp /\ y.auth = b
      /\ y.auth_pending = x.auth_pending /\ y.phase = x.phase /\ y.ifup = x.ifup
      /\ y.alive = x.alive /\ y.echo = x.echo /\ y.echoRunning = x.echoRunning
  <2>1. b \in AuthRec /\ x \in Units
    BY <1>1 DEF AuthOK, UnitOK, Parts
  <2> QED BY <2>1 DEF Units
<1> HIDE DEF y
<1>4. UnitOK(y)
  BY <1>1, <1>3 DEF UnitOK, Parts
<1>5. ASSUME NEW bit PROVE UnitOK(AuthSuccess(y, bit))
  <2> DEFINE s == y.auth_pending \ {bit}
             k == [y EXCEPT !.auth_pending = s]
             n == [k EXCEPT !.phase = "NETWORK"]
  <2>1. /\ y \in Units /\ y.auth_pending \in SUBSET AuthBits /\ y.phase \in Phases /\ AuthOK(y.auth)
        /\ y.phase = "NETWORK" => y.auth_pending = {}
    BY <1>4 DEF UnitOK, Parts, Units
  <2>2. s \in SUBSET AuthBits /\ (y.phase = "NETWORK" => s = {}) /\ "NETWORK" \in Phases
    BY <2>1 DEF Phases
  <2>3. AuthSuccess(y, bit) = IF k.auth_pending = {} THEN ipcp_open(n) ELSE k
    BY DEF AuthSuccess
  <2> HIDE DEF s
  <2>4. k = [y EXCEPT !.auth = y.auth, !.auth_pending = s, !.phase = y.phase] /\ k.auth_pending = s
    BY <2>1 DEF Units
  <2>5. n = [y EXCEPT !.auth = y.auth, !.auth_pending = s, !.phase = "NETWORK"]
    BY <2>1 DEF Units
  <2> HIDE DEF k, n
  <2>6. UnitOK(k)
    BY <1>4, <2>1, <2>2, <2>4, AuthQuiet
  <2>7. s = {} => UnitOK(n)
    BY <1>4, <2>1, <2>2, <2>5, AuthQuiet
  <2> QED BY <2>3, <2>4, <2>6, <2>7, IpcpOpenLemma
<1> QED
  BY <1>2, <1>4, <1>5, DieLemma

-----------------------------------------------------------------------------
(***************************************************************************)
(* The initial state and the actions.                                      *)
(***************************************************************************)

\* A packet of the peer that the automaton does not ignore.
LEMMA InputsLemma ==
    ASSUME NEW g \in Rec, Safe(g), NEW f \in Inputs(g)
    PROVE  /\ f \in Rec /\ Safe(f)
           /\ TellsDown(g, f) \/ TellsUp(g, f)
           /\ g.state \in Lower => f = g
<1> DEFINE C == {"CONFREQ", "CONFACK", "CONFREJ", "TERMREQ", "TERMACK"}
<1>1. PICK q \in Packets(g), v \in {"CONFACK", "CONFREJ"} : f = fsm_input(g, q, v, q.ci)
  BY DEF Inputs
<1>2. PICK c \in C : q = Packet(c, g.reqid, g.go)
  BY DEF Packets
<1>3. q.ci = g.go
  BY <1>2 DEF Packet
<1>4. /\ g.reqid \in Ids /\ g.go \in CI \cup {Malformed} /\ v \in Verdicts
      /\ c \in {"CONFREQ", "CONFACK", "CONFNAK", "CONFREJ", "TERMREQ", "TERMACK"}
      /\ c \in Codes \cup {"UNKNOWN"}
  BY DEF Rec, Verdicts, Codes
<1>5. f = fsm_input(g, Packet(c, g.reqid, g.go), v, g.go)
  BY <1>1, <1>2, <1>3
<1>6. Step(g, f)
  BY <1>4, <1>5, InputLemma
<1>7. (TellsDown(g, f) \/ TellsUp(g, f)) /\ (g.state \in Lower => f = g)
  <2> DEFINE h == fsm_input(g, Packet(c, g.reqid, g.go), v, g.go)
  <2>1. (TellsDown(g, h) \/ TellsUp(g, h)) /\ (g.state \in Lower => h = g)
    BY <1>4, InputTells
  <2> HIDE DEF h
  <2>2. f = h
    BY <1>5 DEF h
  <2> QED BY <2>1, <2>2
<1> QED
  BY <1>6, <1>7 DEF Step

\* The unit as ppp_task() leaves it before its loop.
LEMMA InitLemma == Init => UnitOK(u)
<1> SUFFICES ASSUME Init PROVE UnitOK(u)
  OBVIOUS
<1> DEFINE c == CHOOSE k \in CI : TRUE
           i == fsm_init(LcpFlags, c, 0)
           l == fsm_lowerup(i)
           ip == fsm_init({}, c, 0)
           m == fsm_open(l)
           r == [lcp |-> l, ipcp |-> ip, auth |-> AuthInit,
                 auth_pending |-> {}, phase |-> "ESTABLISH",
                 ifup |-> FALSE, alive |-> TRUE,
                 echo |-> 0, echoRunning |-> FALSE, echosPending |-> 0]
<1>1. u = Put(r, "lcp", m)
  BY DEF Init
<1>2. c \in CI
  BY UnitAssumption
<1> HIDE DEF c
<1>3. 0 \in Ids /\ LcpFlags \in SUBSET FlagBits
  BY FsmAssumption DEF Ids, LcpFlags, FlagBits
<1>4. /\ i \in Rec /\ i.state = "INITIAL" /\ ~i.upper /\ i.calls = <<>> /\ i.retransmits = 0
      /\ ip \in Rec /\ ip.state = "INITIAL" /\ ~ip.upper /\ ip.calls = <<>> /\ ip.retransmits = 0
  <2>1. ASSUME NEW fl \in SUBSET FlagBits
        PROVE  LET k == fsm_init(fl, c, 0) IN
               k \in Rec /\ k.state = "INITIAL" /\ ~k.upper /\ k.calls = <<>> /\ k.retransmits = 0
    BY <1>2, <1>3 DEF fsm_init, Rec, States
  <2> QED BY <1>3, <2>1
<1> HIDE DEF i, ip
<1>5. Safe(i) /\ Safe(ip)
  BY <1>4 DEF Safe, Waiting, Negotiating
<1>6. l \in Rec /\ Safe(l) /\ ~l.upper /\ l.calls = <<>> /\ l.state = "CLOSED"
  <2>1. l \in Rec /\ Safe(l) /\ ~l.upper /\ l.calls = <<>>
    BY <1>4, <1>5, LowerupLemma, LowerupTells DEF Step
  <2>2. l = Goto(i, "CLOSED")
    BY <1>4 DEF fsm_lowerup
  <2>3. l.state = "CLOSED"
    BY <1>4, <2>2, GotoFields DEF States
  <2> QED BY <2>1, <2>3
<1> HIDE DEF l
<1>7. m \in Rec /\ Safe(m) /\ ~m.upper /\ m.calls = <<>>
  <2>1. m = StartNegotiation(l)
    BY <1>6 DEF fsm_open
  <2> HIDE DEF m
  <2> QED BY <1>6, <2>1, StartLemma, StartTells DEF Step
<1> HIDE DEF m
<1>8. AuthOK(AuthInit)
  BY DEF AuthOK, AuthInit, AuthRec, AuthStates, Challenging
<1>9. /\ r \in Units /\ r.ipcp = ip /\ r.auth = AuthInit /\ r.phase = "ESTABLISH" /\ r.auth_pending = {}
      /\ r.ifup = FALSE /\ r.alive = TRUE /\ r.echo = 0 /\ r.echoRunning = FALSE
  BY <1>4, <1>6, <1>8 DEF Units, AuthOK, Phases
<1> HIDE DEF r
<1>10. /\ u \in Units /\ Rest(r, u) /\ u.ipcp = r.ipcp
       /\ Like(m, u.lcp) /\ u.lcp.calls = m.calls
  BY <1>1, <1>7, <1>9, PutLcp
<1> QED
  BY <1>4, <1>5, <1>7, <1>8, <1>9, <1>10 DEF UnitOK, Parts, Rest, Like, Lower

\* Every action goes from a unit that is alive to one that is right.
LEMMA NextLemma == UnitOK(u) /\ [Next]_u => UnitOK(u')
<1> SUFFICES ASSUME UnitOK(u), [Next]_u PROVE UnitOK(u')
  OBVIOUS
<1>0. /\ u \in Units /\ u.lcp \in Rec /\ Safe(u.lcp) /\ u.ipcp \in Rec /\ Safe(u.ipcp)
      /\ AuthOK(u.auth)
  BY DEF UnitOK, Parts, Units
<1>1. CASE LcpInput
  <2>1. PICK f \in Inputs(u.lcp) :
          LET x == Put(u, "lcp", f) IN
          IF "up" \in Calls(x, "lcp")
            THEN \E o \in Options : Become(LcpDone(x, o))
            ELSE Become(LcpDown(x))
    BY <1>1 DEF LcpInput
  <2>2. /\ f \in Rec /\ Safe(f)
        /\ TellsDown(u.lcp, f) \/ TellsUp(u.lcp, f)
        /\ u.lcp.state \in Lower => f = u.lcp
    BY <1>0, InputsLemma
  <2>3. CASE TellsUp(u.lcp, f)
    <3>1. PICK o \in Options : u' = LcpDone(Put(u, "lcp", f), o)
      BY <2>1, <2>2, <2>3, LcpComesUp DEF Become
    <3> QED BY <2>2, <2>3, <3>1, LcpComesUp
  <2>4. CASE TellsDown(u.lcp, f)
    <3>1. u.lcp.state = "INITIAL" => f.state = "INITIAL"
      BY <2>2 DEF Lower
    <3>2. WentDown(u, f, LcpDown(Put(u, "lcp", f))) /\ "up" \notin Calls(Put(u, "lcp", f), "lcp")
      BY <2>2, <2>4, <3>1, LcpHandled
    <3>3. u' = LcpDown(Put(u, "lcp", f))
      BY <2>1, <3>2 DEF Become
    <3> QED BY <3>2, <3>3 DEF WentDown
  <2> QED BY <2>2, <2>3, <2>4
<1>2. CASE IpcpInput
  <2>1. PICK f \in Inputs(u.ipcp) :
          LET x == Put(u, "ipcp", f) IN
          IF "up" \in Calls(x, "ipcp")
            THEN \E ok \in BOOLEAN : Become(IpcpDone(x, ok))
            ELSE Become(IpcpDown(x))
    BY <1>2 DEF IpcpInput
  <2>2. /\ f \in Rec /\ Safe(f)
        /\ TellsDown(u.ipcp, f) \/ TellsUp(u.ipcp, f)
        /\ u.ipcp.state \in Lower => f = u.ipcp
    BY <1>0, InputsLemma
  <2>3. u.lcp.upper \/ f.state \in Lower
    BY <2>2 DEF UnitOK
  <2> DEFINE x == Put(u, "ipcp", f)
  <2>4. /\ \A ok \in BOOLEAN : u.alive => UnitOK(IpcpDone(x, ok))
        /\ u.alive /\ "up" \notin Calls(x, "ipcp") => UnitOK(IpcpDown(x))
    BY <2>2, <2>3, IpcpHandled
  <2>5. CASE "up" \in Calls(x, "ipcp")
    <3>1. PICK ok \in BOOLEAN : u.alive /\ u' = IpcpDone(x, ok)
      BY <2>1, <2>5 DEF Become
    <3> HIDE DEF x
    <3> QED BY <2>4, <3>1
  <2>6. CASE "up" \notin Calls(x, "ipcp")
    <3>1. u.alive /\ u' = IpcpDown(x)
      BY <2>1, <2>6 DEF Become
    <3> HIDE DEF x
    <3> QED BY <2>4, <2>6, <3>1
  <2> QED BY <2>5, <2>6
<1>3. CASE ChapInput
  <2>1. PICK a \in {ChapReceiveChallenge(u.auth), ChapReceiveResponse(u.auth, TRUE),
                    ChapReceiveResponse(u.auth, FALSE), ChapReceiveSuccess(u.auth),
                    ChapReceiveFailure(u.auth)} : u' = AuthDone(u, a)
    BY <1>3 DEF ChapInput, Become
  <2>2. AuthOK(a)
    BY <1>0, ChapReceiveChallengeOK, ChapReceiveResponseOK, ChapReceiveSuccessOK
  <2> QED BY <2>1, <2>2, AuthDoneLemma
<1>4. CASE upap_input
  <2>1. PICK a \in {upap_rauthreq(u.auth, TRUE), upap_rauthreq(u.auth, FALSE),
                    upap_rauthack(u.auth), upap_rauthnak(u.auth)} : u' = AuthDone(u, a)
    BY <1>4 DEF upap_input, Become
  <2>2. AuthOK(a)
    BY <1>0, upap_inputOK
  <2> QED BY <2>1, <2>2, AuthDoneLemma
<1>5. CASE ProtocolReject
  <2>1. CASE u.lcp.state = "OPENED" /\ u' = LcpDown(Put(u, "lcp", fsm_protreject(u.lcp)))
    <3> DEFINE f == fsm_protreject(u.lcp)
    <3>1. f \in Rec /\ Safe(f) /\ TellsDown(u.lcp, f)
      BY <1>0, <2>1, ProtrejectLemma, ProtrejectTells DEF Step
    <3> HIDE DEF f
    <3>2. WentDown(u, f, LcpDown(Put(u, "lcp", f)))
      BY <2>1, <3>1, LcpHandled
    <3> QED BY <2>1, <3>2 DEF WentDown, f
  <2>2. CASE u' = ipcp_lowerdown(u)
    <3> DEFINE f == fsm_lowerdown(u.ipcp)
    <3>1. f \in Rec /\ Safe(f) /\ TellsDown(u.ipcp, f) /\ f.state \in Lower
      BY <1>0, LowerdownLemma, LowerdownTells DEF Step
    <3>2. u' = IpcpDown(Put(u, "ipcp", f))
      BY <2>2 DEF ipcp_lowerdown
    <3> HIDE DEF f
    <3> QED BY <3>1, <3>2, IpcpDownLemma
  <2>3. CASE u' = AuthDone(u, ChapProtocolReject(u.auth))
    BY <1>0, <2>3, ChapProtocolRejectOK, AuthDoneLemma
  <2>4. CASE u' = AuthDone(u, upap_protrej(u.auth))
    BY <1>0, <2>4, upap_protrejOK, AuthDoneLemma
  <2> QED BY <1>5, <2>1, <2>2, <2>3, <2>4 DEF ProtocolReject, Become
<1>6. CASE lcp_received_echo_reply
  <2>1. u' = [u EXCEPT !.echosPending = 0]
    BY <1>6 DEF lcp_received_echo_reply, Become
  <2>2. u' \in Units /\ Rest(u, u') /\ (u').lcp = u.lcp /\ (u').ipcp = u.ipcp
    BY <1>0, <2>1 DEF Units, Rest
  <2> QED BY <2>2 DEF UnitOK, Parts, Rest
<1>7. CASE Alarm
  <2>1. CASE u.lcp.timers > 0 /\ u' = LcpDown(Put(u, "lcp", fsm_timeout(u.lcp)))
    <3> DEFINE f == fsm_timeout(u.lcp)
    <3>1. /\ f \in Rec /\ Safe(f) /\ TellsDown(u.lcp, f)
          /\ u.lcp.state \in Lower => f.state = u.lcp.state
      BY <1>0, <2>1, TimeoutHandlerLemma, TimeoutTells DEF Step
    <3> HIDE DEF f
    <3>2. WentDown(u, f, LcpDown(Put(u, "lcp", f)))
      BY <3>1, LcpHandled DEF Lower
    <3> QED BY <2>1, <3>2 DEF WentDown, f
  <2>2. CASE u.ipcp.timers > 0 /\ u' = IpcpDown(Put(u, "ipcp", fsm_timeout(u.ipcp)))
    <3> DEFINE f == fsm_timeout(u.ipcp)
    <3>1. /\ f \in Rec /\ Safe(f) /\ TellsDown(u.ipcp, f)
          /\ u.ipcp.state \in Lower => f.state = u.ipcp.state
      BY <1>0, <2>2, TimeoutHandlerLemma, TimeoutTells DEF Step
    <3> HIDE DEF f
    <3>2. u.lcp.upper \/ f.state \in Lower
      BY <3>1 DEF UnitOK
    <3>3. UnitOK(IpcpDown(Put(u, "ipcp", f)))
      BY <3>1, <3>2, IpcpDownLemma
    <3> QED BY <2>2, <3>3 DEF f
  <2>3. CASE \/ u' = AuthDone(u, ChapChallengeTimeout(u.auth))
             \/ u' = AuthDone(u, ChapResponseTimeout(u.auth))
             \/ u' = AuthDone(u, ChapRechallenge(u.auth))
             \/ u' = AuthDone(u, upap_timeout(u.auth))
    <3>1. /\ AuthOK(ChapChallengeTimeout(u.auth)) /\ AuthOK(ChapResponseTimeout(u.auth))
          /\ AuthOK(ChapRechallenge(u.auth)) /\ AuthOK(upap_timeout(u.auth))
      BY <1>0, ChapChallengeTimeoutOK, ChapResponseTimeoutOK, ChapRechallengeOK, upap_timeoutOK
    <3> QED BY <2>3, <3>1, AuthDoneLemma
  <2> QED BY <1>7, <2>1, <2>2, <2>3 DEF Alarm, Become
<1>8. CASE LcpEchoTimeout
  <2> DEFINE x == [u EXCEPT !.echo = u.echo - 1]
             y == [x EXCEPT !.echoRunning = FALSE]
  <2>1. u.echo > 0 /\ u' = IF u.echoRunning THEN LcpEchoCheck(y) ELSE x
    BY <1>8 DEF LcpEchoTimeout, Become
  <2>2. u.echoRunning /\ u.echo - 1 = 0 /\ (u.lcp.upper \/ u.lcp.state = "INITIAL")
    BY <2>1 DEF UnitOK
  <2>3. y = [u EXCEPT !.echo = 0, !.echoRunning = FALSE]
    BY <1>0, <2>2 DEF Units
  <2> HIDE DEF x, y
  <2>4. /\ y \in Units /\ y.lcp = u.lcp /\ y.ipcp = u.ipcp /\ y.auth = u.auth
        /\ y.auth_pending = u.auth_pending /\ y.phase = u.phase /\ y.ifup = u.ifup
        /\ y.alive = u.alive /\ y.echo = 0 /\ y.echoRunning = FALSE
    BY <1>0, <2>3 DEF Units
  <2>5. UnitOK(y)
    BY <2>4 DEF UnitOK, Parts
  <2> QED BY <2>1, <2>2, <2>4, <2>5, LcpEchoCheckLemma
<1>9. CASE Interrupt
  BY <1>9, DieLemma DEF Interrupt, Become
<1>10. CASE Term
  <2> DEFINE f == [u.lcp EXCEPT !.flags = {}]
             x == [u EXCEPT !.lcp = f]
  <2>1. u' = die(x)
    BY <1>10 DEF Term, Become
  <2>2. /\ f \in Rec /\ f.state = u.lcp.state /\ f.upper = u.lcp.upper /\ f.calls = u.lcp.calls
        /\ f.timers = u.lcp.timers /\ f.acked = u.lcp.acked /\ f.acking = u.lcp.acking
        /\ f.retransmits = u.lcp.retransmits
    BY <1>0 DEF Rec
  <2> HIDE DEF f
  <2>3. Safe(f)
    BY <1>0, <2>2 DEF Safe
  <2>4. x \in Units /\ Rest(u, x) /\ x.lcp = f /\ x.ipcp = u.ipcp
    BY <1>0, <2>2 DEF Units, Rest
  <2> HIDE DEF x
  <2>5. x.lcp.calls = <<>>
    BY <2>2, <2>4 DEF UnitOK
  <2>6. UnitOK(x)
    BY <2>2, <2>3, <2>4, <2>5, LcpQuiet
  <2> QED BY <2>1, <2>6, DieLemma
<1>11. CASE Exit
  <2> DEFINE d == die(u)
  <2>1. UnitOK(d) /\ ~d.lcp.upper
    BY DieLemma
  <2>2. u' = [d EXCEPT !.alive = FALSE]
    BY <1>11 DEF Exit
  <2> HIDE DEF d
  <2>3. /\ u' \in Units /\ (u').lcp = d.lcp /\ (u').ipcp = d.ipcp /\ (u').auth = d.auth
        /\ (u').auth_pending = d.auth_pending /\ (u').phase = d.phase /\ (u').ifup = d.ifup
        /\ (u').echo = d.echo /\ (u').echoRunning = d.echoRunning
    BY <2>1, <2>2 DEF UnitOK, Parts, Units
  <2> QED BY <2>1, <2>3 DEF UnitOK, Parts
<1>12. CASE UNCHANGED u
  BY <1>12
<1> QED
  BY <1>1, <1>2, <1>3, <1>4, <1>5, <1>6, <1>7, <1>8, <1>9, <1>10, <1>11, <1>12 DEF Next

UnitInv == UnitOK(u)

(***************************************************************************)
(* The invariant holds in every state of every unit: the handlers of the   *)
(* daemon (ppp_task() and all that it calls) keep it.                      *)
(***************************************************************************)
THEOREM UnitInvariant == Spec => []UnitInv
<1>1. Init => UnitInv
  BY InitLemma DEF UnitInv
<1>2. UnitInv /\ [Next]_u => UnitInv'
  BY NextLemma DEF UnitInv
<1> QED
  BY <1>1, <1>2, PTL DEF Spec

(***************************************************************************)
(* The IP interface is up only on top of an open link (lcp_down(),         *)
(* ipcp_down() and die() of every path that takes LCP or IPCP down).       *)
(***************************************************************************)
THEOREM InterfaceAlwaysNeedsLink == Spec => []InterfaceNeedsLink
<1>1. UnitInv => InterfaceNeedsLink
  BY DEF UnitInv, UnitOK, Parts, Safe, InterfaceNeedsLink
<1> QED
  BY <1>1, UnitInvariant, PTL

(***************************************************************************)
(* While the network phase lasts no authentication is pending              *)
(* (link_established(), auth_peer_success(), auth_withpeer_success()).     *)
(***************************************************************************)
THEOREM NetworkAfterAuthentication == Spec => []NetworkPhase
<1>1. UnitInv => NetworkPhase
  BY DEF UnitInv, UnitOK, NetworkPhase
<1> QED
  BY <1>1, UnitInvariant, PTL

(***************************************************************************)
(* A challenge and a request of PAP that wait for an answer are repeated:  *)
(* their timer is on the callout list, whatever was cancelled before.      *)
(***************************************************************************)
THEOREM AuthAlwaysTimed == Spec => []AuthTimers
<1>1. UnitInv => AuthTimers
  BY DEF UnitInv, UnitOK, Parts, AuthOK, Challenging, AuthTimers
<1> QED
  BY <1>1, UnitInvariant, PTL

(***************************************************************************)
(* The assertion of LcpEchoCheck() never fails: there is one echo timer at *)
(* the most, and lcp_echo_timer_running says whether there is one.         *)
(***************************************************************************)
THEOREM OneEchoTimerAlways == Spec => []OneEchoTimer
<1>1. UnitInv => OneEchoTimer
  BY DEF UnitInv, UnitOK, OneEchoTimer
<1> QED
  BY <1>1, UnitInvariant, PTL

-----------------------------------------------------------------------------
(***************************************************************************)
(* IPCP (Ipcp): the options, the CIs other than the old form of the        *)
(* addresses, which no end falls back to while the link lives, and an end. *)
(***************************************************************************)
Num == Nat \cup {Max(Slots)}

IpOptions ==
    [addr : BOOLEAN, olda : BOOLEAN, vj : BOOLEAN, oldv : BOOLEAN, our : Num, his : Num, slots : Num, cflag : Num]

IpAllowed == [addr : BOOLEAN, vj : BOOLEAN, slots : Num, cflag : Num]

IpCI == [type : {"ADDR", "VJ", "OLDVJ"}, a : Num, b : Num]

IpEnd ==
    [wo : IpOptions, go : IpOptions, ho : IpOptions, ao : IpAllowed, req : BOOLEAN,
     accl : BOOLEAN, accr : BOOLEAN, cis : Nat, naks : Nat, acked : BOOLEAN, acks : BOOLEAN, dead : BOOLEAN]

\* What the wishes go of an end are while the link lives: it never falls back
\* to the old form, and gives up its own address only if it may.
WishOK(E, go) ==
    /\ go \in IpOptions /\ ~go.olda /\ (E.wo.addr => go.addr)
    /\ go.our # E.wo.our => E.accl

\* The address of the peer that E has acknowledged.
HisOK(E) == E.acks /\ E.ho.addr => E.ho.his = E.wo.his \/ E.accr

\* Both ends, while neither has ended the link.
IpcpAlive(f) ==
    (\A e \in Ends : ~f[e].dead) =>
        \A e \in Ends :
            /\ WishOK(f[e], f[e].go) /\ HisOK(f[e])
            /\ f[e].acked /\ f[Peer(e)].ho.addr => f[Peer(e)].ho.his = f[e].go.our

IpcpInv == end \in [Ends -> IpEnd] /\ IpcpAlive(end)

-----------------------------------------------------------------------------
LEMMA PeerIs == \A e \in Ends : Peer(e) \in Ends /\ Peer(e) # e /\ Peer(Peer(e)) = e
                                /\ \A x \in Ends : x = e \/ x = Peer(e)
<1>1. PICK a \in Ends, b \in Ends : a # b /\ Ends = {a, b}
  BY IpcpAssumption
<1>2. ASSUME NEW e \in Ends PROVE Peer(e) \in Ends /\ Peer(e) # e
  <2>1. \E p \in Ends : p # e
    BY <1>1
  <2> QED BY <2>1 DEF Peer
<1> QED
  BY <1>1, <1>2

LEMMA NumIn == 0 \in Num /\ 1 \in Num /\ Nat \subseteq Num /\ Max(Slots) \in Num /\ Slots \subseteq Num
  BY IpcpAssumption DEF Num

LEMMA NoIpIn == NoIp \in IpOptions /\ ~NoIp.addr /\ ~NoIp.olda
<1> DEFINE F == FALSE
           z == 0
           o == [addr |-> F, olda |-> F, vj |-> F, oldv |-> F, our |-> z, his |-> z, slots |-> z, cflag |-> z]
<1>1. F \in BOOLEAN /\ z \in Num /\ ~F
  BY NumIn
<1>2. NoIp = o
  BY DEF NoIp
<1> HIDE DEF F, z
<1>3. o \in IpOptions /\ ~o.addr /\ ~o.olda
  BY <1>1 DEF IpOptions
<1> HIDE DEF o
<1> QED
  BY <1>2, <1>3

\* What the changes of an end leave alone.
SameWish(E, F) == F.wo = E.wo /\ F.go = E.go /\ F.accl = E.accl /\ F.accr = E.accr

\* Only what is known of the peer differs between E and F.
Judged(E, F) ==
    /\ F \in IpEnd /\ SameWish(E, F) /\ F.ao = E.ao /\ F.cis = E.cis /\ F.naks = E.naks
    /\ F.acked = E.acked /\ F.acks = E.acks /\ F.dead = E.dead

LEMMA JudgedHo ==
    ASSUME NEW E \in IpEnd, NEW o \in IpOptions
    PROVE  Judged(E, [E EXCEPT !.ho = o]) /\ [E EXCEPT !.ho = o].ho = o
  BY DEF Judged, IpEnd, SameWish

LEMMA JudgedTrans ==
    ASSUME NEW E, NEW F, NEW G, Judged(E, F), Judged(F, G)
    PROVE  Judged(E, G)
  BY DEF Judged, SameWish

\* The wishes of an end whose old ones are revived.
LEMMA RevivedOK ==
    ASSUME NEW E \in IpEnd, WishOK(E, E.go)
    PROVE  WishOK(E, Revived(E)) /\ Revived(E).our = E.go.our
<1> DEFINE g == E.go
           T == TRUE
           q1 == [g EXCEPT !.vj = T]
           q2 == [q1 EXCEPT !.oldv = T]
<1>1. Revived(E) \in {g, q1, q2}
  <2>1. ~(E.wo.addr /\ ~g.addr /\ ~g.olda)
    BY DEF WishOK
  <2> QED BY <2>1 DEF Revived
<1>2. g \in IpOptions /\ T \in BOOLEAN
  BY DEF WishOK
<1> HIDE DEF g, T
<1>3. q1 \in IpOptions /\ q1.addr = g.addr /\ q1.olda = g.olda /\ q1.our = g.our
  BY <1>2 DEF IpOptions
<1> HIDE DEF q1
<1>4. q2 \in IpOptions /\ q2.addr = g.addr /\ q2.olda = g.olda /\ q2.our = g.our
  BY <1>2, <1>3 DEF IpOptions
<1> HIDE DEF q2
<1>5. WishOK(E, g)
  BY DEF g
<1> QED
  BY <1>1, <1>2, <1>3, <1>4, <1>5 DEF WishOK, g

\* A request has one address at the most, the one that is wished for.
Asks(A) == {c \in IpCI : c.type = "ADDR" => c.a = A}

LEMMA CIIn ==
    ASSUME NEW type \in {"ADDR", "VJ", "OLDVJ"}, NEW a \in Num, NEW b \in Num
    PROVE  CI3(type, a, b) \in IpCI /\ CI3(type, a, b).type = type /\ CI3(type, a, b).a = a
  BY DEF CI3, IpCI

LEMMA RequestOK ==
    ASSUME NEW go \in IpOptions, ~go.olda
    PROVE  ipcp_addci(go) \in Seq(Asks(go.our))
<1>1. go.our \in Num /\ go.slots \in Num /\ go.cflag \in Num /\ 0 \in Num
  BY NumIn DEF IpOptions
<1>2. /\ CI3("ADDR", go.our, 0) \in Asks(go.our) /\ CI3("OLDVJ", 0, 0) \in Asks(go.our)
      /\ CI3("VJ", go.slots, go.cflag) \in Asks(go.our)
  BY <1>1, CIIn DEF Asks
<1> DEFINE S == Asks(go.our)
           x == CI3("ADDR", go.our, 0)
           y == CI3("OLDVJ", 0, 0)
           z == CI3("VJ", go.slots, go.cflag)
           s1 == IF ~go.addr THEN <<>> ELSE <<x>>
           s2 == IF ~go.vj THEN <<>> ELSE IF go.oldv THEN <<y>> ELSE <<z>>
<1>3. ipcp_addci(go) = s1 \o s2
  BY DEF ipcp_addci
<1> HIDE DEF S, x, y, z
<1>4. s1 \in Seq(S) /\ s2 \in Seq(S)
  <2>1. x \in S /\ y \in S /\ z \in S
    BY <1>2 DEF x, y, z, S
  <2> QED BY <2>1
<1> HIDE DEF s1, s2
<1>5. s1 \o s2 \in Seq(S)
  BY <1>4
<1> QED
  BY <1>3, <1>5 DEF S

-----------------------------------------------------------------------------
(***************************************************************************)
(* The peer's request.                                                     *)
(***************************************************************************)
IpVerdicts == {"ACK", "NAK", "REJ"}

\* The verdict j of E on c.
JudgedOK(E, c, j) ==
    /\ j.orc \in IpVerdicts /\ j.ci \in IpCI /\ Judged(E, j.E)
    /\ j.orc = "ACK" => IF c.type = "ADDR" THEN j.E.ho.his = c.a /\ (c.a = E.wo.his \/ E.accr)
                        ELSE j.E.ho.addr = E.ho.addr /\ j.E.ho.his = E.ho.his

LEMMA CISet ==
    ASSUME NEW c \in IpCI, NEW a \in Num, NEW b \in Num
    PROVE  [c EXCEPT !.a = a, !.b = b] \in IpCI
  BY DEF IpCI

LEMMA JudgeAddrsOK ==
    ASSUME NEW E \in IpEnd, NEW c \in IpCI, c.type = "ADDR"
    PROVE  JudgedOK(E, c, JudgeAddrs(E, c))
<1> DEFINE j == JudgeAddrs(E, c)
           no1 == HisRefused(E, c.a)
           T == TRUE
           F == FALSE
           z == 0
           g == E.ho
           q1 == [g EXCEPT !.addr = T]
           q2 == [q1 EXCEPT !.olda = F]
           q3 == [q2 EXCEPT !.his = c.a]
           ho == [q3 EXCEPT !.our = z]
           n == IF no1 THEN E.wo.his ELSE c.a
           d == [c EXCEPT !.a = n, !.b = c.b]
<1>1. E.ho \in IpOptions /\ E.go \in IpOptions /\ E.wo \in IpOptions /\ E.wo.his \in Num
      /\ c.a \in Num /\ c.b \in Num /\ T \in BOOLEAN /\ F \in BOOLEAN /\ z \in Num
  BY NumIn DEF IpEnd, IpOptions, IpCI
<1>2. CASE ~E.ao.addr
  <2>1. j = Verdict3("REJ", c, E)
    BY <1>2 DEF JudgeAddrs
  <2> QED BY <2>1 DEF JudgedOK, Verdict3, IpVerdicts, Judged, SameWish
<1>3. CASE E.ao.addr
  <2> DEFINE K == [E EXCEPT !.ho = ho]
  <2>1. j = Verdict3(IF no1 THEN "NAK" ELSE "ACK", d, [E EXCEPT !.ho = ho, !.go.our = E.go.our])
    BY <1>3 DEF JudgeAddrs
  <2>2. [E EXCEPT !.ho = ho, !.go.our = E.go.our] = K
    <3>1. [E.go EXCEPT !.our = E.go.our] = E.go
      BY <1>1 DEF IpOptions
    <3> HIDE DEF ho
    <3> QED BY <1>1, <3>1 DEF IpEnd
  <2>3. ho \in IpOptions /\ ho.his = c.a
    <3>1. g \in IpOptions
      BY <1>1
    <3> HIDE DEF T, F, z, g
    <3>2. q1 \in IpOptions
      BY <1>1, <3>1 DEF IpOptions
    <3> HIDE DEF q1
    <3>3. q2 \in IpOptions
      BY <1>1, <3>2 DEF IpOptions
    <3> HIDE DEF q2
    <3>4. q3 \in IpOptions /\ q3.his = c.a
      BY <1>1, <3>3 DEF IpOptions
    <3> HIDE DEF q3
    <3> QED BY <1>1, <3>4 DEF IpOptions
  <2> HIDE DEF ho
  <2>4. Judged(E, K) /\ K.ho = ho
    BY <2>3, JudgedHo
  <2>5. d \in IpCI
    BY <1>1, CISet
  <2> HIDE DEF K, d
  <2>6. j.orc = (IF no1 THEN "NAK" ELSE "ACK") /\ j.ci = d /\ j.E = K
    BY <2>1, <2>2 DEF Verdict3
  <2> QED BY <2>3, <2>4, <2>5, <2>6 DEF JudgedOK, IpVerdicts, HisRefused
<1> QED
  BY <1>2, <1>3 DEF j

LEMMA JudgeVjOK ==
    ASSUME NEW E \in IpEnd, NEW c \in IpCI, c.type # "ADDR"
    PROVE  JudgedOK(E, c, JudgeVj(E, c))
<1> DEFINE j == JudgeVj(E, c)
           T == TRUE
           g == E.ho
           q1 == [g EXCEPT !.vj = T]
<1>1. g \in IpOptions /\ c.a \in Num /\ c.b \in Num /\ T \in BOOLEAN /\ E.ao.slots \in Num
      /\ E.wo.cflag \in Num /\ Max(Slots) \in Num /\ 1 \in Num
  BY NumIn DEF IpEnd, IpOptions, IpCI, IpAllowed
<1>2. CASE ~E.ao.vj
  <2>1. j = Verdict3("REJ", c, E)
    BY <1>2 DEF JudgeVj
  <2> QED BY <2>1 DEF JudgedOK, Verdict3, IpVerdicts, Judged, SameWish
<1>3. CASE E.ao.vj /\ c.type = "OLDVJ"
  <2> DEFINE q2 == [q1 EXCEPT !.oldv = T]
             q3 == [q2 EXCEPT !.slots = Max(Slots)]
             q4 == [q3 EXCEPT !.cflag = 1]
             K == [E EXCEPT !.ho = q4]
  <2>1. j = Verdict3("ACK", c, [E EXCEPT !.ho.vj = T, !.ho.oldv = T, !.ho.slots = Max(Slots), !.ho.cflag = 1])
    BY <1>3 DEF JudgeVj
  <2>2. [E EXCEPT !.ho.vj = T, !.ho.oldv = T, !.ho.slots = Max(Slots), !.ho.cflag = 1] = K
    BY DEF IpEnd
  <2> HIDE DEF T, g
  <2>3. q1 \in IpOptions /\ q1.addr = g.addr /\ q1.his = g.his
    BY <1>1 DEF IpOptions
  <2> HIDE DEF q1
  <2>4. q2 \in IpOptions /\ q2.addr = g.addr /\ q2.his = g.his
    BY <1>1, <2>3 DEF IpOptions
  <2> HIDE DEF q2
  <2>5. q3 \in IpOptions /\ q3.addr = g.addr /\ q3.his = g.his
    BY <1>1, <2>4 DEF IpOptions
  <2> HIDE DEF q3
  <2>6. q4 \in IpOptions /\ q4.addr = g.addr /\ q4.his = g.his
    BY <1>1, <2>5 DEF IpOptions
  <2> HIDE DEF q4
  <2>7. Judged(E, K) /\ K.ho = q4
    BY <2>6, JudgedHo
  <2> HIDE DEF K
  <2>8. j.orc = "ACK" /\ j.ci = c /\ j.E = K
    BY <2>1, <2>2 DEF Verdict3
  <2> QED BY <2>6, <2>7, <2>8 DEF JudgedOK, IpVerdicts, g
<1>4. CASE E.ao.vj /\ c.type # "OLDVJ"
  <2> DEFINE q3 == [q1 EXCEPT !.slots = c.a]
             q4 == [q3 EXCEPT !.cflag = E.wo.cflag]
             K == [E EXCEPT !.ho = q4]
             many == c.a > E.ao.slots
             noid == c.b = 1 /\ E.ao.cflag = 0
             x == IF many THEN E.ao.slots ELSE c.a
             y == IF noid THEN E.wo.cflag ELSE c.b
             d == [c EXCEPT !.a = x, !.b = y]
  <2>1. j = Verdict3(IF many \/ noid THEN "NAK" ELSE "ACK", d,
                     [E EXCEPT !.ho.vj = T, !.ho.slots = c.a, !.ho.cflag = E.wo.cflag])
    BY <1>4 DEF JudgeVj
  <2>2. [E EXCEPT !.ho.vj = T, !.ho.slots = c.a, !.ho.cflag = E.wo.cflag] = K
    BY DEF IpEnd
  <2> HIDE DEF T, g
  <2>3. q1 \in IpOptions /\ q1.addr = g.addr /\ q1.his = g.his
    BY <1>1 DEF IpOptions
  <2> HIDE DEF q1
  <2>5. q3 \in IpOptions /\ q3.addr = g.addr /\ q3.his = g.his
    BY <1>1, <2>3 DEF IpOptions
  <2> HIDE DEF q3
  <2>6. q4 \in IpOptions /\ q4.addr = g.addr /\ q4.his = g.his
    BY <1>1, <2>5 DEF IpOptions
  <2> HIDE DEF q4
  <2>7. Judged(E, K) /\ K.ho = q4
    BY <2>6, JudgedHo
  <2>9. d \in IpCI
    <3>1. x \in Num /\ y \in Num
      BY <1>1
    <3> HIDE DEF x, y
    <3> QED BY <3>1, CISet
  <2> HIDE DEF K, d, many, noid
  <2>8. j.orc = (IF many \/ noid THEN "NAK" ELSE "ACK") /\ j.ci = d /\ j.E = K
    BY <2>1, <2>2 DEF Verdict3
  <2> QED BY <2>6, <2>7, <2>8, <2>9, <1>4 DEF JudgedOK, IpVerdicts, g
<1> QED
  BY <1>2, <1>3, <1>4 DEF j

LEMMA JudgeOK ==
    ASSUME NEW E \in IpEnd, NEW c \in IpCI
    PROVE  JudgedOK(E, c, Judge3(E, c))
<1>1. IsVj(c) <=> c.type # "ADDR"
  BY DEF IsVj, VjTypes, IpCI
<1> QED
  BY <1>1, JudgeAddrsOK, JudgeVjOK DEF Judge3

-----------------------------------------------------------------------------
(***************************************************************************)
(* The answer to a request.                                                *)
(***************************************************************************)
IpAnyResult(x) == TRUE
Combining == INSTANCE SeqLemmas WITH Op <- Combine3, Holds <- IpAnyResult

IpAnswer == [rc : IpVerdicts, ci : Seq(IpCI), E : IpEnd]

\* The address A of the peer was acknowledged by E if any was.
HisIs(E, A) == E.ho.addr => E.ho.his = A /\ (A = E.wo.his \/ E.accr)

\* The answer z of E to a request for the address A.
AnswerOK(E, A, z) == z \in IpAnswer /\ Judged(E, z.E) /\ (z.rc = "ACK" => HisIs(z.E, A))

LEMMA IpAnswerIn ==
    ASSUME NEW rc \in IpVerdicts, NEW ci \in Seq(IpCI), NEW E \in IpEnd
    PROVE  [rc |-> rc, ci |-> ci, E |-> E] \in IpAnswer
  BY DEF IpAnswer

LEMMA IpAnswerSet ==
    ASSUME NEW z \in IpAnswer, NEW ci \in Seq(IpCI), NEW E \in IpEnd
    PROVE  /\ [z EXCEPT !.E = E] = [rc |-> z.rc, ci |-> z.ci, E |-> E]
           /\ [z EXCEPT !.ci = ci, !.E = E] = [rc |-> z.rc, ci |-> ci, E |-> E]
<1> DEFINE S == Seq(IpCI)
           V == IpVerdicts
           R == [rc : V, ci : S, E : IpEnd]
<1>1. z \in R /\ ci \in S
  BY DEF IpAnswer
<1> HIDE DEF S, V
<1>2. [z EXCEPT !.E = E] = [rc |-> z.rc, ci |-> z.ci, E |-> E]
  BY <1>1
<1>3. [z EXCEPT !.ci = ci, !.E = E] = [rc |-> z.rc, ci |-> ci, E |-> E]
  <2> DEFINE q == [z EXCEPT !.ci = ci]
  <2>1. q \in R /\ q.rc = z.rc /\ q.ci = ci
    BY <1>1
  <2>2. [z EXCEPT !.ci = ci, !.E = E] = [q EXCEPT !.E = E]
    OBVIOUS
  <2> HIDE DEF q
  <2>3. [q EXCEPT !.E = E] = [rc |-> q.rc, ci |-> q.ci, E |-> E]
    BY <2>1
  <2> QED BY <2>1, <2>2, <2>3
<1> QED
  BY <1>2, <1>3

LEMMA CombineOK ==
    ASSUME NEW E \in IpEnd, NEW A, NEW z, AnswerOK(E, A, z), NEW c \in Asks(A)
    PROVE  AnswerOK(E, A, Combine3(z, c))
<1> DEFINE j == Judge3(z.E, c)
           orc == IF j.orc = "NAK" /\ Tough(z.E) THEN "REJ" ELSE j.orc
           back == IF Tough(z.E) THEN c ELSE j.ci
           more == Append(z.ci, back)
           r == Combine3(z, c)
<1>1. c \in IpCI /\ (c.type = "ADDR" => c.a = A)
  BY DEF Asks
<1>2. z.rc \in IpVerdicts /\ z.ci \in Seq(IpCI) /\ z.E \in IpEnd /\ Judged(E, z.E)
      /\ z = [rc |-> z.rc, ci |-> z.ci, E |-> z.E]
  BY DEF AnswerOK, IpAnswer
<1>3. JudgedOK(z.E, c, j)
  BY <1>1, <1>2, JudgeOK
<1>4. Judged(E, j.E) /\ j.E \in IpEnd /\ j.ci \in IpCI /\ j.orc \in IpVerdicts
  <2> HIDE DEF j
  <2>1. Judged(z.E, j.E) /\ j.ci \in IpCI /\ j.orc \in IpVerdicts
    BY <1>3 DEF JudgedOK
  <2> QED BY <1>2, <2>1, JudgedTrans DEF Judged
<1>5. orc \in IpVerdicts /\ back \in IpCI
  BY <1>1, <1>4 DEF IpVerdicts
<1>6. more \in Seq(IpCI) /\ <<back>> \in Seq(IpCI)
  <2> HIDE DEF back
  <2> QED BY <1>2, <1>5
<1>7. r = IF (orc = "ACK" /\ z.rc # "ACK") \/ (orc = "NAK" /\ z.rc = "REJ") THEN [z EXCEPT !.E = j.E]
          ELSE IF orc # z.rc THEN [rc |-> orc, ci |-> <<back>>, E |-> j.E]
          ELSE [z EXCEPT !.ci = more, !.E = j.E]
  BY DEF Combine3
<1>8. /\ [z EXCEPT !.E = j.E] = [rc |-> z.rc, ci |-> z.ci, E |-> j.E]
      /\ [z EXCEPT !.ci = more, !.E = j.E] = [rc |-> z.rc, ci |-> more, E |-> j.E]
  <2>1. z \in IpAnswer
    BY DEF AnswerOK
  <2> HIDE DEF j, more
  <2> QED BY <1>4, <1>6, <2>1, IpAnswerSet
<1>9. orc = "ACK" => j.orc = "ACK"
  OBVIOUS
<1>10. ASSUME orc = "ACK", z.rc = "ACK" PROVE HisIs(j.E, A)
  <2>1. HisIs(z.E, A)
    BY <1>10 DEF AnswerOK
  <2>2. Judged(z.E, j.E) /\ IF c.type = "ADDR" THEN j.E.ho.his = c.a /\ (c.a = z.E.wo.his \/ z.E.accr)
                            ELSE j.E.ho.addr = z.E.ho.addr /\ j.E.ho.his = z.E.ho.his
    BY <1>3, <1>9, <1>10 DEF JudgedOK
  <2> HIDE DEF j
  <2> QED BY <1>1, <2>1, <2>2 DEF HisIs, Judged, SameWish
<1> HIDE DEF j, orc, back, more, r
<1>11. CASE (orc = "ACK" /\ z.rc # "ACK") \/ (orc = "NAK" /\ z.rc = "REJ")
  <2>1. r = [rc |-> z.rc, ci |-> z.ci, E |-> j.E] /\ z.rc # "ACK"
    BY <1>7, <1>8, <1>11
  <2>2. r \in IpAnswer
    BY <1>2, <1>4, <2>1, IpAnswerIn
  <2> QED BY <1>4, <2>1, <2>2 DEF AnswerOK, r
<1>12. CASE ~((orc = "ACK" /\ z.rc # "ACK") \/ (orc = "NAK" /\ z.rc = "REJ")) /\ orc # z.rc
  <2>1. r = [rc |-> orc, ci |-> <<back>>, E |-> j.E] /\ orc # "ACK"
    BY <1>7, <1>12
  <2>2. r \in IpAnswer
    BY <1>4, <1>5, <1>6, <2>1, IpAnswerIn
  <2> QED BY <1>4, <2>1, <2>2 DEF AnswerOK, r
<1>13. CASE orc = z.rc
  <2>1. r = [rc |-> z.rc, ci |-> more, E |-> j.E]
    BY <1>7, <1>8, <1>13
  <2>2. r \in IpAnswer
    BY <1>2, <1>4, <1>6, <2>1, IpAnswerIn
  <2> QED BY <1>4, <1>10, <1>13, <2>1, <2>2 DEF AnswerOK, r
<1> QED
  BY <1>11, <1>12, <1>13

LEMMA WithAddrOK ==
    ASSUME NEW E \in IpEnd, NEW A, NEW z, AnswerOK(E, A, z)
    PROVE  AnswerOK(E, A, WithAddr(z))
<1> DEFINE c == CI3("ADDR", z.E.wo.his, 0)
           F == FALSE
           K == [z.E EXCEPT !.req = F]
           more == Append(z.ci, c)
<1>1. z.rc \in IpVerdicts /\ z.ci \in Seq(IpCI) /\ z.E \in IpEnd /\ Judged(E, z.E)
      /\ z = [rc |-> z.rc, ci |-> z.ci, E |-> z.E]
  BY DEF AnswerOK, IpAnswer
<1>2. c \in IpCI
  <2>1. z.E.wo.his \in Num /\ 0 \in Num
    BY <1>1, NumIn DEF IpEnd, IpOptions
  <2> QED BY <2>1, CIIn
<1>3. Judged(E, K) /\ K \in IpEnd
  <2>1. F \in BOOLEAN
    OBVIOUS
  <2> HIDE DEF F
  <2> QED BY <1>1, <2>1 DEF Judged, SameWish, IpEnd
<1>4. WithAddr(z) = z \/ (z.rc = "ACK" /\ WithAddr(z) = [rc |-> "NAK", ci |-> <<c>>, E |-> K])
      \/ (z.rc # "ACK" /\ WithAddr(z) = [z EXCEPT !.ci = more])
  BY DEF WithAddr
<1>5. more \in Seq(IpCI) /\ <<c>> \in Seq(IpCI) /\ "NAK" \in IpVerdicts
  <2> HIDE DEF c
  <2> QED BY <1>1, <1>2 DEF IpVerdicts
<1> HIDE DEF c, K, more
<1>6. [z EXCEPT !.ci = more] = [rc |-> z.rc, ci |-> more, E |-> z.E]
  BY <1>1
<1>7. [rc |-> "NAK", ci |-> <<c>>, E |-> K] \in IpAnswer /\ [rc |-> z.rc, ci |-> more, E |-> z.E] \in IpAnswer
  BY <1>1, <1>3, <1>5, IpAnswerIn
<1> QED
  BY <1>1, <1>3, <1>4, <1>6, <1>7 DEF AnswerOK

LEMMA ReqOK ==
    ASSUME NEW E \in IpEnd, NEW A \in Num, NEW s \in Seq(Asks(A))
    PROVE  AnswerOK(E, A, ipcp_reqci(E, s))
<1> DEFINE K == [E EXCEPT !.ho = NoIp]
           base == [rc |-> "ACK", ci |-> <<>>, E |-> K]
           H == {z \in IpAnswer : AnswerOK(E, A, z)}
<1>1. Judged(E, K) /\ K.ho = NoIp /\ K \in IpEnd
  <2>1. NoIp \in IpOptions
    BY NoIpIn
  <2> QED BY <2>1, JudgedHo DEF Judged
<1>2. HisIs(K, A)
  BY <1>1, NoIpIn DEF HisIs
<1> HIDE DEF K
<1>3. base \in H
  <2>1. base \in IpAnswer
    <3>1. "ACK" \in IpVerdicts /\ <<>> \in Seq(IpCI)
      BY DEF IpVerdicts
    <3> QED BY <1>1, <3>1, IpAnswerIn
  <2> QED BY <1>1, <1>2, <2>1 DEF AnswerOK
<1> DEFINE S == Asks(A)
<1>4. s \in Seq(S)
  OBVIOUS
<1>5. \A z : z \in H <=> AnswerOK(E, A, z)
  BY DEF AnswerOK
<1> HIDE DEF base, H
<1>6. \A i \in 1 .. Len(s) : \A z \in H : Combine3(z, s[i]) \in H
  <2> TAKE i \in 1 .. Len(s)
  <2> TAKE z \in H
  <2> DEFINE c == s[i]
  <2>1. c \in S
    <3> HIDE DEF S
    <3> QED BY <1>4
  <2>2. AnswerOK(E, A, z)
    BY <1>5
  <2> HIDE DEF c
  <2>3. AnswerOK(E, A, Combine3(z, c))
    BY <2>1, <2>2, CombineOK
  <2> QED BY <1>5, <2>3 DEF c
<1> HIDE DEF S
<1>7. Combining!Fold(base, s) \in H
  BY <1>3, <1>4, <1>6, Combining!FoldIn
<1>8. Combining!Fold(base, s) = FoldLeft(Combine3, base, s)
  BY Zenon DEF Combining!Fold, FoldLeft, Combining!FoldLeft, MapThenFoldSet,
               Combining!MapThenFoldSet, Max, Combining!Max
<1>9. ipcp_reqci(E, s) = WithAddr(FoldLeft(Combine3, base, s))
  BY DEF ipcp_reqci, base, K
<1>10. AnswerOK(E, A, FoldLeft(Combine3, base, s))
  BY <1>5, <1>7, <1>8
<1> HIDE DEF AnswerOK
<1> QED
  BY <1>9, <1>10, WithAddrOK

-----------------------------------------------------------------------------
(***************************************************************************)
(* Naks and Rejects.                                                       *)
(***************************************************************************)
NakExtraHolds(x) == TRUE
Naking == INSTANCE SeqLemmas WITH Op <- NakExtra, Holds <- NakExtraHolds

LEMMA NakAddrOK ==
    ASSUME NEW E, NEW go \in IpOptions, WishOK(E, go), NEW c \in IpCI
    PROVE  WishOK(E, NakAddr(E, go, c))
<1> DEFINE n == IF E.accl /\ c.a # 0 THEN c.a ELSE go.our
           q == NakAddr(E, go, c)
<1>1. n \in Num
  BY DEF IpCI, IpOptions
<1>2. q = [go EXCEPT !.our = n]
  BY DEF NakAddr
<1>3. n # go.our => E.accl
  OBVIOUS
<1> HIDE DEF n, q
<1>4. q \in IpOptions /\ q.addr = go.addr /\ q.olda = go.olda /\ q.our = n
  BY <1>1, <1>2 DEF IpOptions
<1> QED
  BY <1>3, <1>4 DEF WishOK, q

LEMMA NakVjOK ==
    ASSUME NEW E, NEW go \in IpOptions, NEW try \in IpOptions, WishOK(E, try), NEW c \in IpCI
    PROVE  WishOK(E, NakVj(go, try, c))
<1> DEFINE T == TRUE
           F == FALSE
           q0 == [try EXCEPT !.oldv = T]
           q1 == [try EXCEPT !.oldv = F]
           n == IF c.a < go.slots THEN c.a ELSE try.slots
           fl == IF c.b = 0 THEN 0 ELSE try.cflag
           q2 == [q1 EXCEPT !.slots = n]
           q3 == [q2 EXCEPT !.cflag = fl]
<1>1. n \in Num /\ fl \in Num /\ T \in BOOLEAN /\ F \in BOOLEAN
  BY NumIn DEF IpCI, IpOptions
<1>2. NakVj(go, try, c) = q0 \/ NakVj(go, try, c) = q3
  <2>1. [try EXCEPT !.oldv = F, !.slots = n, !.cflag = fl] = q3
    <3> HIDE DEF n, fl
    <3> QED BY DEF IpOptions
  <2> QED BY <2>1 DEF NakVj
<1> HIDE DEF T, F, n, fl
<1>3. q0 \in IpOptions /\ q0.addr = try.addr /\ q0.olda = try.olda /\ q0.our = try.our
  BY <1>1 DEF IpOptions
<1>4. q1 \in IpOptions /\ q1.addr = try.addr /\ q1.olda = try.olda /\ q1.our = try.our
  BY <1>1 DEF IpOptions
<1> HIDE DEF q0, q1
<1>5. q2 \in IpOptions /\ q2.addr = try.addr /\ q2.olda = try.olda /\ q2.our = try.our
  BY <1>1, <1>4 DEF IpOptions
<1> HIDE DEF q2
<1>6. q3 \in IpOptions /\ q3.addr = try.addr /\ q3.olda = try.olda /\ q3.our = try.our
  BY <1>1, <1>5 DEF IpOptions
<1> HIDE DEF q3
<1> QED
  BY <1>2, <1>3, <1>6 DEF WishOK

\* The options tried so far while a Nak is read.
NakState(E, z) ==
    /\ z \in [E : {E}, ok : BOOLEAN, try : IpOptions, novj : BOOLEAN, noaddr : BOOLEAN]
    /\ WishOK(E, z.try)

LEMMA NakExtraOK ==
    ASSUME NEW E, NEW z, NakState(E, z), NEW c \in IpCI
    PROVE  NakState(E, NakExtra(z, c))
<1> DEFINE T == TRUE
           F == FALSE
<1>1. z \in [E : {E}, ok : BOOLEAN, try : IpOptions, novj : BOOLEAN, noaddr : BOOLEAN] /\ WishOK(E, z.try)
      /\ z.E = E /\ z.try \in IpOptions
  BY DEF NakState
<1>2. CASE IsVj(c)
  <2> DEFINE b == z.ok /\ ~z.E.go.vj /\ ~z.novj
             r == [z EXCEPT !.ok = b, !.novj = T]
  <2>1. NakExtra(z, c) = r
    BY <1>2 DEF NakExtra, IsVj, VjTypes
  <2>2. b \in BOOLEAN /\ T \in BOOLEAN
    OBVIOUS
  <2> HIDE DEF b, T
  <2> QED BY <1>1, <2>1, <2>2 DEF NakState
<1>3. CASE ~IsVj(c)
  <2> DEFINE b == z.ok /\ ~z.E.go.addr /\ ~z.noaddr
             t1 == [z.try EXCEPT !.addr = T]
             t2 == [t1 EXCEPT !.olda = F]
             t3 == NakAddr(z.E, t2, c)
             r == [z EXCEPT !.ok = b, !.noaddr = T, !.try = t3]
  <2>0. c.type = "ADDR"
    BY <1>3 DEF IsVj, VjTypes, IpCI
  <2>9. [z.try EXCEPT !.addr = T, !.olda = F] = t2
    OBVIOUS
  <2>1. NakExtra(z, c) = r
    BY <1>3, <2>0, <2>9 DEF NakExtra
  <2>2. b \in BOOLEAN /\ T \in BOOLEAN /\ F \in BOOLEAN /\ T /\ ~F
    OBVIOUS
  <2> HIDE DEF b, T, F
  <2>3. t1 \in IpOptions /\ t1.addr = T /\ t1.our = z.try.our
    BY <1>1, <2>2 DEF IpOptions
  <2> HIDE DEF t1
  <2>4. t2 \in IpOptions /\ t2.addr = T /\ t2.our = z.try.our /\ t2.olda = F
    BY <2>2, <2>3 DEF IpOptions
  <2> HIDE DEF t2
  <2>5. WishOK(E, t2)
    BY <1>1, <2>2, <2>4 DEF WishOK
  <2>6. WishOK(E, t3) /\ t3 \in IpOptions
    <3>1. WishOK(E, t3)
      BY <1>1, <2>4, <2>5, NakAddrOK
    <3> QED BY <3>1 DEF WishOK
  <2> HIDE DEF t3
  <2>7. r \in [E : {E}, ok : BOOLEAN, try : IpOptions, novj : BOOLEAN, noaddr : BOOLEAN] /\ r.try = t3
    BY <1>1, <2>2, <2>6
  <2> HIDE DEF r
  <2> QED BY <2>1, <2>6, <2>7 DEF NakState
<1> QED
  BY <1>2, <1>3

LEMMA NakOK ==
    ASSUME NEW E \in IpEnd, WishOK(E, E.go), NEW s \in Seq(IpCI)
    PROVE  WishOK(E, ipcp_nakci(E, s)[2])
<1> DEFINE S == IpCI
           go == E.go
           one == go.addr /\ ~go.olda /\ Starts(s, {"ADDR"})
           t1 == IF one THEN NakAddr(E, go, Head(s)) ELSE go
           s1 == IF one THEN Tail(s) ELSE s
           two == go.vj /\ Starts(s1, VjTypes)
           t2 == IF two THEN NakVj(go, t1, Head(s1)) ELSE t1
           s2 == IF two THEN Tail(s1) ELSE s1
           T == TRUE
           base == [E |-> E, ok |-> T, try |-> t2, novj |-> two, noaddr |-> one]
           z == FoldLeft(NakExtra, base, s2)
<1>1. go \in IpOptions /\ s \in Seq(S)
  BY DEF WishOK
<1>2. /\ s # <<>> => Head(s) \in S /\ Tail(s) \in Seq(S)
      /\ one => s # <<>>
  <2> HIDE DEF S
  <2> QED BY <1>1 DEF Starts
<1>3. s1 \in Seq(S)
  BY <1>1, <1>2
<1>4. WishOK(E, t1) /\ t1 \in IpOptions
  <2>1. WishOK(E, t1)
    BY <1>1, <1>2, NakAddrOK
  <2> QED BY <2>1 DEF WishOK
<1>5. one \in BOOLEAN /\ T \in BOOLEAN
  OBVIOUS
<1> HIDE DEF one, t1, s1
<1>6. /\ s1 # <<>> => Head(s1) \in S /\ Tail(s1) \in Seq(S)
      /\ two => s1 # <<>>
  <2> HIDE DEF S
  <2> QED BY <1>3 DEF Starts
<1>7. s2 \in Seq(S)
  BY <1>3, <1>6
<1>8. WishOK(E, t2) /\ t2 \in IpOptions
  <2>1. WishOK(E, t2)
    <3>1. CASE two
      <4>1. t2 = NakVj(go, t1, Head(s1)) /\ Head(s1) \in IpCI
        BY <3>1, <1>6
      <4> HIDE DEF t2
      <4> QED BY <4>1, <1>1, <1>4, NakVjOK
    <3>2. CASE ~two
      BY <3>2, <1>4
    <3> QED BY <3>1, <3>2
  <2> QED BY <2>1 DEF WishOK
<1>9. two \in BOOLEAN
  <2>1. Starts(s1, VjTypes) \in BOOLEAN
    BY DEF Starts
  <2>2. go.vj \in BOOLEAN
    BY <1>1 DEF IpOptions
  <2> HIDE DEF go
  <2> QED BY <2>1, <2>2
<1> HIDE DEF two, t2, s2, T
<1> DEFINE H == {y \in [E : {E}, ok : BOOLEAN, try : IpOptions, novj : BOOLEAN, noaddr : BOOLEAN] : NakState(E, y)}
<1>10. base \in H
  <2>1. base \in [E : {E}, ok : BOOLEAN, try : IpOptions, novj : BOOLEAN, noaddr : BOOLEAN] /\ base.try = t2
    BY <1>5, <1>8, <1>9
  <2> HIDE DEF base
  <2> QED BY <1>8, <2>1 DEF NakState
<1>11. \A y : y \in H <=> NakState(E, y)
  BY DEF NakState
<1> HIDE DEF base, H
<1>12. \A i \in 1 .. Len(s2) : \A y \in H : NakExtra(y, s2[i]) \in H
  <2> TAKE i \in 1 .. Len(s2)
  <2> TAKE y \in H
  <2> DEFINE c == s2[i]
  <2>1. c \in S
    <3> HIDE DEF S
    <3> QED BY <1>7
  <2>2. NakState(E, y)
    BY <1>11
  <2> HIDE DEF c
  <2>3. NakState(E, NakExtra(y, c))
    BY <2>1, <2>2, NakExtraOK
  <2> QED BY <1>11, <2>3 DEF c
<1> HIDE DEF S
<1>13. Naking!Fold(base, s2) \in H
  BY <1>7, <1>10, <1>12, Naking!FoldIn
<1>14. Naking!Fold(base, s2) = z
  BY Zenon DEF Naking!Fold, FoldLeft, Naking!FoldLeft, MapThenFoldSet,
               Naking!MapThenFoldSet, Max, Naking!Max
<1>15. WishOK(E, z.try)
  BY <1>11, <1>13, <1>14 DEF NakState
<1>16. ipcp_nakci(E, s) = IF z.ok THEN <<TRUE, z.try>> ELSE <<FALSE, go>>
  BY DEF ipcp_nakci, base, two, one, t1, t2, s1, s2, T
<1> HIDE DEF z
<1> QED
  BY <1>15, <1>16

\* What the answer to its own request leaves alone at an end.
Settled(E, F) ==
    /\ F \in IpEnd /\ F.wo = E.wo /\ F.ho = E.ho /\ F.accl = E.accl /\ F.accr = E.accr /\ F.acks = E.acks

LEMMA RejOK ==
    ASSUME NEW E \in IpEnd, WishOK(E, E.go), NEW s
    PROVE  LET R == ipcp_rejci(E, s)
           IN  /\ Settled(E, R) /\ R.acked = E.acked
               /\ ~R.dead => WishOK(E, R.go) /\ R.go.our = E.go.our
<1> DEFINE addr == \E i \in DOMAIN s : s[i].type \in {"ADDR", "ADDRS"}
           vj == \E i \in DOMAIN s : IsVj(s[i])
           d == E.dead \/ addr
           F == [E EXCEPT !.dead = d]
           g == E.go
           x == g.addr /\ ~addr
           y == g.vj /\ ~vj
           g1 == [g EXCEPT !.addr = x]
           g2 == [g1 EXCEPT !.vj = y]
           G == [F EXCEPT !.go = g2]
           R == ipcp_rejci(E, s)
<1>1. g \in IpOptions /\ d \in BOOLEAN /\ x \in BOOLEAN /\ y \in BOOLEAN
  BY DEF WishOK, IpEnd
<1>2. R = F \/ R = G
  <2>1. [F EXCEPT !.go.addr = x, !.go.vj = y] = G
    <3>1. F.go = g
      <4> HIDE DEF d
      <4> QED BY DEF IpEnd
    <3> HIDE DEF x, y, F
    <3> QED BY <3>1
  <2>2. F.go.addr = g.addr /\ F.go.vj = g.vj
    <3> HIDE DEF d
    <3> QED BY DEF IpEnd
  <2> HIDE DEF G
  <2> QED BY <2>1, <2>2 DEF ipcp_rejci
<1>3. Settled(E, F) /\ F.acked = E.acked /\ F.dead = d /\ F.go = g
  <2> HIDE DEF d
  <2> QED BY <1>1 DEF IpEnd, Settled
<1>4. ~d => x = g.addr
  BY <1>1 DEF IpOptions
<1> HIDE DEF d, x, y, F
<1>5. g1 \in IpOptions /\ g1.addr = x /\ g1.olda = g.olda /\ g1.our = g.our
  BY <1>1 DEF IpOptions
<1> HIDE DEF g1
<1>6. g2 \in IpOptions /\ g2.addr = x /\ g2.olda = g.olda /\ g2.our = g.our
  BY <1>1, <1>5 DEF IpOptions
<1> HIDE DEF g2
<1>7. Settled(E, G) /\ G.acked = E.acked /\ G.dead = d /\ G.go = g2
  BY <1>3, <1>6 DEF IpEnd, Settled
<1> HIDE DEF G, R
<1>8. WishOK(E, g)
  OBVIOUS
<1> HIDE DEF g
<1>9. Settled(E, R) /\ R.acked = E.acked /\ (~R.dead => WishOK(E, R.go) /\ R.go.our = g.our)
  BY <1>2, <1>3, <1>4, <1>6, <1>7, <1>8 DEF WishOK
<1> QED
  BY <1>9 DEF R, g

LEMMA AnsweredOK ==
    ASSUME NEW E \in IpEnd, WishOK(E, E.go), NEW rc \in IpVerdicts, NEW ci \in Seq(IpCI)
    PROVE  LET R == Answered(E, rc, ci)
           IN  /\ Settled(E, R) /\ (~R.dead => WishOK(R, R.go))
               /\ rc = "ACK" => R.go = E.go
               /\ rc # "ACK" => R.acked = E.acked
<1> DEFINE R == Answered(E, rc, ci)
<1>1. CASE rc = "ACK"
  <2> DEFINE b == ipcp_ackci(E.go, ci)
  <2>1. R = [E EXCEPT !.acked = b] /\ b \in BOOLEAN
    BY <1>1 DEF Answered, ipcp_ackci
  <2> HIDE DEF b
  <2>2. Settled(E, R) /\ R.go = E.go
    BY <2>1 DEF Settled, IpEnd
  <2> QED BY <1>1, <2>2 DEF Settled, WishOK
<1>2. CASE rc = "NAK"
  <2> DEFINE g == ipcp_nakci(E, ci)[2]
  <2>1. R = [E EXCEPT !.go = g]
    BY <1>2 DEF Answered
  <2>2. WishOK(E, g) /\ g \in IpOptions
    <3>1. WishOK(E, g)
      BY NakOK
    <3> QED BY <3>1 DEF WishOK
  <2> HIDE DEF g
  <2>3. Settled(E, R) /\ R.go = g /\ R.acked = E.acked
    BY <2>1, <2>2 DEF Settled, IpEnd
  <2> QED BY <1>2, <2>2, <2>3 DEF Settled, WishOK
<1>3. CASE rc = "REJ"
  <2>1. R = ipcp_rejci(E, ci)
    BY <1>3 DEF Answered
  <2>2. Settled(E, R) /\ R.acked = E.acked /\ (~R.dead => WishOK(E, R.go))
    BY <2>1, RejOK
  <2> QED BY <1>3, <2>2 DEF Settled, WishOK
<1> QED
  BY <1>1, <1>2, <1>3 DEF IpVerdicts

-----------------------------------------------------------------------------
(***************************************************************************)
(* The invariant of the negotiation.                                       *)
(***************************************************************************)
\* An end that has heard nothing yet.
Fresh(E) == E \in IpEnd /\ E.go = E.wo /\ ~E.go.olda /\ ~E.acked /\ ~E.acks

LEMMA ConfiguredOK ==
    ASSUME NEW e, NEW addr \in BOOLEAN, NEW vj \in BOOLEAN, NEW our \in Num, NEW his \in Num,
           NEW slots \in Num, NEW cflag \in Num, NEW accl \in BOOLEAN, NEW accr \in BOOLEAN
    PROVE  Fresh(Configured(e, addr, vj, our, his, slots, cflag, accl, accr))
<1> DEFINE b == e \in OldVj
           wo == [NoIp EXCEPT !.addr = addr, !.vj = vj, !.oldv = b, !.our = our, !.his = his,
                              !.slots = slots, !.cflag = cflag]
           ao == [addr |-> addr, vj |-> vj, slots |-> slots, cflag |-> cflag]
           l == accl \/ our = 0
           r == accr \/ his = 0
           F == FALSE
           z == 0
           N == NoIp
           E == [wo |-> wo, go |-> wo, ho |-> N, ao |-> ao, req |-> addr, accl |-> l, accr |-> r, cis |-> z,
                 naks |-> z, acked |-> F, acks |-> F, dead |-> F]
<1>1. Configured(e, addr, vj, our, his, slots, cflag, accl, accr) = E
  BY DEF Configured
<1>2. b \in BOOLEAN /\ l \in BOOLEAN /\ r \in BOOLEAN /\ F \in BOOLEAN /\ ~F /\ z \in Nat
  OBVIOUS
<1>3. N \in IpOptions /\ ~N.olda
  BY NoIpIn
<1>4. ao \in IpAllowed
  BY DEF IpAllowed
<1> HIDE DEF b, l, r, F, z, N, ao
<1>5. wo \in IpOptions /\ ~wo.olda
  <2>1. wo = [N EXCEPT !.addr = addr, !.vj = vj, !.oldv = b, !.our = our, !.his = his,
                       !.slots = slots, !.cflag = cflag]
    BY DEF N
  <2> QED BY <1>2, <1>3, <2>1 DEF IpOptions
<1> HIDE DEF wo
<1>6. E \in IpEnd /\ E.go = E.wo /\ E.go = wo /\ E.acked = F /\ E.acks = F
  BY <1>2, <1>3, <1>4, <1>5 DEF IpEnd
<1> HIDE DEF E
<1> QED
  BY <1>1, <1>2, <1>5, <1>6 DEF Fresh

LEMMA IpcpInitInv == IpcpInit => IpcpInv
<1> SUFFICES ASSUME IpcpInit PROVE IpcpInv
  OBVIOUS
<1>1. ASSUME NEW e \in Ends
      PROVE  end[e] \in IpEnd /\ end[e].go = end[e].wo /\ ~end[e].go.olda /\ ~end[e].acked /\ ~end[e].acks
  <2>1. PICK x \in Ends : end[e] \in Setup(x)
    BY DEF IpcpInit
  <2>2. PICK addr \in BOOLEAN, vj \in BOOLEAN, our \in OurAddrs[x], his \in HisAddrs[x], slots \in Slots,
             cflag \in {0, 1}, accl \in BOOLEAN, accr \in BOOLEAN :
             end[e] = Configured(x, addr, vj, our, his, slots, cflag, accl, accr)
    BY <2>1 DEF Setup
  <2>3. our \in Num /\ his \in Num /\ slots \in Num /\ cflag \in Num
    BY NumIn, IpcpAssumption
  <2>4. Fresh(Configured(x, addr, vj, our, his, slots, cflag, accl, accr))
    BY <2>3, ConfiguredOK, Zenon
  <2> QED BY <2>2, <2>4 DEF Fresh
<1>2. end = [e \in Ends |-> end[e]]
  BY DEF IpcpInit
<1>3. end \in [Ends -> IpEnd]
  BY <1>1, <1>2
<1>4. \A e \in Ends : WishOK(end[e], end[e].go) /\ HisOK(end[e])
  BY <1>1 DEF WishOK, HisOK, IpEnd
<1> QED
  BY <1>1, <1>3, <1>4 DEF IpcpInv, IpcpAlive

LEMMA ExchangeInv ==
    ASSUME IpcpInv, NEW e \in Ends, Exchange(e)
    PROVE  IpcpInv'
<1> DEFINE p == Peer(e)
           g == Revived(end[e])
           E == [end[e] EXCEPT !.go = g]
           A == end[e].go.our
           s == ipcp_addci(E.go)
           r == ipcp_reqci(end[p], s)
           a == r.rc = "ACK"
           n == IF a THEN 0 ELSE IF r.rc = "NAK" /\ r.E.naks < IpcpNakLoops THEN r.E.naks + 1 ELSE r.E.naks
           P == [r.E EXCEPT !.acks = a, !.naks = n]
           R == Answered(E, r.rc, r.ci)
<1>1. /\ ~end[e].acked /\ ~end[e].dead /\ ~end[p].dead
      /\ end' = [x \in Ends |-> IF x = e THEN R ELSE P]
  <2>1. P = [r.E EXCEPT !.acks = r.rc = "ACK",
                        !.naks = IF r.rc = "ACK" THEN 0 ELSE IF r.rc = "NAK" /\ @ < IpcpNakLoops THEN @ + 1 ELSE @]
    OBVIOUS
  <2> HIDE DEF P
  <2> QED BY <2>1 DEF Exchange
<1>2. p \in Ends /\ p # e /\ Peer(p) = e /\ \A x \in Ends : x = e \/ x = p
  BY PeerIs
<1>3. end[e] \in IpEnd /\ end[p] \in IpEnd
  BY <1>2 DEF IpcpInv
<1>4. /\ WishOK(end[e], end[e].go) /\ HisOK(end[e]) /\ WishOK(end[p], end[p].go)
      /\ end[p].acked /\ end[e].ho.addr => end[e].ho.his = end[p].go.our
  BY <1>1, <1>2 DEF IpcpInv, IpcpAlive
<1>5. WishOK(end[e], g) /\ g.our = A /\ g \in IpOptions /\ ~g.olda
  <2>1. WishOK(end[e], g) /\ g.our = A
    BY <1>3, <1>4, RevivedOK
  <2> QED BY <2>1 DEF WishOK
<1>8. E \in IpEnd /\ E.go = g /\ E.ho = end[e].ho /\ E.wo = end[e].wo /\ E.accl = end[e].accl
      /\ E.accr = end[e].accr /\ E.acks = end[e].acks /\ E.acked = end[e].acked
  <2> HIDE DEF g
  <2> QED BY <1>3, <1>5 DEF IpEnd
<1>6. A \in Num /\ s \in Seq(Asks(A))
  <2>1. s \in Seq(Asks(g.our))
    BY <1>5, <1>8, RequestOK
  <2>2. g.our \in Num
    BY <1>5 DEF IpOptions
  <2> QED BY <1>5, <2>1, <2>2
<1> HIDE DEF p, g
<1>7. AnswerOK(end[p], A, r)
  <2> HIDE DEF A, s
  <2> QED BY <1>3, <1>6, ReqOK
<1>9. WishOK(E, E.go)
  BY <1>5, <1>8 DEF WishOK
<1> HIDE DEF r, E, s, A
<1>10. r.rc \in IpVerdicts /\ r.ci \in Seq(IpCI) /\ r.E \in IpEnd /\ Judged(end[p], r.E)
       /\ (a => HisIs(r.E, A))
  BY <1>7 DEF AnswerOK, IpAnswer
<1>11. a \in BOOLEAN /\ n \in Nat
  <2>1. r.E.naks \in Nat
    BY <1>10 DEF IpEnd
  <2> QED BY <2>1
<1>12. /\ Settled(E, R) /\ (~R.dead => WishOK(R, R.go))
       /\ a => R.go = E.go
       /\ ~a => R.acked = E.acked
  BY <1>8, <1>9, <1>10, AnsweredOK
<1> DEFINE K == r.E
<1>13. P \in IpEnd /\ P.acks = a /\ SameWish(end[p], P) /\ P.ho = K.ho /\ P.acked = end[p].acked
  <2>1. K \in IpEnd /\ SameWish(end[p], K) /\ K.acked = end[p].acked
    BY <1>10 DEF Judged
  <2>2. P = [K EXCEPT !.acks = a, !.naks = n]
    OBVIOUS
  <2> HIDE DEF K, a, n, P
  <2> QED BY <1>11, <2>1, <2>2 DEF IpEnd, SameWish
<1>14. a => HisIs(P, A)
  <2>1. K.wo = P.wo /\ K.accr = P.accr
    BY <1>10, <1>13 DEF Judged, SameWish
  <2> HIDE DEF K, P, a
  <2>2. a => HisIs(K, A)
    BY <1>10 DEF K
  <2> QED BY <1>13, <2>1, <2>2 DEF HisIs
<1> HIDE DEF a, n, P, R, K
<1>15. R \in IpEnd /\ R.ho = end[e].ho /\ HisOK(R)
  BY <1>4, <1>8, <1>12 DEF Settled, HisOK
<1>16. WishOK(P, P.go)
  BY <1>4, <1>13 DEF WishOK, SameWish
<1>17. HisOK(P)
  BY <1>13, <1>14 DEF HisOK, HisIs
<1>18. R.acked /\ P.ho.addr => P.ho.his = R.go.our
  <2> SUFFICES ASSUME R.acked, P.ho.addr PROVE P.ho.his = R.go.our
    OBVIOUS
  <2>1. a
    BY <1>1, <1>8, <1>12
  <2> QED BY <1>5, <1>8, <1>12, <1>14, <2>1 DEF HisIs
<1>19. P.acked /\ R.ho.addr => R.ho.his = P.go.our
  BY <1>4, <1>13, <1>15 DEF SameWish
<1>20. end' \in [Ends -> IpEnd] /\ end'[e] = R /\ end'[p] = P
  BY <1>1, <1>2, <1>13, <1>15
<1>21. IpcpAlive(end')
  <2>1. Peer(e) = p
    BY DEF p
  <2>2. ~R.dead => WishOK(R, R.go)
    BY <1>12
  <2> QED BY <1>2, <1>15, <1>16, <1>17, <1>18, <1>19, <1>20, <2>1, <2>2 DEF IpcpAlive
<1> QED
  BY <1>20, <1>21 DEF IpcpInv

LEMMA IpcpUpInv ==
    ASSUME IpcpInv, NEW e \in Ends, IpcpUp(e)
    PROVE  IpcpInv'
<1> DEFINE T == TRUE
           K == [end[e] EXCEPT !.dead = T]
<1>1. end' = [end EXCEPT ![e] = K] /\ end \in [Ends -> IpEnd]
  BY DEF IpcpUp, IpcpInv
<1>2. K \in IpEnd /\ K.dead
  <2>1. T \in BOOLEAN /\ T /\ end[e] \in IpEnd
    BY <1>1
  <2> HIDE DEF T
  <2> QED BY <2>1 DEF IpEnd
<1> HIDE DEF K
<1>3. end' \in [Ends -> IpEnd] /\ end'[e].dead
  BY <1>1, <1>2
<1> QED
  BY <1>3 DEF IpcpInv, IpcpAlive

LEMMA IpcpNextInv == IpcpInv /\ [IpcpNext]_end => IpcpInv'
<1> SUFFICES ASSUME IpcpInv, [IpcpNext]_end PROVE IpcpInv'
  OBVIOUS
<1>1. CASE UNCHANGED end
  BY <1>1 DEF IpcpInv, IpcpAlive
<1>2. CASE IpcpNext
  BY <1>2, ExchangeInv, IpcpUpInv DEF IpcpNext
<1> QED
  BY <1>1, <1>2

LEMMA IpcpInvAgree == IpcpInv => AddressesAgree
<1> SUFFICES ASSUME IpcpInv, \A e \in Ends : Up(e), NEW e \in Ends
             PROVE  /\ end[e].ho.addr => end[e].ho.his = end[Peer(e)].go.our
                    /\ end[e].go.our # end[e].wo.our => end[e].accl
                    /\ HisAddr(end[e]) # end[e].wo.his => end[e].accr
  BY DEF AddressesAgree
<1>1. Peer(e) \in Ends /\ Peer(Peer(e)) = e
  BY PeerIs
<1>2. \A x \in Ends : end[x].acked /\ end[x].acks /\ ~end[x].dead
  BY DEF Up
<1>3. \A x \in Ends : /\ WishOK(end[x], end[x].go) /\ HisOK(end[x])
                      /\ end[x].acked /\ end[Peer(x)].ho.addr => end[Peer(x)].ho.his = end[x].go.our
  BY <1>2 DEF IpcpInv, IpcpAlive
<1> QED
  BY <1>1, <1>2, <1>3 DEF WishOK, HisOK, HisAddr

\* Once both ends of an IPCP link are up, each uses for the other the address
\* that the other uses for itself, and neither gave up an address that it was
\* not configured to give up: for any addresses and any limit of Naks
\* (ipcp_reqci, ipcp_nakci and ipcp_rejci of ipcp.c).
THEOREM AddressesAlwaysAgree == IpcpSpec => []AddressesAgree
<1>1. IpcpSpec => []IpcpInv
  BY IpcpInitInv, IpcpNextInv, PTL DEF IpcpSpec
<1> QED
  BY <1>1, IpcpInvAgree, PTL
=============================================================================
