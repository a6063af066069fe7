----------------------------- MODULE LcpOptions -----------------------------
(***************************************************************************)
(* What LCP negotiates (ppp/lcp.c): the routines with which the automaton  *)
(* of fsm.c builds a Configure-Request (lcp_addci), looks at the answer    *)
(* (lcp_ackci, lcp_nakci, lcp_rejci) and answers a request of the peer     *)
(* (lcp_reqci).  All of them are functions of an lcp_options structure and *)
(* of a list of options, and are written as such.                          *)
(*                                                                         *)
(* lcp_options: neg, the set of options whose neg_ flag is set, and the    *)
(* values mru, asyncmap (the set of its bits), mdtype and magic.           *)
(* A CI is [type, val]; its length is a function of its value, except that *)
(* a CI of type BAD stands for a malformed rest of the packet.             *)
(***************************************************************************)
EXTENDS Integers, Sequences, SequencesExt, FiniteSetsExt

CONSTANTS
    MINMRU, DEFMRU,
    Chars,         \* the control characters of an asyncmap
    Magic          \* the magic numbers

ASSUME OptionsAssumption ==
    /\ MINMRU \in Nat /\ DEFMRU \in Nat /\ MINMRU < DEFMRU
    /\ \E a, b \in Magic : a # b

Negotiable == {"mru", "asyncmap", "chap", "upap", "lqr", "magic", "pcomp", "accomp"}

CI(type, val) == [type |-> type, val |-> val]

\* The values of an Authentication-Protocol option.
CHAP(mdtype) == <<"CHAP", mdtype>>
UPAP == <<"UPAP">>

\* The order of the options in our requests.
Order == <<"mru", "asyncmap", "chap", "upap", "lqr", "magic", "pcomp", "accomp">>

TypeOf(opt) ==
    CASE opt \in {"chap", "upap"} -> "AUTHTYPE"
      [] opt = "mru" -> "MRU" [] opt = "asyncmap" -> "ASYNCMAP"
      [] opt = "lqr" -> "QUALITY" [] opt = "magic" -> "MAGICNUMBER"
      [] opt = "pcomp" -> "PCOMPRESSION" [] opt = "accomp" -> "ACCOMPRESSION"

Void(type) == type \in {"PCOMPRESSION", "ACCOMPRESSION"}

\* The CI that asks for opt as o has it.
Asking(o, opt) ==
    CI(TypeOf(opt),
       CASE opt = "mru" -> o.mru [] opt = "asyncmap" -> o.asyncmap
         [] opt = "chap" -> CHAP(o.mdtype) [] opt = "upap" -> UPAP
         [] opt = "lqr" -> <<"LQR">> [] opt = "magic" -> o.magic
         [] OTHER -> "void")

\* We ask for one of CHAP and UPAP, even if we accept either.
Asked(o, opt) == opt \in o.neg /\ (opt = "upap" => "chap" \notin o.neg)

\* One option more for the request z.s of z.o.
AddOption(z, opt) == IF Asked(z.o, opt) THEN [z EXCEPT !.s = Append(@, Asking(z.o, opt))] ELSE z

lcp_addci(go) == FoldLeft(AddOption, [o |-> go, s |-> <<>>], Order).s

\* The Ack repeats the request.
lcp_ackci(go, s) == s = lcp_addci(go)

-----------------------------------------------------------------------------
(* Naks and Rejects.  Both walk through our options in the order in which  *)
(* we send them and take those off the list that they find there.  While   *)
(* LCP is OPENED the options are left alone (PppFsmSpec!OptionsStable).    *)

\* The option of our request that c is about: the type, and for the
\* authentication protocol the length, are those of the option.
Subject(go, c) ==
    {opt \in go.neg :
        /\ Asked(go, opt) /\ c.type = TypeOf(opt)
        /\ c.type = "AUTHTYPE" => (c.val[1] = "CHAP") = (opt = "chap")}

Rank(opts) == CHOOSE i \in DOMAIN Order : Order[i] \in opts

\* The number of CIs that the walk takes off the list.
Walked(go, s) ==
    Max({k \in 0 .. Len(s) :
            \A i \in 1..k :
                /\ Subject(go, s[i]) # {}
                /\ i > 1 => Rank(Subject(go, s[i - 1])) < Rank(Subject(go, s[i]))})

\* A CI about an option that we did not ask for is skipped, one about an
\* option that we asked for is out of order.  A void CI at the very end is
\* not looked at, and makes the packet bad.
Surplus(go, s) ==
    /\ \A i \in DOMAIN s :
         /\ s[i].type \notin {"BAD", "UNKNOWN"}
         /\ \A opt \in go.neg : TypeOf(opt) # s[i].type
    /\ s # <<>> => ~Void(Last(s).type)

\* What Naks of the options opts, with the values val, make of our wishes: a
\* smaller MRU, a larger asyncmap, another magic number, and without the rest.
Nakked(go, wo, opts, val, fresh) ==
    [go EXCEPT
        !.neg = @ \ ((opts \ {"mru", "asyncmap", "magic"})
                       \ {opt \in opts \cap {"lqr"} : val[opt] = <<"LQR">>}),
        !.mru = IF "mru" \in opts /\ (val["mru"] <= wo.mru \/ val["mru"] < DEFMRU)
                  THEN val["mru"] ELSE @,
        !.asyncmap = IF "asyncmap" \in opts THEN @ \cup val["asyncmap"] ELSE @,
        !.magic = IF "magic" \in opts THEN fresh ELSE @]

\* <<ok, options>>; fresh is what magic() returns.
lcp_nakci(go, wo, s, fresh) ==
    LET k == Walked(go, s)
        opts == UNION {Subject(go, s[i]) : i \in 1..k}
        val == [opt \in opts |-> s[CHOOSE i \in 1..k : opt \in Subject(go, s[i])].val]
    IN  IF Surplus(go, SubSeq(s, k + 1, Len(s)))
          THEN <<TRUE, Nakked(go, wo, opts, val, fresh)>> ELSE <<FALSE, go>>

\* The rejected CIs must repeat what we sent.
lcp_rejci(go, s) ==
    LET opts == UNION {Subject(go, s[i]) : i \in DOMAIN s}
    IN  IF /\ Walked(go, s) = Len(s)
           /\ \A i \in DOMAIN s : \A opt \in Subject(go, s[i]) : s[i] = Asking(go, opt)
          THEN <<TRUE, [go EXCEPT !.neg = @ \ opts]>> ELSE <<FALSE, go>>

-----------------------------------------------------------------------------
(* The peer's request.                                                     *)

NoOptions(o) == [o EXCEPT !.neg = {}]

Accept(ho) == [orc |-> "CONFACK", ho |-> ho, hint |-> <<>>]
Refuse(ho) == [orc |-> "CONFREJ", ho |-> ho, hint |-> <<>>]
Propose(ho, hint) == [orc |-> "CONFNAK", ho |-> ho, hint |-> hint]

JudgeAuth(ao, ho, val) ==
    IF ao.neg \cap {"upap", "chap"} = {} THEN Refuse(ho)
    ELSE CASE val = UPAP ->
                IF "chap" \in ho.neg THEN Refuse(ho)
                ELSE IF "upap" \notin ao.neg
                  THEN Propose(ho, <<CI("AUTHTYPE", CHAP(ao.mdtype))>>)
                  ELSE Accept([ho EXCEPT !.neg = @ \cup {"upap"}])
           [] val[1] = "CHAP" ->
                IF "upap" \in ho.neg THEN Refuse(ho)
                ELSE IF "chap" \notin ao.neg
                  THEN Propose(ho, <<CI("AUTHTYPE", UPAP)>>)
                ELSE IF val # CHAP(ao.mdtype)
                  THEN Propose(ho, <<CI("AUTHTYPE", CHAP(ao.mdtype))>>)
                  ELSE Accept([ho EXCEPT !.neg = @ \cup {"chap"}, !.mdtype = ao.mdtype])
           [] OTHER ->
                Propose(ho, <<CI("AUTHTYPE", IF "chap" \in ao.neg THEN CHAP(ao.mdtype)
                                             ELSE UPAP)>>)

\* What is made of one CI.  The hints for the MRU and the asyncmap are written
\* over the request and not into the Nak.
Judge(ao, go, ho, c, fresh) ==
    LET allowed(opt) == opt \in ao.neg
        take(opt) == Accept([ho EXCEPT !.neg = @ \cup {opt}])
    IN  CASE c.type = "MRU" ->
                IF ~allowed("mru") THEN Refuse(ho)
                ELSE IF c.val < MINMRU THEN Propose(ho, <<>>)
                ELSE Accept([ho EXCEPT !.neg = @ \cup {"mru"}, !.mru = c.val])
          [] c.type = "ASYNCMAP" ->
                IF ~allowed("asyncmap") THEN Refuse(ho)
                ELSE IF ~(ao.asyncmap \subseteq c.val) THEN Propose(ho, <<>>)
                ELSE Accept([ho EXCEPT !.neg = @ \cup {"asyncmap"}, !.asyncmap = c.val])
          [] c.type = "AUTHTYPE" -> JudgeAuth(ao, ho, c.val)
          [] c.type = "QUALITY" ->
                IF ~allowed("lqr") THEN Refuse(ho)
                ELSE IF c.val # <<"LQR">> THEN Propose(ho, <<CI("QUALITY", <<"LQR">>)>>)
                ELSE Accept(ho)
          [] c.type = "MAGICNUMBER" ->
                IF ~allowed("magic") /\ "magic" \notin go.neg THEN Refuse(ho)
                ELSE IF "magic" \in go.neg /\ c.val = go.magic
                  THEN Propose(ho, <<CI("MAGICNUMBER", fresh)>>)
                ELSE Accept([ho EXCEPT !.neg = @ \cup {"magic"}, !.magic = c.val])
          [] c.type = "PCOMPRESSION" -> IF allowed("pcomp") THEN take("pcomp") ELSE Refuse(ho)
          [] c.type = "ACCOMPRESSION" -> IF allowed("accomp") THEN take("accomp") ELSE Refuse(ho)
          [] OTHER -> Refuse(ho)

\* Mutant: the verdict on the last CI is the verdict on the request.
Combine_LastWins(a, c, j, reject_if_disagree) ==
    [a EXCEPT !.rc = j.orc, !.rej = IF j.orc = "CONFREJ" THEN Append(@, c) ELSE @]

\* Mutant: after max_nak_loops Naks we still Nak.
Combine_NeverTough(a, c, j, reject_if_disagree) ==
    CASE j.orc = "CONFREJ" -> [a EXCEPT !.rc = "CONFREJ", !.rej = Append(@, c)]
      [] j.orc = "CONFNAK" /\ a.rc # "CONFREJ" -> [a EXCEPT !.rc = "CONFNAK"]
      [] OTHER -> a

\* The answer so far, a, and the verdict j on the next CI.
Combine(a, c, j, reject_if_disagree) ==
    LET orc == IF j.orc = "CONFNAK" /\ reject_if_disagree /\ c.type # "MAGICNUMBER"
                 THEN "CONFREJ" ELSE j.orc
    IN  CASE orc = "CONFREJ" -> [a EXCEPT !.rc = "CONFREJ", !.rej = Append(@, c)]
          [] orc = "CONFNAK" /\ a.rc # "CONFREJ" -> [a EXCEPT !.rc = "CONFNAK"]
          [] OTHER -> a

\* One CI more; z has the arguments of lcp_reqci and the answer so far.
JudgeNext(z, c) ==
    LET j == Judge(z.ao, z.go, z.ho, c, z.fresh)
    IN  Combine([z EXCEPT !.ho = j.ho, !.nak = @ \o j.hint], c, j, z.tough)

\* [rc, ci, ho]: the verdict, the list that goes with it, and hisoptions.
lcp_reqci(ao, go, s, reject_if_disagree, fresh) ==
    LET z == FoldLeft(JudgeNext,
                      [ao |-> ao, go |-> go, tough |-> reject_if_disagree, fresh |-> fresh,
                       rc |-> "CONFACK", rej |-> <<>>, nak |-> <<>>, ho |-> NoOptions(ao)], s)
    IN  [rc |-> z.rc, ho |-> z.ho,
         ci |-> CASE z.rc = "CONFACK" -> s
                  [] z.rc = "CONFNAK" -> z.nak
                  [] OTHER -> z.rej]
=============================================================================
