------------------------------ MODULE PppAuth ------------------------------
(***************************************************************************)
(* The two authentication protocols of the PPP daemon: CHAP (ppp/chap.c)   *)
(* and PAP (ppp/upap.c), each with a client that proves who we are and a   *)
(* server that makes the peer prove who it is.                             *)
(*                                                                         *)
(* As in PppFsm a handler is an operator on a record, here                 *)
(*   chapC, chapS, chalTx : clientstate, serverstate and chal_transmits    *)
(*   upapC, upapS, upapTx : the same of PAP, with us_transmits             *)
(*   challenge, response, rechallenge, upap : how many ChapChallengeTimeout*)
(*     ChapResponseTimeout, ChapRechallenge and upap_timeout entries there *)
(*     are on the callout list                                             *)
(*   calls : the auth_* routines of auth.c called, in order                *)
(* Names, secrets and digests are left out: what matters of a packet is    *)
(* whether its credentials are good.                                       *)
(***************************************************************************)
EXTENDS Integers, Sequences

CONSTANTS
    MaxTransmits,    \* max_transmits, us_maxtransmits
    Rechallenge      \* chal_interval # 0

ASSUME AuthAssumption == MaxTransmits \in Nat \ {0} /\ Rechallenge \in BOOLEAN

AuthInit ==
    [chapC |-> "INITIAL", chapS |-> "INITIAL", chalTx |-> 0,
     upapC |-> "INITIAL", upapS |-> "INITIAL", upapTx |-> 0,
     challenge |-> 0, response |-> 0, rechallenge |-> 0, upap |-> 0,
     calls |-> <<>>]

\* ppp_untimeout(): one entry less, if there is one.
Less(n) == IF n = 0 THEN 0 ELSE n - 1

Report(a, what) == [a EXCEPT !.calls = Append(@, what)]

-----------------------------------------------------------------------------
(* CHAP.                                                                   *)

\* Mutant: the challenge is not repeated.
ChapSendChallengeOnce(a) == [a EXCEPT !.chalTx = @ + 1]

ChapSendChallenge(a) == [a EXCEPT !.challenge = @ + 1, !.chalTx = @ + 1]

\* ChapGenChallenge(), ChapSendChallenge() and the new state.
StartChallenge(a, s) ==
    [ChapSendChallenge([a EXCEPT !.chalTx = 0]) EXCEPT !.chapS = s]

ChapSendResponse(a) == [a EXCEPT !.chapC = "RESPONSE", !.response = @ + 1]

ChapAuthWithPeer(a) ==
    [a EXCEPT !.chapC = IF @ \in {"INITIAL", "PENDING"} THEN "PENDING" ELSE "LISTEN"]

ChapAuthPeer(a) ==
    IF a.chapS \in {"INITIAL", "PENDING"} THEN [a EXCEPT !.chapS = "PENDING"]
    ELSE StartChallenge(a, "INITIAL_CHAL")

ChapChallengeTimeout(a0) ==
    LET a == [a0 EXCEPT !.challenge = Less(@)] IN
    IF a.chapS \notin {"INITIAL_CHAL", "RECHALLENGE"} THEN a
    ELSE IF a.chalTx >= MaxTransmits
      THEN Report([a EXCEPT !.chapS = "BADAUTH"], "peer_fail")
      ELSE ChapSendChallenge(a)

ChapResponseTimeout(a0) ==
    LET a == [a0 EXCEPT !.response = Less(@)] IN
    IF a.chapC = "RESPONSE" THEN ChapSendResponse(a) ELSE a

ChapRechallenge(a0) ==
    LET a == [a0 EXCEPT !.rechallenge = Less(@)] IN
    IF a.chapS # "OPEN" THEN a
    ELSE [StartChallenge(a, "RECHALLENGE")
            EXCEPT !.rechallenge = IF Rechallenge THEN @ + 1 ELSE @]

ChapLowerUp(a) ==
    LET c == [a EXCEPT !.chapC = CASE @ = "INITIAL" -> "CLOSED"
                                   [] @ = "PENDING" -> "LISTEN"
                                   [] OTHER -> @]
    IN  CASE c.chapS = "INITIAL" -> [c EXCEPT !.chapS = "CLOSED"]
          [] c.chapS = "PENDING" -> StartChallenge(c, "INITIAL_CHAL")
          [] OTHER -> c

\* In RECHALLENGE the ChapRechallenge entry stays where it is.
ChapLowerDown(a) ==
    [a EXCEPT !.challenge = IF a.chapS \in {"INITIAL_CHAL", "RECHALLENGE"}
                              THEN Less(@) ELSE @,
              !.rechallenge = IF a.chapS = "OPEN" /\ Rechallenge
                                THEN Less(@) ELSE @,
              !.response = IF a.chapC = "RESPONSE" THEN Less(@) ELSE @,
              !.chapC = "INITIAL",
              !.chapS = "INITIAL"]

ChapProtocolReject(a) ==
    LET b == IF a.chapS \in {"INITIAL", "CLOSED"} THEN a ELSE Report(a, "peer_fail")
        c == IF a.chapC \in {"INITIAL", "CLOSED"} THEN b ELSE Report(b, "with_fail")
    IN  ChapLowerDown(c)

ChapReceiveChallenge(a) ==
    IF a.chapC \in {"CLOSED", "PENDING"} THEN a
    ELSE ChapSendResponse(
           [a EXCEPT !.response = IF a.chapC = "RESPONSE" THEN Less(@) ELSE @])

\* The response answers the last challenge; good: its digest is right.
ChapReceiveResponse(a, good) ==
    IF a.chapS \in {"CLOSED", "PENDING", "OPEN", "BADAUTH"} THEN a
    ELSE
    LET b == [a EXCEPT !.challenge = Less(@)] IN
    IF good
      THEN LET c == IF a.chapS = "INITIAL_CHAL" THEN Report(b, "CHAP_PEER") ELSE b
           IN  [c EXCEPT !.chapS = "OPEN",
                         !.rechallenge = IF Rechallenge THEN @ + 1 ELSE @]
      ELSE Report([b EXCEPT !.chapS = "BADAUTH"], "peer_fail")

ChapReceiveSuccess(a) ==
    IF a.chapC # "RESPONSE" THEN a
    ELSE Report([a EXCEPT !.response = Less(@), !.chapC = "OPEN"], "CHAP_WITHPEER")

\* clientstate stays as it is.
ChapReceiveFailure(a) ==
    IF a.chapC # "RESPONSE" THEN a
    ELSE Report([a EXCEPT !.response = Less(@)], "with_fail")

-----------------------------------------------------------------------------
(* PAP.                                                                    *)

upap_sauthreq(a) ==
    [a EXCEPT !.upap = @ + 1, !.upapTx = @ + 1, !.upapC = "AUTHREQ"]

upap_authwithpeer(a) ==
    LET b == [a EXCEPT !.upapTx = 0] IN
    IF a.upapC \in {"INITIAL", "PENDING"} THEN [b EXCEPT !.upapC = "PENDING"]
    ELSE upap_sauthreq(b)

upap_authpeer(a) ==
    [a EXCEPT !.upapS = IF @ \in {"INITIAL", "PENDING"} THEN "PENDING" ELSE "LISTEN"]

upap_timeout(a0) ==
    LET a == [a0 EXCEPT !.upap = Less(@)] IN
    IF a.upapC # "AUTHREQ" THEN a
    ELSE IF a.upapTx >= MaxTransmits
      THEN Report([a EXCEPT !.upapC = "BADAUTH"], "with_fail")
      ELSE upap_sauthreq(a)

upap_lowerup(a) ==
    LET c == CASE a.upapC = "INITIAL" -> [a EXCEPT !.upapC = "CLOSED"]
               [] a.upapC = "PENDING" -> upap_sauthreq(a)
               [] OTHER -> a
    IN  [c EXCEPT !.upapS = CASE @ = "INITIAL" -> "CLOSED"
                              [] @ = "PENDING" -> "LISTEN"
                              [] OTHER -> @]

upap_lowerdown(a) ==
    [a EXCEPT !.upap = IF a.upapC = "AUTHREQ" THEN Less(@) ELSE @,
              !.upapC = "INITIAL",
              !.upapS = "INITIAL"]

upap_protrej(a) ==
    LET b == IF a.upapC = "AUTHREQ" THEN Report(a, "with_fail") ELSE a
        c == IF a.upapS = "LISTEN" THEN Report(b, "peer_fail") ELSE b
    IN  upap_lowerdown(c)

\* A duplicate request gets the answer of the first one.
upap_rauthreq(a, good) ==
    IF a.upapS # "LISTEN" THEN a
    ELSE IF good THEN Report([a EXCEPT !.upapS = "OPEN"], "UPAP_PEER")
    ELSE Report([a EXCEPT !.upapS = "BADAUTH"], "peer_fail")

\* The upap_timeout entry stays on the list.
upap_rauthack(a) ==
    IF a.upapC # "AUTHREQ" THEN a
    ELSE Report([a EXCEPT !.upapC = "OPEN"], "UPAP_WITHPEER")

upap_rauthnak(a) ==
    IF a.upapC # "AUTHREQ" THEN a
    ELSE Report([a EXCEPT !.upapC = "BADAUTH"], "with_fail")
=============================================================================
