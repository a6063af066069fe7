----------------------------- MODULE MCPppUnits -----------------------------
(***************************************************************************)
(* Two ways to set up a unit: CHAP for the peer and PAP for us, and, in    *)
(* passive mode, PAP for the peer or nothing and CHAP for us.              *)
(***************************************************************************)
EXTENDS PppUnit

VARIABLE passively

PassiveUnit ==
    INSTANCE PppUnit WITH Passive <- TRUE, GoAuth <- {"none", "upap"},
                          HoAuth <- {"chap"}, TimerBound <- 1

UnitsInit ==
    /\ passively \in BOOLEAN
    /\ IF passively THEN PassiveUnit!Init ELSE Init

UnitsNext ==
    /\ UNCHANGED passively
    /\ \/ ~passively /\ Next
       \/ passively /\ PassiveUnit!Next

UnitsSpec == UnitsInit /\ [][UnitsNext]_<<passively, u>>
=============================================================================
