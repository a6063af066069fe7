----------------------------- MODULE MCTcpPair -----------------------------
(***************************************************************************)
(* One-byte segments, so that three bytes make reordering, duplicate ACKs  *)
(* and a closed window; sequence numbers that wrap within the connection.  *)
(***************************************************************************)
EXTENDS TcpPair, TLC

CONSTANTS a, b

Plan(passive, toB, quiet, n) ==
    [passive |-> passive, impatient |-> FALSE, data |-> (a :> toB @@ b :> 0),
     quiet |-> quiet, faults |-> n]

MCEnds == {a, b}
MCISS == (a :> 13 @@ b :> 5)

\* A transfer over a faulty network; calls of the users that cross segments; a
\* simultaneous open.
MCPlans == {Plan({b}, 3, 0, 1), Plan({b}, 1, 1, 1), Plan({}, 1, 1, 0)}
=============================================================================
