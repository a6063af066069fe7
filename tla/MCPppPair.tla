------------------------------ MODULE MCPppPair ------------------------------
(* Two ends that disagree about one option: a asks for full, b only takes  *)
(* base.                                                                   *)
EXTENDS PppPair

CONSTANTS a, b, base, full

MCWant == [p \in {a, b} |-> IF p = a THEN full ELSE base]
MCAllow == [p \in {a, b} |-> IF p = a THEN {base, full} ELSE {base}]
=============================================================================
