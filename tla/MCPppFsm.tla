------------------------------ MODULE MCPppFsm ------------------------------
(* One automaton: three identifiers, two requests before giving up.        *)
EXTENDS PppFsmSpec
=============================================================================
