------------------------------ MODULE MCConnect ------------------------------
(***************************************************************************)
(* Connect for TLC: its constants are given in the configurations.         *)
(***************************************************************************)
EXTENDS Connect
=============================================================================
