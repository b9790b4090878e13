---------------------------- MODULE MCClientHost ----------------------------
(***************************************************************************)
(* ClientHost for TLC: its constants are given in the configurations.      *)
(***************************************************************************)
EXTENDS ClientHost
=============================================================================
