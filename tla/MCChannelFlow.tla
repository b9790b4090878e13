---------------------------- MODULE MCChannelFlow ----------------------------
(***************************************************************************)
(* ChannelFlow for TLC: its constants are given in the configurations.     *)
(***************************************************************************)
EXTENDS ChannelFlow
=============================================================================
