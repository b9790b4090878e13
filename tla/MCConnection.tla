----------------------------- MODULE MCConnection -----------------------------
(***************************************************************************)
(* Connection for TLC: one channel on which host and server say three      *)
(* things of their own, or two that are only opened, set up and ended.     *)
(***************************************************************************)
EXTENDS Connection

MCMaxExtras == [n \in 0..MaxOpens |-> IF n = 1 THEN 3 ELSE 0]
=============================================================================
