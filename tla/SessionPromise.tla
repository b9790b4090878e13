---------------------------- MODULE SessionPromise ----------------------------
(***************************************************************************)
(* What a session promises the host that polls its events: one host-key    *)
(* question, nothing further until it is accepted, one ReadyForAuth, any   *)
(* number of refusals, at most one AuthSuccess and only after the server   *)
(* has granted it, and one terminal event, after which there is none.      *)
(***************************************************************************)
EXTENDS Sequences

CONSTANT Terminal   \* the terminal events

VARIABLES stage, granted, log

promiseVars == <<stage, granted, log>>

Init == stage = "handshake" /\ granted = FALSE /\ log = <<>>

Report(e) == log' = Append(log, e) /\ UNCHANGED granted

Verify == stage = "handshake" /\ stage' = "verify" /\ Report("HostKeyVerify")

Accept == stage = "verify" /\ stage' = "service" /\ UNCHANGED <<granted, log>>

Ready == stage = "service" /\ stage' = "auth" /\ Report("ReadyForAuth")

Refuse == stage = "auth" /\ ~granted /\ stage' = stage /\ Report("AuthFailure")

\* The server's own step: the session may meanwhile have been closed.
Grant == /\ stage \in {"auth", "closed"}
         /\ ~granted
         /\ granted' = TRUE
         /\ UNCHANGED <<stage, log>>

Success == stage = "auth" /\ granted /\ stage' = "connected" /\ Report("AuthSuccess")

End == /\ stage # "closed"
       /\ stage' = "closed"
       /\ \E e \in Terminal : Report(e)

Next == Verify \/ Accept \/ Ready \/ Refuse \/ Grant \/ Success \/ End

Spec == Init /\ [][Next]_promiseVars
=============================================================================
