---------------------------- MODULE ChannelPromise ----------------------------
(***************************************************************************)
(* What the session promises the host about each channel it asks for.  An  *)
(* open is refused, or confirmed and followed by the program's output and  *)
(* end; no data follows EOF.  A setup request may be refused later, but    *)
(* only before the program has reported anything.  Nothing is reported of  *)
(* a channel once it is gone, but for the server's answer to the close of  *)
(* a refused setup.                                                        *)
(***************************************************************************)
EXTENDS Sequences

CONSTANT Ids

VARIABLES life, told

promiseVars == <<life, told>>

Init == life = [id \in Ids |-> "unused"] /\ told = [id \in Ids |-> <<>>]

Becomes(id, stage) == life' = [life EXCEPT ![id] = stage]

Tell(id, e) == told' = [told EXCEPT ![id] = Append(@, e)]

Told(id, e) == \E i \in DOMAIN told[id] : told[id][i] = e

Reported(id) == \E e \in {"ChannelData", "ChannelEof", "ChannelExitStatus"} : Told(id, e)

Ask(id) == life[id] = "unused" /\ Becomes(id, "opening") /\ UNCHANGED told

Confirm(id) == life[id] = "opening" /\ Becomes(id, "open") /\ Tell(id, "ChannelOpened")

Refuse(id) == life[id] = "opening" /\ Becomes(id, "gone") /\ Tell(id, "ChannelOpenFailed")

Data(id) ==
    /\ life[id] = "open"
    /\ ~Told(id, "ChannelEof")
    /\ Tell(id, "ChannelData") /\ UNCHANGED life

Eof(id) ==
    /\ life[id] = "open"
    /\ ~Told(id, "ChannelEof")
    /\ Tell(id, "ChannelEof") /\ UNCHANGED life

Exit(id) ==
    /\ life[id] = "open"
    /\ ~Told(id, "ChannelExitStatus")
    /\ Tell(id, "ChannelExitStatus") /\ UNCHANGED life

WindowFull(id) ==
    /\ life[id] \in {"opening", "open"}
    /\ Tell(id, "ChannelWindowFull") /\ UNCHANGED life

RefuseSetup(id) ==
    /\ life[id] = "open" /\ ~Reported(id)
    /\ Becomes(id, "gone") /\ Tell(id, "ChannelOpenFailed")

Close(id) == life[id] = "open" /\ Becomes(id, "gone") /\ Tell(id, "ChannelClosed")

CloseRefused(id) ==
    /\ life[id] = "gone"
    /\ Told(id, "ChannelOpened") /\ ~Told(id, "ChannelClosed")
    /\ Tell(id, "ChannelClosed") /\ UNCHANGED life

Next == \E id \in Ids :
    \/ Ask(id) \/ Confirm(id) \/ Refuse(id)
    \/ Data(id) \/ Eof(id) \/ Exit(id) \/ WindowFull(id)
    \/ RefuseSetup(id) \/ Close(id) \/ CloseRefused(id)

Spec == Init /\ [][Next]_promiseVars
=============================================================================
