----------------------------- MODULE ClientHost -----------------------------
(***************************************************************************)
(* SshClient between its user, who calls it at any time and from its       *)
(* callbacks, and a server at the other end of a transport that the user's *)
(* reader loop feeds it from.  The server keeps the promises of            *)
(* SessionPromise and ChannelPromise; it may end the session at any time.  *)
(***************************************************************************)
EXTENDS Client

CONSTANTS
    HostMay,        \* any of {"close", "nestedClose", "exec", "ctrlC", "reject"}
    ServerMay,      \* any of {"lastFailure", "refuse", "disconnect", "garbage"}
    MaxFailures,    \* bound: attempts refused
    MaxData,        \* bound: chunks of output of a channel
    MaxNesting      \* bound: frames on the stack when a callback calls

ASSUME HostAssumption ==
    /\ HostMay \subseteq {"close", "nestedClose", "exec", "ctrlC", "reject"}
    /\ ServerMay \subseteq {"lastFailure", "refuse", "disconnect", "garbage"}
    /\ MaxFailures \in Nat /\ MaxData \in Nat /\ MaxNesting \in Nat

VARIABLES
    to_client,      \* sent by the server and not yet fed
    stage,          \* what the server waits for
    failures,
    chan            \* id -> the server's end of it, and what it has said there

serverVars == <<to_client, stage, failures, chan>>

vars == <<options, engine, stack, client, promise, output, called, to_server, serverVars>>

clientUnchanged == UNCHANGED <<options, engine, stack, client, promise, output, called>>

Init ==
    /\ ClientInit
    /\ to_client = <<>>
    /\ stage = "ident"
    /\ failures = 0
    /\ chan = [id \in Channels |-> [open |-> FALSE, data |-> <<>>, exited |-> FALSE]]

-----------------------------------------------------------------------------
\* The server.  Its steps are taken while the client's thread is idle: what it
\* sends is not read earlier, and what it reads is there then as well.

Says(msgs) == Idle /\ to_client' = to_client \o msgs /\ clientUnchanged

Reads(type) == to_server # <<>> /\ Head(to_server).type = type /\ to_server' = Tail(to_server)

Greets ==
    /\ stage = "ident"
    /\ Reads("ident") /\ Says(<<Msg("kexReply")>>)
    /\ stage' = "service"
    /\ UNCHANGED <<failures, chan>>

Grants ==
    /\ stage = "service"
    /\ Reads("service") /\ Says(<<Msg("serviceAccept")>>)
    /\ stage' = "auth"
    /\ UNCHANGED <<failures, chan>>

Judges ==
    /\ stage = "auth"
    /\ Reads("auth")
    /\ \/ Says(<<Msg("success")>>) /\ stage' = "connected" /\ UNCHANGED failures
       \/ /\ failures < MaxFailures
          /\ Says(<<Msg("failure")>>) /\ failures' = failures + 1 /\ UNCHANGED stage
       \/ /\ "lastFailure" \in ServerMay
          /\ Says(<<Msg("lastFailure")>>) /\ UNCHANGED <<failures, stage>>
    /\ UNCHANGED chan

\* It confirms a channel, and starts its program when it is set up; either may
\* be refused.  The CLOSE a server may send behind a refused setup is left out:
\* the session has forgotten the channel and takes no notice of it.
OpensChannel ==
    /\ stage = "connected"
    /\ Reads("exec") \/ Reads("shell") \/ Reads("setup")
    /\ LET m == Head(to_server)
       IN  \/ /\ m.type = "setup"
              /\ chan' = [chan EXCEPT ![m.id].open = TRUE] /\ Says(<<>>)
           \/ /\ m.type # "setup"
              /\ Says(<<ChannelMsg("confirm", m.id)>>) /\ UNCHANGED chan
           \/ /\ "refuse" \in ServerMay
              /\ Says(<<ChannelMsg("refuse", m.id)>>) /\ UNCHANGED chan
    /\ UNCHANGED <<stage, failures>>

Writes(id) ==
    /\ stage = "connected" /\ chan[id].open /\ Len(chan[id].data) < MaxData
    /\ chan' = [chan EXCEPT ![id].data = Append(@, id)]
    /\ Says(<<ChannelMsg("data", id)>>)
    /\ UNCHANGED <<to_server, stage, failures>>

\* A program may exit before its output has been sent.
Exits(id) ==
    /\ stage = "connected" /\ chan[id].open /\ ~chan[id].exited
    /\ chan' = [chan EXCEPT ![id].exited = TRUE]
    /\ Says(<<ChannelMsg("exit", id)>>)
    /\ UNCHANGED <<to_server, stage, failures>>

Closes(id) ==
    /\ stage = "connected" /\ chan[id].open
    /\ chan' = [chan EXCEPT ![id].open = FALSE]
    /\ Says(<<ChannelMsg("close", id)>>)
    /\ UNCHANGED <<to_server, stage, failures>>

\* It ends the session; then it hangs up.
Ends ==
    /\ stage # "hungUp"
    /\ \E type \in {"disconnect", "garbage"} \cap ServerMay : Says(<<Msg(type)>>)
    /\ stage' = "hungUp"
    /\ UNCHANGED <<to_server, failures, chan>>

ServerReads == Greets \/ Grants \/ Judges \/ OpensChannel

-----------------------------------------------------------------------------
\* The user and the reader loop.  The loop runs on an idle thread; it feeds what
\* has arrived in any portions and closes the client at the end of the stream
\* (connect() does).

Feeds ==
    /\ Idle
    /\ \E n \in 1..Len(to_client) :
          /\ FeedFromServer(SubSeq(to_client, 1, n))
          /\ to_client' = SubSeq(to_client, n + 1, Len(to_client))
    /\ UNCHANGED <<stage, failures, chan>>

StreamEnds ==
    /\ Idle /\ stage = "hungUp" /\ to_client = <<>>
    /\ Close /\ UNCHANGED serverVars

UserTypes ==
    /\ Idle
    /\ Enter \/ ("ctrlC" \in HostMay /\ CtrlC)
    /\ UNCHANGED serverVars

Answers ==
    /\ VerifierAnswers(TRUE) \/ ("reject" \in HostMay /\ VerifierAnswers(FALSE))
    /\ UNCHANGED serverVars

MayCall == Idle \/ (Running("callback") /\ Len(stack) < MaxNesting)

\* exec() is for a session that is ready; afterwards it is called at any time.
UserExecs ==
    /\ "exec" \in HostMay /\ MayCall
    /\ called # <<>> /\ called[1] = "ready"
    /\ Exec
    /\ UNCHANGED serverVars

\* The user closes the client once; another call would only poll again, as the
\* end of the stream does.
UserCloses ==
    /\ ~client.intentionalClose
    /\ \/ "close" \in HostMay /\ Idle
       \/ "nestedClose" \in HostMay /\ MayCall /\ ~Idle
    /\ Close
    /\ UNCHANGED serverVars

Next ==
    \/ Run /\ UNCHANGED serverVars
    \/ Feeds \/ StreamEnds \/ UserTypes \/ Answers \/ UserExecs \/ UserCloses
    \/ ServerReads \/ Ends
    \/ \E id \in Channels : Writes(id) \/ Exits(id) \/ Closes(id)

Spec == Init /\ [][Next]_vars

\* The thread runs what it has begun, the reader reads, the verifier answers, the
\* user types a password, the server answers requests and its programs end.
Fairness ==
    /\ WF_vars(Run /\ UNCHANGED serverVars)
    /\ WF_vars(Feeds) /\ WF_vars(StreamEnds)
    /\ WF_vars(UserTypes) /\ WF_vars(Answers)
    /\ WF_vars(ServerReads)
    /\ \A id \in Channels : WF_vars(Closes(id))

FairSpec == Spec /\ Fairness

-----------------------------------------------------------------------------
(***************************************************************************)
(* Properties                                                              *)
(***************************************************************************)

\* onClose "fires once, when the session terminates for any reason", whatever a
\* callback calls from inside shutdown, and however many errors meet
\* (client.ts:350-365).
ClosesOnce ==
    \A i, j \in DOMAIN called : called[i] = "close" /\ called[j] = "close" => i = j

\* No exec() promise outlives the client: when it is closed and its thread idle,
\* each has been resolved or rejected, also one made by a callback on the way
\* (client.ts:140-147, 350-361).
NoOrphans == Idle /\ client.closed => \A id \in Channels : promise[id] # "pending"

\* What the session wants sent has been handed over whenever control returns to
\* the host: the transport owes the client no further call
\* (client.ts:225-243, each flushOutgoing).
NothingUnsent == Idle => engine.outgoing = <<>>

\* A resolved exec() has all the output the server sent on its channel and the
\* exit status, whichever of them came first; no byte of another channel is in
\* it (client.ts:301-339, lib.rs:52-64).  The chunks of one channel are alike.
ResultsComplete ==
    \A id \in Channels : promise[id] = "resolved" =>
        /\ output[id].data = chan[id].data
        /\ output[id].exited = chan[id].exited

\* The attempts that are not yet answered: on their way, judged and on the way
\* back, or waiting to be polled.
OnTheWay(log, types) == Cardinality({i \in DOMAIN log : log[i].type \in types})

Attempts ==
    OnTheWay(engine.outgoing, {"auth"}) + OnTheWay(to_server, {"auth"}) +
    OnTheWay(to_client, {"success", "failure", "lastFailure"}) +
    OnTheWay(engine.buffered, {"success", "failure", "lastFailure"}) +
    OnTheWay(engine.events, {"AuthSuccess", "AuthFailure", "AuthFailureNoPassword"})

\* The password prompt is open only while no attempt is under way, and there is
\* never more than one attempt, however typing and answers alternate: the
\* session itself would let a second overwrite the first
\* (client.ts:170-209, session.rs:475-497).
OneAttempt == Attempts <= 1 /\ (client.awaitingPasswordInput => Attempts = 0)

\* Every exec() is settled, be it by the close of its channel, its refusal, or
\* the end of the session.
ExecsSettle == \A id \in Channels : promise[id] = "pending" ~> promise[id] # "pending"

\* When the session ends, the client closes: no later than the transport ends,
\* even if the terminal event was not polled when it was queued.
EndIsNoticed == engine.phase = "Closed" ~> client.closed
=============================================================================
