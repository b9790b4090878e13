----------------------------- MODULE Connection -----------------------------
(***************************************************************************)
(* The connection protocol between a Connected session, its host and its   *)
(* server, over two reliable, ordered streams.                             *)
(***************************************************************************)
EXTENDS ConnectionServer

CONSTANTS
    HostMay,        \* the optional calls: any of {"send", "resize", "close"}
    Kinds,          \* the channels it opens: subset of {"Exec", "Shell"}
    MaxOpens,       \* bound: channels opened
    MaxExtras       \* bound: with n channels opened, how often the host sends,
                    \* resizes and closes and the server writes, probes and grants

ASSUME HostAssumption ==
    /\ HostMay \subseteq {"send", "resize", "close"}
    /\ Kinds \subseteq {"Exec", "Shell"}
    /\ MaxOpens \in 0..(ID_SPACE - 1)
    /\ MaxExtras \in [0..MaxOpens -> Nat]

VARIABLES
    calls,          \* how often the host has sent, resized and closed
    closedByHost    \* ids the host has called close_channel for

hostVars == <<calls, closedByHost>>

vars == <<clientVars, to_server, to_client, serverVars, hostVars>>

Init ==
    /\ phase = "Connected"
    /\ channels = <<>> /\ next_id = 0
    /\ channel_setup = <<>> /\ pending_exec = {} /\ pending_pty = {}
    /\ events = [id \in Ids |-> <<>>] /\ terminal = <<>>
    /\ panicked = FALSE
    /\ to_server = <<>> /\ to_client = <<>>
    /\ ServerInit
    /\ calls = 0 /\ closedByHost = {}

-----------------------------------------------------------------------------
WithinBound == calls + Extras <= MaxExtras[next_id]

HostOpens ==
    /\ next_id < MaxOpens
    /\ \/ "Exec" \in Kinds /\ OpenExec
       \/ "Shell" \in Kinds /\ OpenShell
    /\ UNCHANGED <<serverVars, hostVars>>
    /\ WithinBound'

Calls ==
    /\ calls' = calls + 1
    /\ UNCHANGED serverVars
    /\ WithinBound'

\* The host sends and resizes until it closes the channel.
HostSends ==
    /\ "send" \in HostMay
    /\ \E id \in Ids \ closedByHost : ChannelSend(id, 1)
    /\ Calls /\ UNCHANGED closedByHost

HostResizes ==
    /\ "resize" \in HostMay
    /\ \E id \in Ids \ closedByHost : ResizePty(id)
    /\ Calls /\ UNCHANGED closedByHost

HostCloses ==
    /\ "close" \in HostMay
    /\ \E id \in Ids \ closedByHost :
          CloseChannel(id) /\ closedByHost' = closedByHost \cup {id}
    /\ Calls

ClientHandles == HandleMessage /\ UNCHANGED <<serverVars, hostVars>>

Next ==
    \/ HostOpens \/ HostSends \/ HostResizes \/ HostCloses
    \/ ClientHandles
    \/ ServerReads /\ UNCHANGED hostVars
    \/ \E id \in Ids : ServerActs(id) /\ UNCHANGED hostVars /\ WithinBound'

Spec == Init /\ [][Next]_vars

\* Bytes that arrive are handled; a server reads, decides what it was asked, and
\* closes a channel when that is due.  Nothing makes a program end, nor a host
\* call.
Fairness ==
    /\ WF_vars(ClientHandles)
    /\ WF_vars(ServerReads /\ UNCHANGED hostVars)
    /\ \A id \in Ids :
          /\ WF_vars((Confirm(id) \/ Refuse(id)) /\ UNCHANGED hostVars)
          /\ WF_vars((Grant(id) \/ Deny(id)) /\ UNCHANGED hostVars)
          /\ WF_vars(CloseDue(id) /\ Close(id) /\ UNCHANGED hostVars)

FairSpec == Spec /\ Fairness

-----------------------------------------------------------------------------
(***************************************************************************)
(* Properties                                                              *)
(***************************************************************************)

Types == {"CHANNEL_OPEN", "CHANNEL_OPEN_CONFIRMATION", "CHANNEL_OPEN_FAILURE",
          "CHANNEL_SUCCESS", "CHANNEL_FAILURE", "CHANNEL_WINDOW_ADJUST",
          "CHANNEL_DATA", "CHANNEL_EOF", "CHANNEL_CLOSE", "CHANNEL_REQUEST"}

Requests == SetupRequests \cup
            {"none", "window-change", "exit-status", "exit-signal", "keepalive@openssh.com"}

Ends == {ServerEnd(id) : id \in Ids}

WireMessages == [type : Types, ch : Ids \cup Ends, req : Requests,
              len : 0..U32_MAX, sender : {0} \cup Ends]

Events == {"ChannelOpened", "ChannelOpenFailed", "ChannelData", "ChannelEof",
           "ChannelExitStatus", "ChannelClosed", "ChannelWindowFull"}

ChannelRecords ==
    [remote_id : {None} \cup Ends, kind : {"Exec", "Shell"},
     lifecycle : {"OpenRequested", "Open", "EofSent"},
     local_window : 0..U32_MAX, local_window_unadvertised : 0..U32_MAX,
     remote_window : 0..U32_MAX, remote_max_packet : 0..MAX_PACKET_SIZE]

ServerEnds ==
    [state : {"none", "asked", "open", "refused"}, asked : Seq(SetupRequests),
     started : BOOLEAN, denied : BOOLEAN, eof : BOOLEAN, exited : BOOLEAN,
     closeSent : BOOLEAN, closeGot : BOOLEAN,
     data : 0..MaxData, probed : BOOLEAN, granted : BOOLEAN]

\* The values the variables take (session.rs:95-140, connection/mod.rs:29-32).
TypeOK ==
    /\ phase \in {"Connected", "Closed"}
    /\ DOMAIN channels \subseteq Ids
    /\ \A id \in DOMAIN channels : channels[id] \in ChannelRecords
    /\ next_id \in Ids
    /\ DOMAIN channel_setup \subseteq Ids
    /\ \A id \in DOMAIN channel_setup : channel_setup[id] \in
          {"AwaitingExecReply", "AwaitingPtyReply", "AwaitingShellReply"}
    /\ pending_exec \subseteq Ids /\ pending_pty \subseteq Ids
    /\ events \in [Ids -> Seq(Events)]
    /\ terminal \in Seq({"Channel"})
    /\ panicked \in BOOLEAN
    /\ to_server \in Seq(WireMessages) /\ to_client \in Seq(WireMessages)
    /\ srv \in [Ids -> ServerEnds]
    /\ strays \subseteq Types
    /\ calls \in Nat /\ closedByHost \subseteq Ids

\* Against a server that keeps to the protocol no expect() fails: the setup of
\* a channel goes on, a request is declined and a window is returned only while
\* the server's id is known (session.rs:676, connection/mod.rs:225,
\* channel.rs:92), whatever entries a refused or closed channel left behind.
NoPanic == ~panicked

\* Messages that cross an open, a close or a setup request on the wire never
\* meet a channel the table has forgotten, so a server that keeps to the
\* protocol never makes the session fail (connection/mod.rs:242, session.rs:703).
\* It holds if the server falls silent on a channel whose setup it denied.  The
\* comment at error.rs:54, that the session fails at a "channel-level protocol
\* violation", claims it of every server of this module: none violates any.
NeverFails == phase = "Connected"

\* The setup requests of a channel that still await their reply: on the way, at
\* the server, or answered on the way back.  The first and the last are given by
\* their places in the streams.
OnTheWay(id) == {i \in DOMAIN to_server :
    to_server[i].ch = ServerEnd(id) /\ to_server[i].req \in SetupRequests}

Answers(id) == {i \in DOMAIN to_client :
    to_client[i].ch = id /\ to_client[i].type \in {"CHANNEL_SUCCESS", "CHANNEL_FAILURE"}}

Unanswered(id) ==
    Cardinality(OnTheWay(id)) + Len(srv[id].asked) + Cardinality(Answers(id))

Awaited == [AwaitingExecReply |-> "exec", AwaitingPtyReply |-> "pty-req",
            AwaitingShellReply |-> "shell"]

\* A reply names no request: continue_channel_setup takes it for the answer to
\* the step the channel is in.  So on a live channel exactly one request is
\* unanswered while a step waits, it is the one the step names, and none is
\* when no step waits (session.rs:650-701).
RepliesMatch ==
    \A id \in DOMAIN channels \ closedByHost :
        Known(id) /\ ~srv[id].closeSent =>
            /\ Unanswered(id) = IF Step(id) = "none" THEN 0 ELSE 1
            /\ \A i \in OnTheWay(id) : to_server[i].req = Awaited[Step(id)]
            /\ \A i \in DOMAIN srv[id].asked : srv[id].asked[i] = Awaited[Step(id)]

\* Nothing is sent on a channel after its CLOSE, unless it was the host that
\* closed it: what a refused setup leaves behind makes the client neither send
\* to the closed channel nor close it again (session.rs:654-672).
NoStrays == closedByHost = {} => strays = {}

Life(id) == CASE id \in DOMAIN channels /\ Known(id) -> "open"
              [] id \in DOMAIN channels /\ ~Known(id) -> "opening"
              [] id \notin DOMAIN channels /\ events[id] = <<>> -> "unused"
              [] OTHER -> "gone"

Promise == INSTANCE ChannelPromise WITH life <- [id \in Ids |-> Life(id)], told <- events

\* The events of each channel come in an order ChannelPromise allows, and the
\* table holds a channel exactly while the host may expect events of it
\* (event.rs, connection/mod.rs:76-185, session.rs:598-701).
KeepsPromise == Promise!Spec

\* Every open is settled: it is confirmed with its setup done, or gone.
OpenSettles ==
    \A id \in Ids : id \in DOMAIN channels ~> (id \in DOMAIN channels => Step(id) = "none")

\* A channel the host closes after it was confirmed, or whose program exits, or
\* whose setup was denied, leaves the table (connection/mod.rs:163-167).
CloseSettles ==
    \A id \in Ids : (id \in closedByHost \/ srv[id].exited \/ srv[id].denied)
                        ~> id \notin DOMAIN channels
=============================================================================
