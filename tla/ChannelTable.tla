---------------------------- MODULE ChannelTable ----------------------------
(***************************************************************************)
(* The client's side of the connection protocol once the session is        *)
(* Connected: the table of channels (ssh-core/src/connection/mod.rs) and   *)
(* the part of Session that opens channels, sets them up and sends on them *)
(* (ssh-core/src/session.rs).  One action per host call and one per        *)
(* message from the server, each the whole handler.                        *)
(*                                                                         *)
(* The maps of the code are functions whose domain is the ids present.     *)
(* Commands, pty options and payloads are left out: pending_exec and       *)
(* pending_pty are the ids they are kept for, DATA is its length, and the  *)
(* stream a chunk belongs to is not told apart.  The event queue is kept   *)
(* as one log per channel, the event that ends the session in `terminal`.  *)
(***************************************************************************)
EXTENDS Channel

CONSTANT ID_SPACE       \* how many ids next_id runs through: 2^32 in the code

ASSUME IdAssumption == ID_SPACE \in Nat \ {0}

Ids == 0..(ID_SPACE - 1)

VARIABLES
    phase,              \* "Connected", or "Closed" by fail
    channels,           \* ChannelTable.channels
    next_id,            \* ChannelTable.next_id
    channel_setup,      \* id -> ChannelSetupStep
    pending_exec, pending_pty,
    events,             \* id -> the events queued for it, in order
    terminal,           \* the Unrecoverable events queued
    panicked,           \* an expect() has failed
    to_server,          \* messages written, and not yet read by the server
    to_client           \* messages on their way to the client

setupVars == <<channel_setup, pending_exec, pending_pty>>

clientVars == <<phase, channels, next_id, setupVars, events, terminal, panicked>>

Put(f, key, value) ==
    [x \in DOMAIN f \cup {key} |-> IF x = key THEN value ELSE f[x]]

Without(f, key) == [x \in DOMAIN f \ {key} |-> f[x]]

-----------------------------------------------------------------------------
\* Messages.  `ch` is the recipient channel, or the sender's for an OPEN; `len`
\* an amount of data or window; `sender` and `req` where the message has them.

Message(type, ch) == [type |-> type, ch |-> ch, req |-> "none", len |-> 0, sender |-> 0]

Sized(type, ch, len) == [Message(type, ch) EXCEPT !.len = len]

Request(ch, req) == [Message("CHANNEL_REQUEST", ch) EXCEPT !.req = req]

Send(msgs) == to_server' = to_server \o msgs

Report(id, event) == events' = [events EXCEPT ![id] = Append(@, event)]

-----------------------------------------------------------------------------
\* The host's calls.  None of them looks at the phase.

\* ChannelTable::open, and its two callers.
Open(kind, step, msg_type) ==
    /\ ~panicked
    /\ channels' = Put(channels, next_id, ChannelNew(kind))
    /\ channel_setup' = Put(channel_setup, next_id, step)
    /\ next_id' = (next_id + 1) % ID_SPACE
    /\ Send(<<Message(msg_type, next_id)>>)
    /\ UNCHANGED <<phase, events, terminal, panicked, to_client>>

OpenExec ==
    /\ Open("Exec", "AwaitingExecReply", "CHANNEL_OPEN")
    /\ pending_exec' = pending_exec \cup {next_id}
    /\ UNCHANGED pending_pty

OpenShell ==
    /\ Open("Shell", "AwaitingPtyReply", "CHANNEL_OPEN")
    /\ pending_pty' = pending_pty \cup {next_id}
    /\ UNCHANGED pending_exec

\* channel_send: a channel that is not confirmed has window and packet size 0.
Writable(id) == channels[id].remote_max_packet > 0

Taken(id, len) == IF Writable(id) THEN Consumed(channels[id], len) ELSE 0

DataMessages(id, len) ==
    LET ch == channels[id]
    IN  [i \in 1..(IF Writable(id) THEN Messages(ch, len) ELSE 0) |->
            Sized("CHANNEL_DATA", ch.remote_id,
                  SentAfter(ch, len, i) - SentAfter(ch, len, i - 1))]

ChannelSend(id, len) ==
    /\ ~panicked
    /\ id \in DOMAIN channels
    /\ Send(DataMessages(id, len))
    /\ channels' = IF Writable(id)
                   THEN [channels EXCEPT ![id] = AfterData(@, len)]
                   ELSE channels
    /\ IF Taken(id, len) < len THEN Report(id, "ChannelWindowFull") ELSE UNCHANGED events
    /\ UNCHANGED <<phase, next_id, setupVars, terminal, panicked, to_client>>

\* resize_pty and close_channel send nothing before the confirmation; neither
\* leaves a trace in the session.
Known(id) == id \in DOMAIN channels /\ channels[id].remote_id # None

SendsOnly(msgs) ==
    /\ ~panicked
    /\ Send(msgs)
    /\ UNCHANGED <<clientVars, to_client>>

ResizePty(id) == Known(id) /\ SendsOnly(<<Request(channels[id].remote_id, "window-change")>>)

CloseChannel(id) == Known(id) /\ SendsOnly(<<Message("CHANNEL_CLOSE", channels[id].remote_id)>>)

-----------------------------------------------------------------------------
\* One iteration of drive on a message of the connection protocol.

Arrived(type) ==
    /\ phase = "Connected" /\ ~panicked
    /\ to_client # <<>>
    /\ Head(to_client).type = type
    /\ to_client' = Tail(to_client)

Msg == Head(to_client)

\* channel_mut on an unknown id is an error, and drive fails the session with it.
UnknownChannel ==
    /\ Msg.ch \notin DOMAIN channels
    /\ phase' = "Closed"
    /\ terminal' = Append(terminal, "Channel")
    /\ UNCHANGED <<channels, next_id, setupVars, events, panicked, to_server>>

Panic ==
    /\ panicked' = TRUE
    /\ UNCHANGED <<phase, channels, next_id, setupVars, events, terminal, to_server>>

Calm == UNCHANGED <<phase, next_id, terminal, panicked>>

Step(id) == IF id \in DOMAIN channel_setup THEN channel_setup[id] ELSE "none"

\* Mutants of StartSetup: nothing is asked; the shell is asked for at once.
StartSetupForgotten(id, remote_id) == UNCHANGED <<setupVars, to_server>>

StartSetupHasty(id, remote_id) ==
    /\ Send(IF Step(id) = "AwaitingPtyReply"
            THEN <<Request(remote_id, "pty-req"), Request(remote_id, "shell")>>
            ELSE <<Request(remote_id, "exec")>>)
    /\ UNCHANGED setupVars

\* continue_channel_setup with no reply: the open has just been confirmed.
StartSetup(id, remote_id) ==
    \/ /\ Step(id) = "none"
       /\ UNCHANGED <<setupVars, to_server>>
    \/ /\ Step(id) = "AwaitingExecReply"
       /\ pending_exec' = pending_exec \ {id}
       /\ Send(<<Request(remote_id, "exec")>>)
       /\ UNCHANGED <<channel_setup, pending_pty>>
    \/ /\ Step(id) = "AwaitingPtyReply"
       /\ pending_pty' = pending_pty \ {id}
       /\ Send(<<Request(remote_id, "pty-req")>>)
       /\ UNCHANGED <<channel_setup, pending_exec>>
    \/ /\ Step(id) = "AwaitingShellReply"
       /\ channel_setup' = Without(channel_setup, id)
       /\ UNCHANGED <<pending_exec, pending_pty, to_server>>

HandleOpenConfirmation ==
    /\ Arrived("CHANNEL_OPEN_CONFIRMATION")
    /\ \/ UnknownChannel
       \/ /\ Msg.ch \in DOMAIN channels
          /\ channels' = [channels EXCEPT ![Msg.ch] =
                             OnOpenConfirmation(@, Msg.sender, Msg.len, MAX_PACKET_SIZE)]
          /\ StartSetup(Msg.ch, Msg.sender)
          /\ Report(Msg.ch, "ChannelOpened")
          /\ Calm

\* remove() does not mind an unknown id; the setup entries stay behind.
HandleOpenFailure ==
    /\ Arrived("CHANNEL_OPEN_FAILURE")
    /\ channels' = Without(channels, Msg.ch)
    /\ Report(Msg.ch, "ChannelOpenFailed")
    /\ UNCHANGED <<setupVars, to_server>> /\ Calm

\* The session's reply handlers, handle_channel_success and _failure, which the
\* dispatcher calls in place of the table.
HandleSuccess ==
    /\ Arrived("CHANNEL_SUCCESS")
    /\ \/ /\ Step(Msg.ch) = "none"
          /\ UNCHANGED <<channels, setupVars, events, to_server>> /\ Calm
       \/ /\ Step(Msg.ch) # "none" /\ ~Known(Msg.ch)
          /\ Panic
       \/ /\ Step(Msg.ch) = "AwaitingPtyReply" /\ Known(Msg.ch)
          /\ channel_setup' = [channel_setup EXCEPT ![Msg.ch] = "AwaitingShellReply"]
          /\ Send(<<Request(channels[Msg.ch].remote_id, "shell")>>)
          /\ UNCHANGED <<channels, pending_exec, pending_pty, events>> /\ Calm
       \/ /\ Step(Msg.ch) \in {"AwaitingExecReply", "AwaitingShellReply"} /\ Known(Msg.ch)
          /\ channel_setup' = Without(channel_setup, Msg.ch)
          /\ UNCHANGED <<channels, pending_exec, pending_pty, events, to_server>> /\ Calm

\* Mutant of HandleFailure: the channel stays in the table.
HandleFailureKeeps ==
    /\ Arrived("CHANNEL_FAILURE")
    /\ channel_setup' = Without(channel_setup, Msg.ch)
    /\ Send(IF Step(Msg.ch) # "none" /\ Known(Msg.ch)
            THEN <<Message("CHANNEL_CLOSE", channels[Msg.ch].remote_id)>>
            ELSE <<>>)
    /\ Report(Msg.ch, "ChannelOpenFailed")
    /\ UNCHANGED <<channels, pending_exec, pending_pty>> /\ Calm

HandleFailure ==
    /\ Arrived("CHANNEL_FAILURE")
    /\ \/ /\ Step(Msg.ch) = "none"
          /\ UNCHANGED <<channels, setupVars, events, to_server>> /\ Calm
       \/ /\ Step(Msg.ch) # "none"
          /\ channel_setup' = Without(channel_setup, Msg.ch)
          /\ channels' = Without(channels, Msg.ch)
          /\ Send(IF Known(Msg.ch)
                  THEN <<Message("CHANNEL_CLOSE", channels[Msg.ch].remote_id)>>
                  ELSE <<>>)
          /\ Report(Msg.ch, "ChannelOpenFailed")
          /\ UNCHANGED <<pending_exec, pending_pty>> /\ Calm

HandleWindowAdjust ==
    /\ Arrived("CHANNEL_WINDOW_ADJUST")
    /\ \/ UnknownChannel
       \/ /\ Msg.ch \in DOMAIN channels
          /\ channels' = [channels EXCEPT ![Msg.ch] = OnWindowAdjust(@, Msg.len)]
          /\ UNCHANGED <<setupVars, events, to_server>> /\ Calm

\* DATA and EXTENDED_DATA: a WINDOW_ADJUST to return needs the server's id.
HandleData ==
    /\ Arrived("CHANNEL_DATA")
    /\ \/ UnknownChannel
       \/ /\ Msg.ch \in DOMAIN channels
          /\ Adjusts(channels[Msg.ch], Msg.len) /\ ~Known(Msg.ch)
          /\ Panic
       \/ /\ Msg.ch \in DOMAIN channels
          /\ Adjusts(channels[Msg.ch], Msg.len) => Known(Msg.ch)
          /\ channels' = [channels EXCEPT ![Msg.ch] = OnDataConsumed(@, Msg.len)]
          /\ Send(IF Adjusts(channels[Msg.ch], Msg.len)
                  THEN <<Sized("CHANNEL_WINDOW_ADJUST", channels[Msg.ch].remote_id,
                               Unadvertised(channels[Msg.ch], Msg.len))>>
                  ELSE <<>>)
          /\ Report(Msg.ch, "ChannelData")
          /\ UNCHANGED setupVars /\ Calm

\* Mutant of HandleEof: an end of output is taken for the end of the channel.
HandleEofRemoves ==
    /\ Arrived("CHANNEL_EOF")
    /\ channels' = Without(channels, Msg.ch)
    /\ Report(Msg.ch, "ChannelEof")
    /\ UNCHANGED <<setupVars, to_server>> /\ Calm

HandleEof ==
    /\ Arrived("CHANNEL_EOF")
    /\ \/ UnknownChannel
       \/ /\ Msg.ch \in DOMAIN channels
          /\ channels' = [channels EXCEPT ![Msg.ch].lifecycle = "EofSent"]
          /\ Report(Msg.ch, "ChannelEof")
          /\ UNCHANGED <<setupVars, to_server>> /\ Calm

\* Mutant of HandleClose: the channel is not removed.
HandleCloseKeeps ==
    /\ Arrived("CHANNEL_CLOSE")
    /\ Report(Msg.ch, "ChannelClosed")
    /\ UNCHANGED <<channels, setupVars, to_server>> /\ Calm

\* No CLOSE is sent in return.
HandleClose ==
    /\ Arrived("CHANNEL_CLOSE")
    /\ channels' = Without(channels, Msg.ch)
    /\ Report(Msg.ch, "ChannelClosed")
    /\ UNCHANGED <<setupVars, to_server>> /\ Calm

\* handle_channel_request.  A request other than the two that report the
\* program's end is declined, if it wants a reply: `len` is 1 then.
HandleRequest ==
    /\ Arrived("CHANNEL_REQUEST")
    /\ \/ UnknownChannel
       \/ /\ Msg.ch \in DOMAIN channels
          /\ Msg.req \in {"exit-status", "exit-signal"}
          /\ Report(Msg.ch, "ChannelExitStatus")
          /\ UNCHANGED <<channels, setupVars, to_server>> /\ Calm
       \/ /\ Msg.ch \in DOMAIN channels
          /\ Msg.req \notin {"exit-status", "exit-signal"}
          /\ \/ Msg.len = 1 /\ ~Known(Msg.ch) /\ Panic
             \/ /\ Msg.len = 1 => Known(Msg.ch)
                /\ Send(IF Msg.len = 1
                        THEN <<Message("CHANNEL_FAILURE", channels[Msg.ch].remote_id)>>
                        ELSE <<>>)
                /\ UNCHANGED <<channels, setupVars, events>> /\ Calm

HandleMessage ==
    \/ HandleOpenConfirmation \/ HandleOpenFailure
    \/ HandleSuccess \/ HandleFailure
    \/ HandleWindowAdjust \/ HandleData
    \/ HandleEof \/ HandleClose \/ HandleRequest
=============================================================================
