------------------------------ MODULE Bindings ------------------------------
(***************************************************************************)
(* The wasm session as SshClient sees it (wasm-ssh-bindgen/src/lib.rs):    *)
(* the calls of WasmSshSession, each a function of the engine's state.     *)
(* The session inside is only as detailed as SessionPromise and            *)
(* ChannelPromise make it; how it comes to keep those promises is the      *)
(* subject of Handshake and Connection.                                    *)
(*                                                                         *)
(* A message stands for the packets that lead the session to one event:    *)
(* "kexReply" for the key exchange up to the host-key question, "auth" for *)
(* an attempt with all its packets, and so on.  Channels are numbered from *)
(* 1 here, 0 being no channel; what the session sends while it drives is   *)
(* one message, the setup request of a channel that has been confirmed.    *)
(***************************************************************************)
EXTENDS Naturals, Sequences

Msg(type) == [type |-> type, id |-> 0]

ChannelMsg(type, id) == [type |-> type, id |-> id]

\* A new session.
NewEngine ==
    [phase |-> "KexInProgress", buffered |-> <<>>, outgoing |-> <<>>, events |-> <<>>,
     last_event_data |-> <<>>, next_id |-> 1]

FeedIncoming(engine, msgs) == [engine EXCEPT !.buffered = @ \o msgs]

-----------------------------------------------------------------------------
\* drive: one message after the other, until none is left, the session waits
\* for the host-key answer, or it is closed.

DriveGoesOn(engine) ==
    /\ engine.buffered # <<>>
    /\ engine.phase \notin {"Closed", "AwaitingHostKeyDecision"}

\* The event, and the phase if it changes, that a message leads to.
EventOf ==
    [kexReply |-> "HostKeyVerify", serviceAccept |-> "ReadyForAuth", failure |-> "AuthFailure",
     lastFailure |-> "AuthFailureNoPassword", success |-> "AuthSuccess",
     confirm |-> "ChannelOpened", refuse |-> "ChannelOpenFailed", data |-> "ChannelData",
     exit |-> "ChannelExitStatus", close |-> "ChannelClosed", disconnect |-> "Disconnected", garbage |-> "Unrecoverable"]

PhaseAfter ==
    [kexReply |-> "AwaitingHostKeyDecision", serviceAccept |-> "UserAuth",
     success |-> "Connected", disconnect |-> "Closed", garbage |-> "Closed"]

DriveOne(engine) ==
    LET m == Head(engine.buffered)
    IN  [engine EXCEPT
            !.buffered = Tail(@),
            !.events = Append(@, ChannelMsg(EventOf[m.type], m.id)),
            !.outgoing = IF m.type = "confirm" THEN Append(@, ChannelMsg("setup", m.id)) ELSE @,
            !.phase = IF m.type \in DOMAIN PhaseAfter THEN PhaseAfter[m.type] ELSE @]

-----------------------------------------------------------------------------
\* poll_event, with encode_event's stash: an event with bytes replaces what the
\* last one left.  Bytes are told apart by the channel they are meant for, those
\* of the host key by 0.
Polled(engine) ==
    [engine EXCEPT
        !.events = Tail(@),
        !.last_event_data = IF Head(engine.events).type \in {"ChannelData", "HostKeyVerify"}
                            THEN <<Head(engine.events).id>> ELSE @]

\* take_event_data drains the stash.
EventData(engine) == engine.last_event_data

DataTaken(engine) == [engine EXCEPT !.last_event_data = <<>>]

\* take_outgoing.
Taken(engine) == [engine EXCEPT !.outgoing = <<>>]

Sends(engine, msg) == [engine EXCEPT !.outgoing = Append(@, msg)]

\* provide_host_key_decision, without the drive() at its end.
Decided(engine, accept) ==
    IF engine.phase # "AwaitingHostKeyDecision" THEN engine
    ELSE IF accept THEN [Sends(engine, Msg("service")) EXCEPT !.phase = "ServiceRequest"]
    ELSE [engine EXCEPT !.phase = "Closed", !.events = Append(@, Msg("Unrecoverable"))]

\* authenticate_password and authenticate_publickey.
Authenticated(engine) ==
    IF engine.phase = "UserAuth" THEN Sends(engine, Msg("auth")) ELSE engine

\* open_exec and open_shell look at no phase.
Opened(engine, kind) ==
    [Sends(engine, ChannelMsg(kind, engine.next_id)) EXCEPT !.next_id = @ + 1]

NotifiedClosed(engine) ==
    IF engine.phase = "Closed" THEN engine
    ELSE [engine EXCEPT !.phase = "Closed", !.events = Append(@, Msg("Unrecoverable"))]
=============================================================================
