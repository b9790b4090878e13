-------------------------- MODULE ConnectionServer --------------------------
(***************************************************************************)
(* The server's side of the connection protocol: FakeServer's handlers     *)
(* (ssh-core-testkit/src/lib.rs), widened to any server that keeps RFC     *)
(* 4254.  It may refuse an open or a setup request, its programs write,    *)
(* end and exit in any order the RFC has, it may close a channel at any    *)
(* time, and it may ask for a sign of life with a request that wants a     *)
(* reply, as OpenSSH does.  It answers the requests of a channel in order  *)
(* and sends nothing on a channel it has closed.                           *)
(***************************************************************************)
EXTENDS ChannelTable, FiniteSets, FiniteSetsExt

CONSTANTS
    ServerMay,      \* the optional parts: any of AllServerMay
    Windows,        \* windows it may confirm
    MaxData         \* DATA messages of a channel; each carries one byte

AllServerMay == {"refuse", "deny", "closeEarly", "keepalive", "grant", "talkAfterDenial"}

ASSUME ServerAssumption ==
    /\ ServerMay \subseteq AllServerMay
    /\ Windows \subseteq 0..U32_MAX
    /\ MaxData \in 0..INITIAL_WINDOW_SIZE

VARIABLES
    srv,            \* id -> the server's end of the client's channel `id`
    strays          \* types of the messages that reached no open end

serverVars == <<srv, strays>>

\* The server numbers its ends differently from the client.
ServerEnd(id) == ID_SPACE + id

ClientEnd(ch) == ch - ID_SPACE

NoEnd == [state |-> "none", asked |-> <<>>, started |-> FALSE, denied |-> FALSE,
          eof |-> FALSE, exited |-> FALSE, closeSent |-> FALSE, closeGot |-> FALSE,
          data |-> 0, probed |-> FALSE, granted |-> FALSE]

ServerInit == srv = [id \in Ids |-> NoEnd] /\ strays = {}

-----------------------------------------------------------------------------
\* It reads the next message.

Reads(type) ==
    /\ to_server # <<>>
    /\ Head(to_server).type = type
    /\ to_server' = Tail(to_server)
    /\ UNCHANGED <<clientVars, to_client>>

Asked == Head(to_server)

\* The message is for an end that exists and that the client has not closed.
Reaches(id) == id \in Ids /\ srv[id].state = "open" /\ ~srv[id].closeGot

Receive(type, end) ==
    /\ Reads(type)
    /\ LET id == ClientEnd(Asked.ch)
       IN  IF Reaches(id)
           THEN srv' = [srv EXCEPT ![id] = end] /\ UNCHANGED strays
           ELSE strays' = strays \cup {Asked.type} /\ UNCHANGED srv

ReceiveOpen ==
    /\ Reads("CHANNEL_OPEN")
    /\ srv' = [srv EXCEPT ![Asked.ch] = [NoEnd EXCEPT !.state = "asked"]]
    /\ UNCHANGED strays

SetupRequests == {"exec", "pty-req", "shell"}

\* exec, pty-req and shell want a reply; window-change does not.
ReceiveRequest ==
    Receive("CHANNEL_REQUEST",
            IF Asked.req \in SetupRequests
            THEN [srv[ClientEnd(Asked.ch)] EXCEPT !.asked = Append(@, Asked.req)]
            ELSE srv[ClientEnd(Asked.ch)])

ReceiveClose ==
    Receive("CHANNEL_CLOSE", [srv[ClientEnd(Asked.ch)] EXCEPT !.closeGot = TRUE])

\* DATA, WINDOW_ADJUST and the reply to a keepalive: ChannelFlow has the windows.
ReceiveOther ==
    \E type \in {"CHANNEL_DATA", "CHANNEL_WINDOW_ADJUST", "CHANNEL_FAILURE"} :
        Receive(type, srv[ClientEnd(Asked.ch)])

ServerReads == ReceiveOpen \/ ReceiveRequest \/ ReceiveClose \/ ReceiveOther

-----------------------------------------------------------------------------
\* It answers, and acts of its own accord.

Says(id, msg, end) ==
    /\ to_client' = Append(to_client, msg)
    /\ srv' = [srv EXCEPT ![id] = end]
    /\ UNCHANGED <<clientVars, strays, to_server>>

\* handle_channel_open.
Confirm(id) ==
    /\ srv[id].state = "asked"
    /\ \E window \in Windows :
          Says(id, [Sized("CHANNEL_OPEN_CONFIRMATION", id, window) EXCEPT !.sender = ServerEnd(id)],
               [srv[id] EXCEPT !.state = "open"])

Refuse(id) ==
    /\ "refuse" \in ServerMay
    /\ srv[id].state = "asked"
    /\ Says(id, Message("CHANNEL_OPEN_FAILURE", id), [srv[id] EXCEPT !.state = "refused"])

\* The end may still send.  Unless it may talk after a denial, it waits then
\* for the client to close the channel.
MaySend(id) ==
    /\ srv[id].state = "open"
    /\ ~srv[id].closeSent
    /\ srv[id].denied => "talkAfterDenial" \in ServerMay

\* handle_channel_request: requests are answered in order.
Grant(id) ==
    /\ MaySend(id)
    /\ srv[id].asked # <<>>
    /\ Says(id, Message("CHANNEL_SUCCESS", id),
            [srv[id] EXCEPT !.asked = Tail(@), !.started = Head(srv[id].asked) # "pty-req"])

Deny(id) ==
    /\ "deny" \in ServerMay
    /\ MaySend(id)
    /\ srv[id].asked # <<>>
    /\ Says(id, Message("CHANNEL_FAILURE", id),
            [srv[id] EXCEPT !.asked = Tail(@), !.denied = TRUE])

Write(id) ==
    /\ MaySend(id)
    /\ srv[id].started /\ ~srv[id].eof /\ srv[id].data < MaxData
    /\ Says(id, Sized("CHANNEL_DATA", id, 1), [srv[id] EXCEPT !.data = @ + 1])

Eof(id) ==
    /\ MaySend(id)
    /\ srv[id].started /\ ~srv[id].eof
    /\ Says(id, Message("CHANNEL_EOF", id), [srv[id] EXCEPT !.eof = TRUE])

\* An exit-signal would do the same.
Exit(id) ==
    /\ MaySend(id)
    /\ srv[id].started /\ ~srv[id].exited
    /\ Says(id, Request(id, "exit-status"), [srv[id] EXCEPT !.exited = TRUE])

Keepalive(id) ==
    /\ "keepalive" \in ServerMay
    /\ MaySend(id) /\ ~srv[id].probed
    /\ Says(id, [Request(id, "keepalive@openssh.com") EXCEPT !.len = 1],
            [srv[id] EXCEPT !.probed = TRUE])

GrantWindow(id) ==
    /\ "grant" \in ServerMay
    /\ MaySend(id) /\ ~srv[id].granted
    /\ Says(id, Sized("CHANNEL_WINDOW_ADJUST", id, 1), [srv[id] EXCEPT !.granted = TRUE])

\* It closes when the program has exited, in answer to the client's CLOSE, and
\* early if it wants to.
CloseDue(id) == srv[id].exited \/ srv[id].closeGot

Close(id) ==
    /\ srv[id].state = "open" /\ ~srv[id].closeSent
    /\ CloseDue(id) \/ "closeEarly" \in ServerMay
    /\ Says(id, Message("CHANNEL_CLOSE", id), [srv[id] EXCEPT !.closeSent = TRUE])

\* How often it has written, probed and granted: what MaxExtras bounds.
Extras == MapThenSumSet(LAMBDA id : srv[id].data, Ids)
          + Cardinality({id \in Ids : srv[id].probed})
          + Cardinality({id \in Ids : srv[id].granted})

ServerActs(id) ==
    \/ Confirm(id) \/ Refuse(id)
    \/ Grant(id) \/ Deny(id)
    \/ Write(id) \/ Eof(id) \/ Exit(id)
    \/ Keepalive(id) \/ GrantWindow(id)
    \/ Close(id)
=============================================================================
