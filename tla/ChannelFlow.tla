----------------------------- MODULE ChannelFlow -----------------------------
(***************************************************************************)
(* Flow control on one open channel, both directions at once: the client's *)
(* Channel, the server's end of it (RFC 4254, 5.2) and the two reliable,   *)
(* ordered streams between them.                                           *)
(*                                                                         *)
(* A stream is the log of the DATA and WINDOW_ADJUST messages written to   *)
(* it, with the reader's index.  A message is recorded by the totals its   *)
(* writer has reached with it: `data`, the bytes of channel data sent, and *)
(* `credit`, the bytes of window returned.  A DATA message raises the one, *)
(* a WINDOW_ADJUST the other.                                              *)
(***************************************************************************)
EXTENDS Channel

CONSTANTS
    ServerWindows,      \* initial windows the server may confirm
    ServerMaxPackets,   \* maximum packet sizes the server may confirm
    Input,              \* bytes the host has to send
    Output,             \* bytes the server's program has to write
    MaxGrant,           \* the most the server returns in one WINDOW_ADJUST
    HostRetries         \* the host keeps what channel_send did not take

ASSUME FlowAssumption ==
    /\ ServerWindows \subseteq 0..U32_MAX
    /\ ServerMaxPackets \subseteq 0..U32_MAX
    /\ Input \in Nat /\ Output \in Nat
    /\ MaxGrant \in Nat
    /\ HostRetries \in BOOLEAN

VARIABLES
    ch,                 \* the client's Channel
    confirmed,          \* the initial window the server confirmed
    to_server, server_read,
    to_client, client_read,
    taken               \* bytes of Input handed to channel_send and not kept

vars == <<ch, confirmed, to_server, server_read, to_client, client_read, taken>>

Totals == [data : Nat, credit : Nat]

\* The totals of the first i messages of a log.
Upto(log, i) == IF i = 0 THEN [data |-> 0, credit |-> 0] ELSE log[i]

Sent(log) == Upto(log, Len(log))

\* The two messages, and how long the next one to be read is.
WriteData(log, len) == Append(log, [Sent(log) EXCEPT !.data = @ + len])

WriteAdjust(log, len) == Append(log, [Sent(log) EXCEPT !.credit = @ + len])

DataLen(log, read) == log[read + 1].data - Upto(log, read).data

AdjustLen(log, read) == log[read + 1].credit - Upto(log, read).credit

\* The bytes the server may still send, as it counts them, and the bytes it is
\* still prepared to receive.
SrvWindow == INITIAL_WINDOW_SIZE + Upto(to_server, server_read).credit - Sent(to_client).data

SrvGranted == confirmed + Sent(to_client).credit - Upto(to_server, server_read).data

\* What the server is still prepared to receive, less what is on its way.
Outstanding == confirmed + Upto(to_client, client_read).credit - Sent(to_server).data

\* The channel has just been confirmed (handle_message, OPEN_CONFIRMATION).
Init ==
    /\ confirmed \in ServerWindows
    /\ \E max_packet \in ServerMaxPackets :
          ch = OnOpenConfirmation(ChannelNew("Shell"), 1, confirmed, max_packet)
    /\ to_server = <<>> /\ server_read = 0
    /\ to_client = <<>> /\ client_read = 0
    /\ taken = 0

-----------------------------------------------------------------------------
\* The client.

\* channel_send on the next len bytes of the host's input: one DATA message per
\* turn of build_data_messages' loop.  What was not consumed the host keeps and
\* offers again, if it looks at the result of the call.
ChannelSend(len) ==
    /\ len <= Input - taken
    /\ LET total == Sent(to_server)
       IN  to_server' = to_server \o
              [i \in 1..Messages(ch, len) |->
                  [total EXCEPT !.data = @ + SentAfter(ch, len, i)]]
    /\ ch' = AfterData(ch, len)
    /\ taken' = taken + (IF HostRetries THEN Consumed(ch, len) ELSE len)
    /\ UNCHANGED <<confirmed, server_read, to_client, client_read>>

HostSends == \E len \in 1..Input : ChannelSend(len)

\* handle_message, CHANNEL_DATA and CHANNEL_EXTENDED_DATA; the WINDOW_ADJUST it
\* may return is sent by handle_channel_message.
HandleData ==
    /\ client_read < Len(to_client)
    /\ LET len == DataLen(to_client, client_read)
       IN  /\ len > 0
           /\ ch' = OnDataConsumed(ch, len)
           /\ to_server' = IF Adjusts(ch, len)
                           THEN WriteAdjust(to_server, Unadvertised(ch, len))
                           ELSE to_server
    /\ client_read' = client_read + 1
    /\ UNCHANGED <<confirmed, server_read, to_client, taken>>

\* handle_message, CHANNEL_WINDOW_ADJUST.
HandleWindowAdjust ==
    /\ client_read < Len(to_client)
    /\ AdjustLen(to_client, client_read) > 0
    /\ ch' = OnWindowAdjust(ch, AdjustLen(to_client, client_read))
    /\ client_read' = client_read + 1
    /\ UNCHANGED <<confirmed, to_server, server_read, to_client, taken>>

-----------------------------------------------------------------------------
\* The server: it keeps its side of RFC 4254, 5.2.

SrvReads ==
    /\ server_read < Len(to_server)
    /\ server_read' = server_read + 1
    /\ UNCHANGED <<ch, confirmed, to_server, to_client, client_read, taken>>

SrvWrites ==
    /\ \E len \in 1..MAX_PACKET_SIZE :
          /\ len <= SrvWindow
          /\ len <= Output - Sent(to_client).data
          /\ to_client' = WriteData(to_client, len)
    /\ UNCHANGED <<ch, confirmed, to_server, server_read, client_read, taken>>

\* Bounded: it opens the window no further than it needs to for Input.
SrvGrants ==
    /\ \E len \in 1..MaxGrant :
          /\ SrvGranted + len <= U32_MAX
          /\ confirmed + Sent(to_client).credit < Input
          /\ to_client' = WriteAdjust(to_client, len)
    /\ UNCHANGED <<ch, confirmed, to_server, server_read, client_read, taken>>

Next ==
    \/ HostSends
    \/ HandleData
    \/ HandleWindowAdjust
    \/ SrvReads
    \/ SrvWrites
    \/ SrvGrants

Spec == Init /\ [][Next]_vars

\* drive handles whatever has arrived; the host offers its input again; the
\* server reads, writes and returns credit.
Fairness ==
    /\ WF_vars(HandleData) /\ WF_vars(HandleWindowAdjust)
    /\ WF_vars(HostSends)
    /\ WF_vars(SrvReads) /\ WF_vars(SrvWrites) /\ WF_vars(SrvGrants)

FairSpec == Spec /\ Fairness

-----------------------------------------------------------------------------
\* Properties.

Channels ==
    [remote_id : {None, 1}, kind : {"Exec", "Shell"},
     lifecycle : {"OpenRequested", "Open", "EofSent"},
     local_window : 0..U32_MAX, local_window_unadvertised : 0..U32_MAX,
     remote_window : 0..U32_MAX, remote_max_packet : 1..U32_MAX]

TypeOK ==
    /\ ch \in Channels
    /\ confirmed \in 0..U32_MAX
    /\ to_server \in Seq(Totals) /\ server_read \in 0..Len(to_server)
    /\ to_client \in Seq(Totals) /\ client_read \in 0..Len(to_client)
    /\ taken \in 0..Input

\* The client's two windows are exactly what the two logs say: neither
\* saturating_add nor saturating_sub ever loses a byte, whatever the order in
\* which data and adjustments cross (build_data_messages, on_data_consumed,
\* on_window_adjust).
WindowsAccount ==
    /\ ch.remote_window = Outstanding
    /\ ch.local_window = INITIAL_WINDOW_SIZE + Sent(to_server).credit
                            - Upto(to_client, client_read).data
    /\ ch.local_window_unadvertised = Upto(to_client, client_read).data - Sent(to_server).credit

\* The client never sends a byte the server has not granted, as the server
\* counts when it reads it.
NeverOverruns == SrvGranted >= 0

\* The server is never left without a window: once everything in flight has
\* been handled it may send more than half of the initial window.
NeverStarves ==
    client_read = Len(to_client) /\ server_read = Len(to_server)
        => SrvWindow > INITIAL_WINDOW_SIZE - WINDOW_ADJUST_THRESHOLD

\* The messages of one call are those its loop makes: none empty, none longer
\* than the server takes, all but the last as long as it takes.
ChunksAreTheLoops ==
    \A len \in 0..Input + 1 :
        LET loop == ChunkLoop(ch.remote_max_packet)[len][ch.remote_window]
        IN  loop = [i \in 1..Messages(ch, len) |->
                       SentAfter(ch, len, i) - SentAfter(ch, len, i - 1)]

\* All of the input and all of the output arrive.
AllArrives ==
    <>(/\ Upto(to_server, server_read).data = Input
       /\ Upto(to_client, client_read).data = Output)

\* sendInput: "Write bytes to the auto-opened shell's stdin".
InputIsSent == taken = Sent(to_server).data
=============================================================================
