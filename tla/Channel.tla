------------------------------- MODULE Channel -------------------------------
(***************************************************************************)
(* One channel of the connection protocol and its flow-control bookkeeping *)
(* (ssh-core/src/connection/channel.rs).  A Channel is a record; the       *)
(* operators below are its methods, each returning the channel as the      *)
(* method leaves it.  Window sizes are u32 in the code: U32_MAX.           *)
(***************************************************************************)
EXTENDS Integers, Sequences

CONSTANTS
    INITIAL_WINDOW_SIZE, MAX_PACKET_SIZE, U32_MAX,
    None                \* Option::None of the server's channel id

ASSUME ChannelAssumption ==
    /\ INITIAL_WINDOW_SIZE \in Nat /\ INITIAL_WINDOW_SIZE >= 2
    /\ MAX_PACKET_SIZE \in Nat \ {0}
    /\ U32_MAX \in Nat
    /\ INITIAL_WINDOW_SIZE <= U32_MAX
    /\ None \notin Nat

WINDOW_ADJUST_THRESHOLD == INITIAL_WINDOW_SIZE \div 2

Lesser(a, b) == IF a <= b THEN a ELSE b

Greater(a, b) == IF a <= b THEN b ELSE a

SaturatingAdd(a, b) == Lesser(a + b, U32_MAX)

SaturatingSub(a, b) == Greater(a - b, 0)

ChannelNew(kind) ==
    [remote_id |-> None, kind |-> kind, lifecycle |-> "OpenRequested",
     local_window |-> INITIAL_WINDOW_SIZE, local_window_unadvertised |-> 0,
     remote_window |-> 0, remote_max_packet |-> 0]

\* Mutant of OnOpenConfirmation: a maximum packet size of 0 is believed.
OnOpenConfirmationBelieves0(ch, sender_channel, initial_window, max_packet) ==
    [ch EXCEPT !.remote_id = sender_channel,
               !.lifecycle = "Open",
               !.remote_window = initial_window,
               !.remote_max_packet = max_packet]

\* Mutant of OnOpenConfirmation: the server's id is not recorded.
OnOpenConfirmationForgetsId(ch, sender_channel, initial_window, max_packet) ==
    [ch EXCEPT !.lifecycle = "Open",
               !.remote_window = initial_window,
               !.remote_max_packet = Greater(max_packet, 1)]

OnOpenConfirmation(ch, sender_channel, initial_window, max_packet) ==
    [ch EXCEPT !.remote_id = sender_channel,
               !.lifecycle = "Open",
               !.remote_window = initial_window,
               !.remote_max_packet = Greater(max_packet, 1)]

OnWindowAdjust(ch, bytes_to_add) ==
    [ch EXCEPT !.remote_window = SaturatingAdd(@, bytes_to_add)]

-----------------------------------------------------------------------------
\* build_data_messages: it consumes as much of len bytes as the remote window
\* allows, in messages of at most remote_max_packet bytes.

Consumed(ch, len) == Lesser(len, ch.remote_window)

\* Mutant of Messages: a division that forgets the last, partial message.
MessagesRoundedDown(ch, len) == Consumed(ch, len) \div ch.remote_max_packet

Messages(ch, len) ==
    (Consumed(ch, len) + ch.remote_max_packet - 1) \div ch.remote_max_packet

\* How much of the data has been sent once the i-th message has.
SentAfter(ch, len, i) == Lesser(i * ch.remote_max_packet, Consumed(ch, len))

\* The code's own loop, one message per turn: the lengths of the messages that
\* `left` more bytes make while the remote window is `window`.
ChunkLoop(max_packet) ==
    LET chunks[left \in Nat] ==
            [window \in 0..U32_MAX |->
                IF left = 0 \/ window = 0 THEN <<>>
                ELSE LET chunk_len == Lesser(Lesser(left, max_packet), window)
                     IN  <<chunk_len>> \o chunks[left - chunk_len][window - chunk_len]]
    IN  chunks

\* Mutants of AfterData: the window is not used up, or by more than was sent.
AfterDataKeepsWindow(ch, len) == ch

AfterDataOverdraws(ch, len) == [ch EXCEPT !.remote_window = @ - len]

AfterData(ch, len) == [ch EXCEPT !.remote_window = @ - Consumed(ch, len)]

-----------------------------------------------------------------------------
\* on_data_consumed: the credit of consumed bytes is returned to the server in
\* one WINDOW_ADJUST once it amounts to the threshold.

Unadvertised(ch, len) == SaturatingAdd(ch.local_window_unadvertised, len)

\* Mutant of Adjusts: the threshold is the whole window, and must be exceeded.
AdjustsTooLate(ch, len) == Unadvertised(ch, len) > INITIAL_WINDOW_SIZE

Adjusts(ch, len) == Unadvertised(ch, len) >= WINDOW_ADJUST_THRESHOLD

\* Mutant of OnDataConsumed: the credit returned is not forgotten.
OnDataConsumedTwice(ch, len) ==
    LET used == SaturatingSub(ch.local_window, len)
    IN  IF Adjusts(ch, len)
        THEN [ch EXCEPT !.local_window = SaturatingAdd(used, Unadvertised(ch, len)),
                        !.local_window_unadvertised = Unadvertised(ch, len)]
        ELSE [ch EXCEPT !.local_window = used,
                        !.local_window_unadvertised = Unadvertised(ch, len)]

OnDataConsumed(ch, len) ==
    LET used == SaturatingSub(ch.local_window, len)
    IN  IF Adjusts(ch, len)
        THEN [ch EXCEPT !.local_window = SaturatingAdd(used, Unadvertised(ch, len)),
                        !.local_window_unadvertised = 0]
        ELSE [ch EXCEPT !.local_window = used,
                        !.local_window_unadvertised = Unadvertised(ch, len)]
=============================================================================
