-------------------------- MODULE ChannelFlowProofs --------------------------
(***************************************************************************)
(* The accounts of a channel's two windows balance for every window size,  *)
(* packet size and amount of data, and hence the client neither overruns   *)
(* the server nor starves it.                                              *)
(*                                                                         *)
(* The argument: the two logs only ever grow, so what a reader has read is *)
(* at most what the writer has written; the server's two limits bound what *)
(* can be in flight; and while the client holds back less than the         *)
(* threshold, its saturating arithmetic never saturates.                   *)
(*                                                                         *)
(* The loop that cuts data into messages is a recursive function.  Its     *)
(* closed form satisfies its equation, and two functions that satisfy it   *)
(* have no least argument at which they differ (Least).                    *)
(***************************************************************************)
EXTENDS ChannelFlow, WellFoundedInduction, TLAPS

\* The totals recorded in a log never fall.
Grows(log) ==
    \A i, j \in 0..Len(log) : i <= j =>
        /\ Upto(log, i).data <= Upto(log, j).data
        /\ Upto(log, i).credit <= Upto(log, j).credit

\* Every message of the log is DATA or WINDOW_ADJUST, never both.
OneKind(log) ==
    \A i \in 1..Len(log) :
        \/ Upto(log, i).data = Upto(log, i - 1).data
        \/ Upto(log, i).credit = Upto(log, i - 1).credit

\* The inductive invariant, beyond the type: the accounts, and the limits
\* that both ends keep.
FlowInv ==
    /\ TypeOK
    /\ WindowsAccount
    /\ Grows(to_server)
    /\ Grows(to_client)
    /\ OneKind(to_client)
    /\ ch.local_window_unadvertised < WINDOW_ADJUST_THRESHOLD
    /\ SrvWindow >= 0
    /\ SrvGranted <= U32_MAX

-----------------------------------------------------------------------------
\* Arithmetic.

\* The threshold is a part of the initial window, and not an empty one.
LEMMA Threshold ==
    /\ WINDOW_ADJUST_THRESHOLD \in Nat
    /\ 0 < WINDOW_ADJUST_THRESHOLD
    /\ WINDOW_ADJUST_THRESHOLD <= INITIAL_WINDOW_SIZE
BY ChannelAssumption DEF WINDOW_ADJUST_THRESHOLD

\* A division that rounds up leaves nothing over.
LEMMA RoundsUp ==
    ASSUME NEW c \in Nat, NEW m \in Nat \ {0}
    PROVE  /\ (c + m - 1) \div m \in Nat
           /\ ((c + m - 1) \div m) * m >= c
           /\ c = 0 => (c + m - 1) \div m = 0
           /\ c > 0 => (c + m - 1) \div m > 0
<1> DEFINE q == (c + m - 1) \div m
           r == (c + m - 1) % m
<1>1. /\ q \in Int /\ r \in Int
      /\ 0 <= r /\ r < m
      /\ c + m - 1 = m * q + r
  OBVIOUS
<1>2. q >= 0
  BY <1>1
<1>3. q * m >= c
  BY <1>1
<1>4. c = 0 => q = 0
  OBVIOUS
<1>5. c > 0 => q > 0
  BY <1>1
<1> QED BY <1>1, <1>2, <1>3, <1>4, <1>5

-----------------------------------------------------------------------------
\* Logs.

\* What has been written up to any message of a log is two totals.
LEMMA UptoType ==
    ASSUME NEW log \in Seq(Totals), NEW i \in 0..Len(log)
    PROVE  /\ Upto(log, i) \in Totals
           /\ Upto(log, i).data \in Nat
           /\ Upto(log, i).credit \in Nat
<1>1. CASE i = 0
  BY <1>1 DEF Upto, Totals
<1>2. CASE i # 0
  <2>1. i \in 1..Len(log)
    BY <1>2
  <2>2. log[i] \in Totals
    BY <2>1
  <2> QED BY <1>2, <2>2 DEF Upto, Totals
<1> QED BY <1>1, <1>2

\* Writing to a log leaves what was written before.
LEMMA UptoConcat ==
    ASSUME NEW log \in Seq(Totals), NEW more \in Seq(Totals)
    PROVE  /\ log \o more \in Seq(Totals)
           /\ Len(log \o more) = Len(log) + Len(more)
           /\ \A i \in 0..Len(log) : Upto(log \o more, i) = Upto(log, i)
           /\ \A i \in 1..Len(more) : Upto(log \o more, Len(log) + i) = more[i]
BY DEF Upto

\* A log grows by messages whose totals are sorted and start from its own.
LEMMA GrowsConcat ==
    ASSUME NEW log \in Seq(Totals), NEW more \in Seq(Totals), Grows(log),
           \A i \in 1..Len(more) : /\ Sent(log).data <= more[i].data
                                   /\ Sent(log).credit <= more[i].credit,
           \A i, j \in 1..Len(more) : i <= j => /\ more[i].data <= more[j].data
                                                /\ more[i].credit <= more[j].credit
    PROVE  Grows(log \o more)
<1> DEFINE all == log \o more
<1> SUFFICES ASSUME NEW i \in 0..Len(all), NEW j \in 0..Len(all), i <= j
             PROVE  /\ Upto(all, i).data <= Upto(all, j).data
                    /\ Upto(all, i).credit <= Upto(all, j).credit
  BY DEF Grows
<1>1. Len(all) = Len(log) + Len(more) /\ Len(log) \in Nat /\ Len(more) \in Nat
  BY UptoConcat
<1>2. CASE j <= Len(log)
  <2>1. i \in 0..Len(log) /\ j \in 0..Len(log)
    BY <1>1, <1>2
  <2>2. Upto(all, i) = Upto(log, i) /\ Upto(all, j) = Upto(log, j)
    BY <2>1, UptoConcat
  <2> QED BY <2>1, <2>2 DEF Grows
<1>3. CASE i <= Len(log) /\ j > Len(log)
  <2>1. Upto(all, i) = Upto(log, i) /\ i \in 0..Len(log)
    <3>1. i \in 0..Len(log)
      BY <1>1, <1>3
    <3> QED BY <3>1, UptoConcat
  <2>2. j - Len(log) \in 1..Len(more) /\ Upto(all, j) = more[j - Len(log)]
    <3>1. j - Len(log) \in 1..Len(more) /\ Len(log) + (j - Len(log)) = j
      BY <1>1, <1>3
    <3>2. Upto(all, Len(log) + (j - Len(log))) = more[j - Len(log)]
      BY <3>1, UptoConcat
    <3> QED BY <3>1, <3>2
  <2>3. /\ Upto(log, i).data <= Sent(log).data
        /\ Upto(log, i).credit <= Sent(log).credit
    BY <2>1, <1>1 DEF Grows, Sent
  <2>4. /\ Upto(log, i).data \in Nat /\ Upto(log, i).credit \in Nat
        /\ Sent(log).data \in Nat /\ Sent(log).credit \in Nat
    BY <2>1, <1>1, UptoType DEF Sent
  <2>5. more[j - Len(log)].data \in Nat /\ more[j - Len(log)].credit \in Nat
    <3>1. more[j - Len(log)] \in Totals
      BY <2>2
    <3> QED BY <3>1 DEF Totals
  <2>6. /\ Sent(log).data <= more[j - Len(log)].data
        /\ Sent(log).credit <= more[j - Len(log)].credit
    BY <2>2
  <2> DEFINE early == Upto(log, i)
             late == more[j - Len(log)]
             between == Sent(log)
  <2>7. /\ early.data \in Nat /\ between.data \in Nat /\ late.data \in Nat
        /\ early.credit \in Nat /\ between.credit \in Nat /\ late.credit \in Nat
        /\ early.data <= between.data /\ between.data <= late.data
        /\ early.credit <= between.credit /\ between.credit <= late.credit
    BY <2>3, <2>4, <2>5, <2>6
  <2>8. Upto(all, i) = early /\ Upto(all, j) = late
    BY <2>1, <2>2
  <2> HIDE DEF early, late, between
  <2> QED BY <2>7, <2>8
<1>4. CASE i > Len(log)
  <2>0. i - Len(log) \in 1..Len(more) /\ j - Len(log) \in 1..Len(more)
    BY <1>1, <1>4
  <2>1. Upto(all, Len(log) + (i - Len(log))) = more[i - Len(log)]
    BY <2>0, UptoConcat
  <2>2. Upto(all, Len(log) + (j - Len(log))) = more[j - Len(log)]
    BY <2>0, UptoConcat
  <2>3. i - Len(log) <= j - Len(log)
    BY <1>1
  <2>4. Len(log) + (i - Len(log)) = i /\ Len(log) + (j - Len(log)) = j
    BY <1>1
  <2> HIDE DEF all
  <2> QED BY <2>0, <2>1, <2>2, <2>3, <2>4
<1> QED BY <1>1, <1>2, <1>3, <1>4

\* One message more.
LEMMA OneMore ==
    ASSUME NEW log \in Seq(Totals), NEW m \in Totals, Grows(log),
           Sent(log).data <= m.data, Sent(log).credit <= m.credit
    PROVE  /\ Append(log, m) \in Seq(Totals)
           /\ Len(Append(log, m)) = Len(log) + 1
           /\ Sent(Append(log, m)) = m
           /\ \A i \in 0..Len(log) : Upto(Append(log, m), i) = Upto(log, i)
           /\ Grows(Append(log, m))
<1>1. Append(log, m) = log \o <<m>> /\ <<m>> \in Seq(Totals) /\ Len(<<m>>) = 1 /\ <<m>>[1] = m
  OBVIOUS
<1>2. Sent(Append(log, m)) = m
  BY DEF Sent, Upto
<1>3. Grows(log \o <<m>>)
  <2>1. m.data \in Nat /\ m.credit \in Nat
    BY DEF Totals
  <2>2. \A i \in 1..Len(<<m>>) : <<m>>[i] = m
    OBVIOUS
  <2> DEFINE more == <<m>>
  <2>3. more \in Seq(Totals) /\ \A i \in 1..Len(more) : more[i] = m
    BY <1>1, <2>2
  <2> HIDE DEF more
  <2>4. Grows(log \o more)
    BY <2>1, <2>3, GrowsConcat
  <2> QED BY <2>4 DEF more
<1>4. \A i \in 0..Len(log) : Upto(Append(log, m), i) = Upto(log, i)
  BY DEF Upto
<1> QED BY <1>1, <1>2, <1>3, <1>4

-----------------------------------------------------------------------------
\* What the types and the accounts say about the numbers involved.

\* The windows are naturals within u32, and so are the totals read and written.
LEMMA Numbers ==
    ASSUME FlowInv
    PROVE  /\ ch.local_window \in Nat /\ ch.local_window_unadvertised \in Nat
           /\ ch.remote_window \in Nat /\ ch.remote_max_packet \in Nat \ {0}
           /\ ch.remote_window <= U32_MAX /\ ch.local_window <= U32_MAX
           /\ confirmed \in Nat /\ U32_MAX \in Nat /\ INITIAL_WINDOW_SIZE \in Nat
           /\ INITIAL_WINDOW_SIZE <= U32_MAX
           /\ Len(to_server) \in Nat /\ Len(to_client) \in Nat
           /\ server_read \in 0..Len(to_server) /\ client_read \in 0..Len(to_client)
           /\ Sent(to_server) \in Totals /\ Sent(to_client) \in Totals
           /\ Sent(to_server).data \in Nat /\ Sent(to_server).credit \in Nat
           /\ Sent(to_client).data \in Nat /\ Sent(to_client).credit \in Nat
           /\ Upto(to_server, server_read).data \in Nat
           /\ Upto(to_server, server_read).credit \in Nat
           /\ Upto(to_client, client_read).data \in Nat
           /\ Upto(to_client, client_read).credit \in Nat
<1>1. to_server \in Seq(Totals) /\ to_client \in Seq(Totals)
  BY DEF FlowInv, TypeOK
<1>2. /\ Len(to_server) \in Nat /\ Len(to_client) \in Nat
      /\ server_read \in 0..Len(to_server) /\ client_read \in 0..Len(to_client)
  BY <1>1 DEF FlowInv, TypeOK
<1>3. /\ Sent(to_server) \in Totals /\ Sent(to_client) \in Totals
      /\ Sent(to_server).data \in Nat /\ Sent(to_server).credit \in Nat
      /\ Sent(to_client).data \in Nat /\ Sent(to_client).credit \in Nat
      /\ Upto(to_server, server_read).data \in Nat
      /\ Upto(to_server, server_read).credit \in Nat
      /\ Upto(to_client, client_read).data \in Nat
      /\ Upto(to_client, client_read).credit \in Nat
  BY <1>1, <1>2, UptoType DEF Sent
<1> QED BY <1>2, <1>3, ChannelAssumption DEF FlowInv, TypeOK, Channels

\* A reader has read no more than was written, of either total.
LEMMA ReadersLag ==
    ASSUME FlowInv
    PROVE  /\ Upto(to_server, server_read).data <= Sent(to_server).data
           /\ Upto(to_server, server_read).credit <= Sent(to_server).credit
           /\ Upto(to_client, client_read).data <= Sent(to_client).data
           /\ Upto(to_client, client_read).credit <= Sent(to_client).credit
<1>1. /\ Len(to_server) \in 0..Len(to_server) /\ Len(to_client) \in 0..Len(to_client)
      /\ server_read \in 0..Len(to_server) /\ client_read \in 0..Len(to_client)
      /\ server_read <= Len(to_server) /\ client_read <= Len(to_client)
  BY Numbers
<1> QED BY <1>1 DEF FlowInv, Grows, Sent

\* The message the client reads next, whether DATA or WINDOW_ADJUST.
LEMMA ReadsNext ==
    ASSUME FlowInv, client_read < Len(to_client)
    PROVE  LET this == Upto(to_client, client_read)
               next == Upto(to_client, client_read + 1)
           IN  /\ client_read + 1 \in 1..Len(to_client)
               /\ next.data \in Nat /\ next.credit \in Nat
               /\ this.data <= next.data /\ this.credit <= next.credit
               /\ next.data <= Sent(to_client).data
               /\ next.credit <= Sent(to_client).credit
               /\ this.data = next.data \/ this.credit = next.credit
               /\ DataLen(to_client, client_read) = next.data - this.data
               /\ AdjustLen(to_client, client_read) = next.credit - this.credit
<1>1. client_read + 1 \in 1..Len(to_client) /\ client_read + 1 # 0
  <2>1. client_read \in 0..Len(to_client) /\ Len(to_client) \in Nat
    BY Numbers
  <2> QED BY <2>1
<1>2. to_client \in Seq(Totals)
  BY DEF FlowInv, TypeOK
<1>3. /\ Upto(to_client, client_read + 1).data \in Nat
      /\ Upto(to_client, client_read + 1).credit \in Nat
  BY <1>1, <1>2, UptoType
<1>4. Upto(to_client, client_read + 1) = to_client[client_read + 1]
  BY <1>1 DEF Upto
<1>5. (client_read + 1) - 1 = client_read
  BY Numbers
<1>6. \/ Upto(to_client, client_read + 1).data = Upto(to_client, client_read).data
      \/ Upto(to_client, client_read + 1).credit = Upto(to_client, client_read).credit
  BY <1>1, <1>5 DEF FlowInv, OneKind
<1>7. /\ client_read \in 0..Len(to_client) /\ client_read + 1 \in 0..Len(to_client)
      /\ Len(to_client) \in 0..Len(to_client)
      /\ client_read <= client_read + 1 /\ client_read + 1 <= Len(to_client)
  <2>1. client_read \in 0..Len(to_client) /\ Len(to_client) \in Nat
    BY Numbers
  <2> QED BY <2>1, <1>1
<1>8. /\ Upto(to_client, client_read).data <= Upto(to_client, client_read + 1).data
      /\ Upto(to_client, client_read).credit <= Upto(to_client, client_read + 1).credit
      /\ Upto(to_client, client_read + 1).data <= Sent(to_client).data
      /\ Upto(to_client, client_read + 1).credit <= Sent(to_client).credit
  BY <1>7 DEF FlowInv, Grows, Sent
<1> QED BY <1>1, <1>3, <1>4, <1>6, <1>8 DEF DataLen, AdjustLen

-----------------------------------------------------------------------------
\* The initial states, and one lemma for each action that changes a channel or
\* a log.

\* A channel that has just been confirmed keeps all its accounts.
LEMMA FlowInit == Init => FlowInv
<1> SUFFICES ASSUME Init PROVE FlowInv
  OBVIOUS
<1>1. PICK max_packet \in ServerMaxPackets :
          ch = OnOpenConfirmation(ChannelNew("Shell"), 1, confirmed, max_packet)
  BY DEF Init
<1>2. /\ confirmed \in 0..U32_MAX /\ max_packet \in 0..U32_MAX
      /\ U32_MAX \in Nat /\ 1 <= U32_MAX /\ INITIAL_WINDOW_SIZE \in 0..U32_MAX
  BY FlowAssumption, ChannelAssumption DEF Init
<1>3. Greater(max_packet, 1) \in 1..U32_MAX
  BY <1>2 DEF Greater
<1>4. ch = [remote_id |-> 1, kind |-> "Shell", lifecycle |-> "Open",
            local_window |-> INITIAL_WINDOW_SIZE, local_window_unadvertised |-> 0,
            remote_window |-> confirmed, remote_max_packet |-> Greater(max_packet, 1)]
  BY <1>1 DEF OnOpenConfirmation, ChannelNew
<1>5. ch \in Channels
  BY <1>2, <1>3, <1>4 DEF Channels
<1>6. /\ to_server = <<>> /\ to_client = <<>> /\ Len(<<>>) = 0 /\ <<>> \in Seq(Totals)
      /\ server_read = 0 /\ client_read = 0 /\ taken = 0
  BY DEF Init
<1>7. TypeOK
  BY <1>2, <1>5, <1>6, FlowAssumption DEF TypeOK
<1>8. WindowsAccount
  BY <1>2, <1>4, <1>6 DEF WindowsAccount, Outstanding, Sent, Upto
<1>9. Grows(to_server) /\ Grows(to_client) /\ OneKind(to_client)
  BY <1>6 DEF Grows, OneKind, Upto
<1>10. SrvWindow >= 0 /\ SrvGranted <= U32_MAX
  BY <1>2, <1>6 DEF SrvWindow, SrvGranted, Sent, Upto
<1>11. ch.local_window_unadvertised < WINDOW_ADJUST_THRESHOLD
  BY <1>4, Threshold
<1> QED BY <1>7, <1>8, <1>9, <1>10, <1>11 DEF FlowInv

\* channel_send: the chunks end at what was consumed, in order.
LEMMA SendKeeps == FlowInv /\ HostSends => FlowInv'
<1> SUFFICES ASSUME FlowInv, NEW len \in 1..Input, ChannelSend(len) PROVE FlowInv'
  BY DEF HostSends
<1> DEFINE c == Consumed(ch, len)
           m == ch.remote_max_packet
           n == Messages(ch, len)
           total == Sent(to_server)
           chunks == [i \in 1..n |-> [total EXCEPT !.data = @ + SentAfter(ch, len, i)]]
<1>1. /\ c \in Nat /\ c <= ch.remote_window /\ c <= len /\ len \in Nat
      /\ m \in Nat \ {0} /\ ch.remote_window \in Nat
  <2>1. ch.remote_window \in Nat /\ m \in Nat \ {0}
    BY Numbers
  <2>2. len \in Nat
    BY FlowAssumption
  <2> QED BY <2>1, <2>2 DEF Consumed, Lesser
<1>2. n \in Nat /\ n * m >= c /\ (c = 0 => n = 0) /\ (c > 0 => n > 0)
  BY <1>1, RoundsUp DEF Messages
<1> HIDE DEF c, n
<1>3. \A i \in 1..n : /\ SentAfter(ch, len, i) \in Nat
                       /\ SentAfter(ch, len, i) <= c
  BY <1>1, <1>2 DEF SentAfter, Lesser, c
<1>4. \A i, j \in 1..n : i <= j => SentAfter(ch, len, i) <= SentAfter(ch, len, j)
  <2> SUFFICES ASSUME NEW i \in 1..n, NEW j \in 1..n, i <= j
               PROVE  SentAfter(ch, len, i) <= SentAfter(ch, len, j)
    OBVIOUS
  <2>1. i * m \in Nat /\ j * m \in Nat /\ i * m <= j * m
    BY <1>1, <1>2
  <2> QED BY <2>1, <1>1 DEF SentAfter, Lesser, c
<1>5. c > 0 => SentAfter(ch, len, n) = c
  BY <1>1, <1>2 DEF SentAfter, Lesser, c
<1>6. total \in Totals /\ total.data \in Nat /\ total.credit \in Nat
  BY Numbers
<1> HIDE DEF total
<1>7. \A i \in 1..n : /\ chunks[i].data = total.data + SentAfter(ch, len, i)
                       /\ chunks[i].credit = total.credit
                       /\ chunks[i] \in Totals
  BY <1>3, <1>6 DEF Totals
<1>8. chunks \in Seq(Totals) /\ Len(chunks) = n
  <2>1. chunks \in [1..n -> Totals]
    BY <1>7
  <2> QED BY <2>1, <1>2
<1> HIDE DEF chunks
<1>9. /\ to_server' = to_server \o chunks
      /\ ch' = [ch EXCEPT !.remote_window = @ - c]
      /\ taken' = taken + (IF HostRetries THEN c ELSE len)
      /\ len <= Input - taken
      /\ UNCHANGED <<confirmed, server_read, to_client, client_read>>
  BY DEF ChannelSend, AfterData, c, n, total, chunks
<1>10. to_server \in Seq(Totals) /\ Grows(to_server) /\ Sent(to_server) = total
  BY DEF FlowInv, TypeOK, total
<1>11. Grows(to_server')
  <2>1. \A i \in 1..Len(chunks) : total.data <= chunks[i].data /\ total.credit <= chunks[i].credit
    BY <1>3, <1>6, <1>7, <1>8
  <2>2. \A i, j \in 1..Len(chunks) : i <= j => /\ chunks[i].data <= chunks[j].data
                                                /\ chunks[i].credit <= chunks[j].credit
    BY <1>3, <1>4, <1>6, <1>7, <1>8
  <2> QED BY <2>1, <2>2, <1>8, <1>9, <1>10, GrowsConcat
<1>12. /\ to_server' \in Seq(Totals) /\ Len(to_server') = Len(to_server) + n
       /\ \A i \in 0..Len(to_server) : Upto(to_server', i) = Upto(to_server, i)
       /\ \A i \in 1..n : Upto(to_server', Len(to_server) + i) = chunks[i]
  BY <1>8, <1>9, <1>10, UptoConcat
<1>13. Sent(to_server').data = total.data + c /\ Sent(to_server').credit = total.credit
  <2>1. CASE c = 0
    <3>1. Len(to_server) \in Nat /\ Len(to_server) \in 0..Len(to_server)
      BY Numbers
    <3>2. Len(to_server') = Len(to_server)
      BY <2>1, <3>1, <1>2, <1>12
    <3>3. Sent(to_server') = total
      BY <3>1, <3>2, <1>10, <1>12 DEF Sent
    <3> QED BY <2>1, <3>3, <1>6
  <2>2. CASE c > 0
    BY <2>2, <1>1, <1>2, <1>5, <1>7, <1>12 DEF Sent
  <2> QED BY <2>1, <2>2, <1>1
<1>14. Upto(to_server', server_read') = Upto(to_server, server_read)
  BY <1>9, <1>12, Numbers
<1>15. /\ ch'.remote_window = ch.remote_window - c
       /\ ch'.local_window = ch.local_window
       /\ ch'.local_window_unadvertised = ch.local_window_unadvertised
       /\ ch' \in Channels
  <2>1. ch.remote_window - c \in 0..U32_MAX
    <3>1. ch.remote_window <= U32_MAX /\ U32_MAX \in Nat
      BY Numbers
    <3> QED BY <3>1, <1>1
  <2>2. ch \in Channels
    BY DEF FlowInv, TypeOK
  <2> QED BY <2>1, <2>2, <1>9 DEF Channels
<1>16. TypeOK'
  <2>1. taken' \in 0..Input
    <3>1. taken \in 0..Input /\ Input \in Nat
      BY FlowAssumption DEF FlowInv, TypeOK
    <3> QED BY <3>1, <1>1, <1>9
  <2>2. server_read' \in 0..Len(to_server')
    BY <1>2, <1>9, <1>12, Numbers
  <2> QED BY <2>1, <2>2, <1>9, <1>12, <1>15 DEF FlowInv, TypeOK
<1>17. WindowsAccount'
  <2>1. /\ confirmed \in Nat /\ INITIAL_WINDOW_SIZE \in Nat
        /\ Upto(to_client, client_read).credit \in Nat
        /\ Upto(to_client, client_read).data \in Nat
    BY Numbers
  <2>2. WindowsAccount
    BY DEF FlowInv
  <2>3. ch.remote_window = confirmed + Upto(to_client, client_read).credit - total.data
    BY <2>2, <1>10 DEF WindowsAccount, Outstanding
  <2>4. ch.remote_window - c = confirmed + Upto(to_client, client_read).credit - (total.data + c)
    BY <2>1, <2>3, <1>1, <1>6
  <2>5. ch'.remote_window = Outstanding'
    BY <2>4, <1>9, <1>13, <1>15 DEF Outstanding
  <2> QED BY <2>2, <2>5, <1>9, <1>10, <1>13, <1>15 DEF WindowsAccount
<1>18. SrvWindow' >= 0 /\ SrvGranted' <= U32_MAX
  BY <1>9, <1>14 DEF FlowInv, SrvWindow, SrvGranted
<1> QED BY <1>9, <1>11, <1>15, <1>16, <1>17, <1>18 DEF FlowInv

\* on_data_consumed: neither operation saturates, because what is held back and
\* what is in flight never add up to more than the initial window.
LEMMA DataKeeps == FlowInv /\ HandleData => FlowInv'
<1> SUFFICES ASSUME FlowInv, HandleData PROVE FlowInv'
  OBVIOUS
<1> DEFINE len == DataLen(to_client, client_read)
           this == Upto(to_client, client_read)
           next == Upto(to_client, client_read + 1)
           held == ch.local_window_unadvertised
           total == Sent(to_server)
           U == Unadvertised(ch, len)
<1>1. /\ client_read < Len(to_client) /\ len > 0 /\ client_read' = client_read + 1
      /\ ch' = OnDataConsumed(ch, len)
      /\ to_server' = IF Adjusts(ch, len) THEN WriteAdjust(to_server, U) ELSE to_server
      /\ UNCHANGED <<confirmed, server_read, to_client, taken>>
  BY DEF HandleData
<1>2. /\ client_read + 1 \in 1..Len(to_client)
      /\ next.data \in Nat /\ next.credit \in Nat
      /\ next.data <= Sent(to_client).data
      /\ this.data = next.data \/ this.credit = next.credit
      /\ len = next.data - this.data
  BY <1>1, ReadsNext
<1>3. /\ this.data \in Nat /\ this.credit \in Nat /\ held \in Nat
      /\ total \in Totals /\ total.data \in Nat /\ total.credit \in Nat
      /\ Sent(to_client).data \in Nat /\ confirmed \in Nat
      /\ INITIAL_WINDOW_SIZE \in Nat /\ U32_MAX \in Nat
      /\ INITIAL_WINDOW_SIZE <= U32_MAX /\ ch.local_window \in Nat
  BY Numbers
<1>4. Upto(to_server, server_read).credit \in Nat /\ Upto(to_server, server_read).credit <= total.credit
  BY Numbers, ReadersLag
<1>5. /\ ch.remote_window = Outstanding
      /\ ch.local_window = INITIAL_WINDOW_SIZE + total.credit - this.data
      /\ held = this.data - total.credit
      /\ held < WINDOW_ADJUST_THRESHOLD
      /\ SrvWindow >= 0 /\ SrvGranted <= U32_MAX
  BY DEF FlowInv, WindowsAccount
<1>6. SrvWindow = INITIAL_WINDOW_SIZE + Upto(to_server, server_read).credit - Sent(to_client).data
  BY DEF SrvWindow
<1> HIDE DEF len, this, next, held, total
<1>7. this.credit = next.credit /\ len \in Nat
  BY <1>1, <1>2, <1>3
<1>7a. held + len = next.data - total.credit
  <2>1. this.data \in Nat /\ next.data \in Nat /\ total.credit \in Nat
    BY <1>2, <1>3
  <2>2. held = this.data - total.credit /\ len = next.data - this.data
    BY <1>2, <1>5
  <2> QED BY <2>1, <2>2
<1>8. held + len <= INITIAL_WINDOW_SIZE
  <2>1. Sent(to_client).data <= INITIAL_WINDOW_SIZE + Upto(to_server, server_read).credit
    <3>1. INITIAL_WINDOW_SIZE + Upto(to_server, server_read).credit - Sent(to_client).data >= 0
      BY <1>5, <1>6
    <3>2. INITIAL_WINDOW_SIZE \in Nat /\ Sent(to_client).data \in Nat
      BY <1>3
    <3>3. Upto(to_server, server_read).credit \in Nat
      BY <1>4
    <3> QED BY <3>1, <3>2, <3>3
  <2>2. next.data <= INITIAL_WINDOW_SIZE + total.credit
    <3>1. next.data \in Nat /\ next.data <= Sent(to_client).data
      BY <1>2
    <3>2. /\ INITIAL_WINDOW_SIZE \in Nat /\ Sent(to_client).data \in Nat
          /\ total.credit \in Nat
      BY <1>3
    <3> QED BY <2>1, <3>1, <3>2, <1>4
  <2>3. next.data \in Nat /\ total.credit \in Nat /\ INITIAL_WINDOW_SIZE \in Nat
    BY <1>2, <1>3
  <2> QED BY <2>2, <2>3, <1>7a
<1>9. U = held + len
  BY <1>3, <1>7, <1>8 DEF Unadvertised, SaturatingAdd, Lesser, held
<1>10. SaturatingSub(ch.local_window, len) = INITIAL_WINDOW_SIZE - (held + len)
  BY <1>3, <1>5, <1>7, <1>8 DEF SaturatingSub, Greater
<1>11. SaturatingAdd(INITIAL_WINDOW_SIZE - (held + len), held + len) = INITIAL_WINDOW_SIZE
  BY <1>3, <1>7, <1>8 DEF SaturatingAdd, Lesser
<1>12. ch \in Channels
  BY DEF FlowInv, TypeOK
<1>13. to_server \in Seq(Totals) /\ Grows(to_server) /\ Sent(to_server) = total
  BY DEF FlowInv, TypeOK, total
<1>14. /\ ch' \in Channels
       /\ ch'.remote_window = ch.remote_window
       /\ ch'.local_window = INITIAL_WINDOW_SIZE - ch'.local_window_unadvertised
       /\ ch'.local_window_unadvertised < WINDOW_ADJUST_THRESHOLD
       /\ ch'.local_window_unadvertised = next.data - Sent(to_server').credit
       /\ to_server' \in Seq(Totals) /\ Grows(to_server')
       /\ Len(to_server') >= Len(to_server)
       /\ Sent(to_server').data = total.data
       /\ Upto(to_server', server_read) = Upto(to_server, server_read)
  <2>1. CASE Adjusts(ch, len)
    <3>1. ch' = [ch EXCEPT !.local_window = INITIAL_WINDOW_SIZE, !.local_window_unadvertised = 0]
      BY <2>1, <1>1, <1>9, <1>10, <1>11 DEF OnDataConsumed
    <3>2. /\ ch' \in Channels /\ ch'.remote_window = ch.remote_window
          /\ ch'.local_window = INITIAL_WINDOW_SIZE /\ ch'.local_window_unadvertised = 0
      <4>1. INITIAL_WINDOW_SIZE \in 0..U32_MAX /\ 0 \in 0..U32_MAX
        BY <1>3
      <4> QED BY <4>1, <3>1, <1>12 DEF Channels
    <3> DEFINE message == [total EXCEPT !.credit = @ + (held + len)]
    <3>3. to_server' = Append(to_server, message)
      BY <2>1, <1>1, <1>9, <1>13 DEF WriteAdjust
    <3>4. /\ message \in Totals /\ message.data = total.data
          /\ message.credit = total.credit + (held + len)
      BY <1>3, <1>7 DEF Totals
    <3> HIDE DEF message
    <3>5. Sent(to_server).data <= message.data /\ Sent(to_server).credit <= message.credit
      BY <3>4, <1>3, <1>7, <1>13
    <3>6. /\ to_server' \in Seq(Totals) /\ Grows(to_server')
          /\ Len(to_server') = Len(to_server) + 1 /\ Sent(to_server') = message
          /\ \A i \in 0..Len(to_server) : Upto(to_server', i) = Upto(to_server, i)
      BY <3>3, <3>4, <3>5, <1>13, OneMore
    <3>7. server_read \in 0..Len(to_server) /\ Len(to_server) \in Nat
      BY Numbers
    <3>8. Len(to_server') >= Len(to_server) /\ Upto(to_server', server_read) = Upto(to_server, server_read)
      BY <3>6, <3>7
    <3>9. 0 = next.data - Sent(to_server').credit
      <4>1. Sent(to_server').credit = total.credit + (held + len)
        BY <3>4, <3>6
      <4> QED BY <4>1, <1>7a, <1>2, <1>3
    <3> QED BY <3>2, <3>4, <3>6, <3>8, <3>9, <1>3, Threshold
  <2>2. CASE ~Adjusts(ch, len)
    <3>1. ch' = [ch EXCEPT !.local_window = INITIAL_WINDOW_SIZE - (held + len),
                           !.local_window_unadvertised = held + len]
      BY <2>2, <1>1, <1>9, <1>10 DEF OnDataConsumed
    <3>2. /\ INITIAL_WINDOW_SIZE - (held + len) \in 0..U32_MAX /\ held + len \in 0..U32_MAX
      BY <1>3, <1>7, <1>8
    <3>3. /\ ch' \in Channels /\ ch'.remote_window = ch.remote_window
          /\ ch'.local_window = INITIAL_WINDOW_SIZE - (held + len)
          /\ ch'.local_window_unadvertised = held + len
      BY <3>1, <3>2, <1>12 DEF Channels
    <3>4. held + len < WINDOW_ADJUST_THRESHOLD
      BY <2>2, <1>3, <1>7, <1>9, Threshold DEF Adjusts
    <3>5. to_server' = to_server /\ Len(to_server) \in Nat
      BY <2>2, <1>1, Numbers
    <3>6. held + len = next.data - Sent(to_server').credit
      <4>1. Sent(to_server').credit = total.credit
        BY <3>5, <1>13
      <4> QED BY <4>1, <1>7a
    <3> QED BY <3>3, <3>4, <3>5, <3>6, <1>13
  <2> QED BY <2>1, <2>2
<1>15. Upto(to_client', client_read') = next
  BY <1>1 DEF next
<1>16. TypeOK'
  <2>1. /\ server_read' \in 0..Len(to_server') /\ client_read' \in 0..Len(to_client')
    <3>1. /\ server_read \in 0..Len(to_server) /\ Len(to_server) \in Nat
          /\ Len(to_client) \in Nat
      BY Numbers
    <3>2. Len(to_server') \in Nat
      BY <1>14
    <3> QED BY <3>1, <3>2, <1>1, <1>2, <1>14
  <2> QED BY <2>1, <1>1, <1>14 DEF FlowInv, TypeOK
<1>17. WindowsAccount'
  <2>1. Sent(to_server').credit \in Nat
    BY <1>14, UptoType DEF Sent
  <2>2. ch'.remote_window = Outstanding'
    BY <1>1, <1>5, <1>7, <1>14, <1>15 DEF Outstanding, this, total
  <2>3. ch'.local_window = INITIAL_WINDOW_SIZE + Sent(to_server').credit - next.data
    <3>1. next.data \in Nat /\ INITIAL_WINDOW_SIZE \in Nat
      BY <1>2, <1>3
    <3>2. ch'.local_window = INITIAL_WINDOW_SIZE - (next.data - Sent(to_server').credit)
      BY <1>14
    <3> QED BY <3>1, <3>2, <2>1
  <2> QED BY <2>2, <2>3, <1>14, <1>15 DEF WindowsAccount
<1>18. SrvWindow' >= 0 /\ SrvGranted' <= U32_MAX
  BY <1>1, <1>5, <1>14 DEF SrvWindow, SrvGranted
<1>19. Grows(to_client') /\ OneKind(to_client')
  BY <1>1 DEF FlowInv
<1> QED BY <1>14, <1>16, <1>17, <1>18, <1>19 DEF FlowInv

\* on_window_adjust: the server never grants more than the addition can hold.
LEMMA AdjustKeeps == FlowInv /\ HandleWindowAdjust => FlowInv'
<1> SUFFICES ASSUME FlowInv, HandleWindowAdjust PROVE FlowInv'
  OBVIOUS
<1> DEFINE add == AdjustLen(to_client, client_read)
           this == Upto(to_client, client_read)
           next == Upto(to_client, client_read + 1)
<1>1. /\ client_read < Len(to_client) /\ add > 0 /\ client_read' = client_read + 1
      /\ ch' = OnWindowAdjust(ch, add)
      /\ UNCHANGED <<confirmed, to_server, server_read, to_client, taken>>
  BY DEF HandleWindowAdjust
<1>2. /\ client_read + 1 \in 1..Len(to_client)
      /\ next.data \in Nat /\ next.credit \in Nat
      /\ next.credit <= Sent(to_client).credit
      /\ this.data = next.data \/ this.credit = next.credit
      /\ add = next.credit - this.credit
  BY <1>1, ReadsNext
<1>3. /\ this.data \in Nat /\ this.credit \in Nat /\ confirmed \in Nat
      /\ Sent(to_server).data \in Nat /\ Sent(to_client).credit \in Nat
      /\ U32_MAX \in Nat /\ ch.remote_window \in Nat
  BY Numbers
<1>4. /\ Upto(to_server, server_read).data \in Nat
      /\ Upto(to_server, server_read).data <= Sent(to_server).data
  BY Numbers, ReadersLag
<1>5. /\ ch.remote_window = confirmed + this.credit - Sent(to_server).data
      /\ confirmed + Sent(to_client).credit - Upto(to_server, server_read).data <= U32_MAX
  BY DEF FlowInv, WindowsAccount, Outstanding, SrvGranted
<1> HIDE DEF add, this, next
<1>6. this.data = next.data /\ add \in Nat
  BY <1>1, <1>2, <1>3
<1>7. ch.remote_window + add <= U32_MAX
  <2>1. ch.remote_window + add = confirmed + next.credit - Sent(to_server).data
    <3>1. /\ confirmed \in Nat /\ this.credit \in Nat /\ next.credit \in Nat
          /\ Sent(to_server).data \in Nat
      BY <1>2, <1>3
    <3>2. /\ ch.remote_window = confirmed + this.credit - Sent(to_server).data
          /\ add = next.credit - this.credit
      BY <1>2, <1>5
    <3> QED BY <3>1, <3>2
  <2>2. confirmed + Sent(to_client).credit <= U32_MAX + Upto(to_server, server_read).data
    BY <1>3, <1>4, <1>5
  <2>3. /\ next.credit \in Nat /\ Sent(to_client).credit \in Nat
        /\ next.credit <= Sent(to_client).credit
        /\ confirmed \in Nat /\ Sent(to_server).data \in Nat /\ U32_MAX \in Nat
    BY <1>2, <1>3
  <2>4. confirmed + next.credit <= U32_MAX + Sent(to_server).data
    BY <2>2, <2>3, <1>4
  <2> QED BY <2>1, <2>3, <2>4
<1>8. SaturatingAdd(ch.remote_window, add) = ch.remote_window + add
  BY <1>3, <1>6, <1>7 DEF SaturatingAdd, Lesser
<1>9. ch' = [ch EXCEPT !.remote_window = ch.remote_window + add]
  BY <1>1, <1>8 DEF OnWindowAdjust
<1>10. ch \in Channels /\ ch.remote_window + add \in 0..U32_MAX
  BY <1>3, <1>6, <1>7 DEF FlowInv, TypeOK
<1>11. /\ ch' \in Channels /\ ch'.remote_window = ch.remote_window + add
       /\ ch'.local_window = ch.local_window
       /\ ch'.local_window_unadvertised = ch.local_window_unadvertised
  BY <1>9, <1>10 DEF Channels
<1>12. Upto(to_client', client_read') = next
  BY <1>1 DEF next
<1>13. TypeOK'
  <2>1. client_read' \in 0..Len(to_client')
    BY <1>1, <1>2
  <2> QED BY <2>1, <1>1, <1>11 DEF FlowInv, TypeOK
<1>14. WindowsAccount'
  <2>1. ch'.remote_window = confirmed + next.credit - Sent(to_server).data
    BY <1>2, <1>3, <1>5, <1>11
  <2>2. WindowsAccount
    BY DEF FlowInv
  <2> QED BY <2>1, <2>2, <1>1, <1>6, <1>11, <1>12 DEF WindowsAccount, Outstanding, this
<1>15. SrvWindow' >= 0 /\ SrvGranted' <= U32_MAX
  BY <1>1 DEF FlowInv, SrvWindow, SrvGranted
<1> QED BY <1>1, <1>11, <1>13, <1>14, <1>15 DEF FlowInv

\* What the server reads returns credit and uses up what it had granted.
LEMMA ReadKeeps == FlowInv /\ SrvReads => FlowInv'
<1> SUFFICES ASSUME FlowInv, SrvReads PROVE FlowInv'
  OBVIOUS
<1>1. /\ server_read' = server_read + 1 /\ server_read < Len(to_server)
      /\ UNCHANGED <<ch, confirmed, to_server, to_client, client_read, taken>>
  BY DEF SrvReads
<1>2. /\ server_read \in 0..Len(to_server) /\ server_read + 1 \in 0..Len(to_server)
      /\ server_read <= server_read + 1
  <2>1. server_read \in 0..Len(to_server) /\ Len(to_server) \in Nat
    BY Numbers
  <2> QED BY <2>1, <1>1
<1>3. /\ Upto(to_server, server_read).data <= Upto(to_server, server_read + 1).data
      /\ Upto(to_server, server_read).credit <= Upto(to_server, server_read + 1).credit
  BY <1>2 DEF FlowInv, Grows
<1>4. TypeOK'
  BY <1>1, <1>2 DEF FlowInv, TypeOK
<1>5. /\ Upto(to_server, server_read + 1).data \in Nat
      /\ Upto(to_server, server_read + 1).credit \in Nat
  BY <1>2, UptoType DEF FlowInv, TypeOK
<1>6. SrvWindow' >= 0
  <2>1. INITIAL_WINDOW_SIZE + Upto(to_server, server_read).credit - Sent(to_client).data >= 0
    BY DEF FlowInv, SrvWindow
  <2>2. /\ INITIAL_WINDOW_SIZE \in Nat /\ Sent(to_client).data \in Nat
        /\ Upto(to_server, server_read).credit \in Nat
    BY Numbers
  <2> QED BY <2>1, <2>2, <1>1, <1>3, <1>5 DEF SrvWindow
<1>7. SrvGranted' <= U32_MAX
  <2>1. confirmed + Sent(to_client).credit - Upto(to_server, server_read).data <= U32_MAX
    BY DEF FlowInv, SrvGranted
  <2>2. /\ confirmed \in Nat /\ Sent(to_client).credit \in Nat /\ U32_MAX \in Nat
        /\ Upto(to_server, server_read).data \in Nat
    BY Numbers
  <2> QED BY <2>1, <2>2, <1>1, <1>3, <1>5 DEF SrvGranted
<1> QED BY <1>1, <1>4, <1>6, <1>7 DEF FlowInv, WindowsAccount, Outstanding

\* What any message of the server leaves as it was.
LEMMA SrvSends ==
    ASSUME FlowInv, NEW m \in Totals,
           Sent(to_client).data <= m.data, Sent(to_client).credit <= m.credit,
           Sent(to_client).data = m.data \/ Sent(to_client).credit = m.credit,
           to_client' = Append(to_client, m),
           UNCHANGED <<ch, confirmed, to_server, server_read, client_read, taken>>
    PROVE  /\ TypeOK' /\ WindowsAccount'
           /\ Grows(to_client') /\ OneKind(to_client')
           /\ Sent(to_client') = m
<1>1. to_client \in Seq(Totals) /\ Grows(to_client)
  BY DEF FlowInv, TypeOK
<1>2. /\ to_client' \in Seq(Totals) /\ Len(to_client') = Len(to_client) + 1
      /\ Sent(to_client') = m /\ Grows(to_client')
      /\ \A i \in 0..Len(to_client) : Upto(to_client', i) = Upto(to_client, i)
  BY <1>1, OneMore
<1>3. client_read \in 0..Len(to_client) /\ Len(to_client) \in Nat
  BY Numbers
<1>4. client_read' \in 0..Len(to_client') /\ Upto(to_client', client_read) = Upto(to_client, client_read)
  BY <1>2, <1>3
<1>5. TypeOK'
  BY <1>2, <1>4 DEF FlowInv, TypeOK
<1>6. WindowsAccount'
  BY <1>4 DEF FlowInv, WindowsAccount, Outstanding
<1>7. OneKind(to_client')
  <2> SUFFICES ASSUME NEW i \in 1..Len(to_client')
               PROVE  \/ Upto(to_client', i).data = Upto(to_client', i - 1).data
                      \/ Upto(to_client', i).credit = Upto(to_client', i - 1).credit
    BY DEF OneKind
  <2>1. CASE i <= Len(to_client)
    <3>1. i \in 1..Len(to_client) /\ i \in 0..Len(to_client) /\ i - 1 \in 0..Len(to_client)
      BY <2>1, <1>2, <1>3
    <3> QED BY <3>1, <1>2 DEF FlowInv, OneKind
  <2>2. CASE i > Len(to_client)
    <3>1. i = Len(to_client') /\ i - 1 = Len(to_client) /\ Len(to_client) \in 0..Len(to_client)
      BY <2>2, <1>2, <1>3
    <3>2. Upto(to_client', i) = m /\ Upto(to_client', i - 1) = Sent(to_client)
      BY <3>1, <1>2 DEF Sent
    <3> QED BY <3>2
  <2> QED BY <2>1, <2>2, <1>2, <1>3
<1> QED BY <1>2, <1>5, <1>6, <1>7

\* The server writes data only within its window.
LEMMA WriteKeeps == FlowInv /\ SrvWrites => FlowInv'
<1> SUFFICES ASSUME FlowInv, NEW len \in 1..MAX_PACKET_SIZE, len <= SrvWindow,
                    to_client' = WriteData(to_client, len),
                    UNCHANGED <<ch, confirmed, to_server, server_read, client_read, taken>>
             PROVE  FlowInv'
  BY DEF SrvWrites
<1> DEFINE m == [Sent(to_client) EXCEPT !.data = @ + len]
<1>1. /\ Sent(to_client) \in Totals /\ len \in Nat
      /\ Sent(to_client).data \in Nat /\ Sent(to_client).credit \in Nat
  BY Numbers, ChannelAssumption
<1>2. m \in Totals /\ m.data = Sent(to_client).data + len /\ m.credit = Sent(to_client).credit
  BY <1>1 DEF Totals
<1>3. to_client' = Append(to_client, m)
  BY DEF WriteData
<1> HIDE DEF m
<1>4. Sent(to_client).data <= m.data /\ Sent(to_client).credit <= m.credit
  BY <1>1, <1>2
<1>5. /\ TypeOK' /\ WindowsAccount' /\ Grows(to_client') /\ OneKind(to_client')
      /\ Sent(to_client') = m
  BY <1>2, <1>3, <1>4, SrvSends
<1>6. SrvWindow' >= 0
  <2>1. INITIAL_WINDOW_SIZE \in Nat /\ Upto(to_server, server_read).credit \in Nat
    BY Numbers
  <2>2. len <= INITIAL_WINDOW_SIZE + Upto(to_server, server_read).credit - Sent(to_client).data
    BY DEF SrvWindow
  <2> QED BY <2>1, <2>2, <1>1, <1>2, <1>5 DEF SrvWindow
<1>7. SrvGranted' <= U32_MAX
  BY <1>2, <1>5 DEF FlowInv, SrvGranted
<1> QED BY <1>5, <1>6, <1>7 DEF FlowInv

\* The server grants no more than a u32 window can hold.
LEMMA GrantKeeps == FlowInv /\ SrvGrants => FlowInv'
<1> SUFFICES ASSUME FlowInv, NEW len \in 1..MaxGrant, SrvGranted + len <= U32_MAX,
                    to_client' = WriteAdjust(to_client, len),
                    UNCHANGED <<ch, confirmed, to_server, server_read, client_read, taken>>
             PROVE  FlowInv'
  BY DEF SrvGrants
<1> DEFINE m == [Sent(to_client) EXCEPT !.credit = @ + len]
<1>1. /\ Sent(to_client) \in Totals /\ len \in Nat
      /\ Sent(to_client).data \in Nat /\ Sent(to_client).credit \in Nat
  BY Numbers, FlowAssumption
<1>2. m \in Totals /\ m.credit = Sent(to_client).credit + len /\ m.data = Sent(to_client).data
  BY <1>1 DEF Totals
<1>3. to_client' = Append(to_client, m)
  BY DEF WriteAdjust
<1> HIDE DEF m
<1>4. Sent(to_client).data <= m.data /\ Sent(to_client).credit <= m.credit
  BY <1>1, <1>2
<1>5. /\ TypeOK' /\ WindowsAccount' /\ Grows(to_client') /\ OneKind(to_client')
      /\ Sent(to_client') = m
  BY <1>2, <1>3, <1>4, SrvSends
<1>6. SrvGranted' <= U32_MAX
  <2>1. /\ confirmed \in Nat /\ U32_MAX \in Nat
        /\ Upto(to_server, server_read).data \in Nat
    BY Numbers
  <2>2. (confirmed + Sent(to_client).credit - Upto(to_server, server_read).data) + len <= U32_MAX
    BY DEF SrvGranted
  <2> QED BY <2>1, <2>2, <1>1, <1>2, <1>5 DEF SrvGranted
<1>7. SrvWindow' >= 0
  BY <1>2, <1>5 DEF FlowInv, SrvWindow
<1> QED BY <1>5, <1>6, <1>7 DEF FlowInv

\* Every step keeps the accounts.
LEMMA FlowStep == FlowInv /\ [Next]_vars => FlowInv'
<1> SUFFICES ASSUME FlowInv, [Next]_vars PROVE FlowInv'
  OBVIOUS
<1>1. CASE UNCHANGED vars
  BY <1>1 DEF vars, FlowInv, TypeOK, WindowsAccount, Outstanding, SrvWindow, SrvGranted
<1> QED BY <1>1, SendKeeps, DataKeeps, AdjustKeeps, ReadKeeps, WriteKeeps, GrantKeeps DEF Next

\* The accounts balance in every reachable state.
LEMMA FlowCorrect == Spec => []FlowInv
BY FlowInit, FlowStep, PTL DEF Spec

-----------------------------------------------------------------------------
\* Induction over data: the naturals are well ordered.

\* A set of naturals that is not empty has a least element.
LEMMA Least ==
    ASSUME NEW S \in SUBSET Nat, S # {}
    PROVE  \E n \in S : \A m \in S : n <= m
<1> DEFINE R == OpToRel(<, Nat)
<1>1. IsWellFoundedOn(R, Nat)
  BY NatLessThanWellFounded
<1>2. \A a, b \in Nat : a < b => <<a, b>> \in R
  BY DEF OpToRel
<1> HIDE DEF R
<1>3. PICK n \in S : \A m \in S : <<m, n>> \notin R
  BY <1>1, WFMin
<1>4. \A m \in S : ~(m < n)
  BY <1>2, <1>3
<1>5. \A m \in S : n <= m
  <2> SUFFICES ASSUME NEW m \in S PROVE n <= m
    OBVIOUS
  <2>1. m \in Nat /\ n \in Nat /\ ~(m < n)
    BY <1>4
  <2> QED
    BY <2>1
<1> QED
  BY <1>5

-----------------------------------------------------------------------------
\* The loop of build_data_messages.

\* The lengths of the messages that c bytes make, in closed form.
Pieces(m, c) ==
    [i \in 1..((c + m - 1) \div m) |-> Lesser(i * m, c) - Lesser((i - 1) * m, c)]

\* One turn of the loop takes the first of them off.
LEMMA PiecesStep ==
    ASSUME NEW m \in Nat \ {0}, NEW c \in Nat
    PROVE  /\ c = 0 => Pieces(m, c) = <<>>
           /\ c > 0 => Pieces(m, c) = <<Lesser(m, c)>> \o Pieces(m, c - Lesser(m, c))
<1>1. ASSUME c = 0
      PROVE  Pieces(m, c) = <<>>
  <2>1. (c + m - 1) \div m = 0
    BY <1>1, RoundsUp
  <2> QED
    BY <2>1 DEF Pieces
<1>2. ASSUME c > 0
      PROVE  Pieces(m, c) = <<Lesser(m, c)>> \o Pieces(m, c - Lesser(m, c))
  <2> DEFINE k == Lesser(m, c)
             d == c - k
             n == (d + m - 1) \div m
             rest == Pieces(m, d)
             all == <<k>> \o rest
  <2>1. k \in Nat /\ d \in Nat /\ (d = 0 \/ k = m)
    BY <1>2 DEF Lesser
  <2>2. n \in Nat /\ (d = 0 => n = 0)
    BY <2>1, RoundsUp
  <2>3. (c + m - 1) \div m = n + 1
    <3>1. CASE k = m
      <4>1. d = c - m
        BY <3>1
      <4>2. c + m - 1 = (d + m - 1) + m /\ d + m - 1 \in Nat
        BY <2>1, <4>1
      <4>3. \A x \in Nat : (x + m) \div m = (x \div m) + 1
        OBVIOUS
      <4> QED
        BY <4>2, <4>3
    <3>2. CASE k # m
      <4>1. d = 0 /\ c < m /\ n = 0
        BY <2>1, <2>2, <3>2 DEF Lesser
      <4>2. c + m - 1 = m + (c - 1) /\ c - 1 \in 0..m-1
        BY <1>2, <4>1
      <4>3. \A x \in 0..m-1 : (m + x) \div m = 1
        OBVIOUS
      <4> QED
        BY <4>1, <4>2, <4>3
    <3> QED
      BY <3>1, <3>2
  <2>4. /\ rest = [i \in 1..n |-> Lesser(i * m, d) - Lesser((i - 1) * m, d)]
        /\ Len(rest) = n
    BY <2>2 DEF Pieces
  <2>5. Len(all) = n + 1 /\ all[1] = k /\ \A i \in 2..n+1 : all[i] = rest[i - 1]
    BY <2>2, <2>4
  <2>6. ASSUME NEW i \in 1..n+1
        PROVE  all[i] = Lesser(i * m, c) - Lesser((i - 1) * m, c)
    <3>1. CASE i = 1
      BY <2>5, <3>1 DEF Lesser
    <3>2. CASE i # 1
      <4>1. i - 1 \in 1..n /\ k = m /\ c = d + m
        BY <2>1, <2>2, <2>6, <3>2
      <4>2. all[i] = Lesser((i - 1) * m, d) - Lesser((i - 2) * m, d)
        BY <2>4, <2>5, <3>2, <4>1
      <4>3. PICK x \in Nat : x = (i - 2) * m
        BY <4>1
      <4>4. (i - 1) * m = x + m /\ i * m = x + m + m
        BY <4>1, <4>3
      <4>5. \A a \in Nat : Lesser(a + m, d + m) = Lesser(a, d) + m
        BY <2>1 DEF Lesser
      <4>6. Lesser(x + m, d) \in Nat /\ Lesser(x, d) \in Nat
        BY <2>1 DEF Lesser
      <4>7. Lesser(x + m + m, d + m) = Lesser(x + m, d) + m /\ Lesser(x + m, d + m) = Lesser(x, d) + m
        BY <4>5
      <4>8. all[i] = Lesser(x + m, d) - Lesser(x, d)
        BY <4>2, <4>3, <4>4
      <4>9. Lesser(i * m, c) - Lesser((i - 1) * m, c) = (Lesser(x + m, d) + m) - (Lesser(x, d) + m)
        BY <4>1, <4>4, <4>7
      <4> HIDE DEF all, k, d
      <4>10. \A a, b \in Nat : a - b = (a + m) - (b + m)
        OBVIOUS
      <4> QED
        BY <4>6, <4>8, <4>9, <4>10
    <3> QED
      BY <3>1, <3>2
  <2>7. Pieces(m, c) = [i \in 1..n+1 |-> Lesser(i * m, c) - Lesser((i - 1) * m, c)]
    BY <2>3 DEF Pieces
  <2>8. all = [i \in 1..n+1 |-> all[i]]
    <3>1. rest \in Seq(Int) /\ all \in Seq(Int)
      BY <2>1, <2>2, <2>4 DEF Lesser
    <3> QED
      BY <2>2, <2>5, <3>1
  <2> HIDE DEF all
  <2>9. all = Pieces(m, c)
    BY <2>6, <2>7, <2>8
  <2> QED
    BY <2>9 DEF all
<1> QED
  BY <1>1, <1>2

\* What the equation of the loop makes of a function.
Turns(g, m) ==
    [left \in Nat |->
        [window \in 0..U32_MAX |->
            IF left = 0 \/ window = 0 THEN <<>>
            ELSE LET chunk_len == Lesser(Lesser(left, m), window)
                 IN  <<chunk_len>> \o g[left - chunk_len][window - chunk_len]]]

\* One turn, on the closed form.
LEMMA TurnIsPiece ==
    ASSUME NEW m \in Nat \ {0}, NEW left \in Nat, NEW window \in Nat
    PROVE  LET k == Lesser(Lesser(left, m), window)
           IN  /\ left = 0 \/ window = 0 => Pieces(m, Lesser(left, window)) = <<>>
               /\ left # 0 /\ window # 0 =>
                    /\ k \in Nat /\ 0 < k /\ k <= left /\ k <= window
                    /\ Pieces(m, Lesser(left, window))
                         = <<k>> \o Pieces(m, Lesser(left - k, window - k))
<1> DEFINE k == Lesser(Lesser(left, m), window)
           c == Lesser(left, window)
<1>1. c \in Nat /\ (left = 0 \/ window = 0 => c = 0) /\ (left # 0 /\ window # 0 => c > 0)
  BY DEF Lesser
<1>2. ASSUME left # 0, window # 0
      PROVE  /\ k \in Nat /\ 0 < k /\ k <= left /\ k <= window
             /\ k = Lesser(m, c) /\ Lesser(left - k, window - k) = c - k
  BY <1>2 DEF Lesser
<1> HIDE DEF k, c
<1>3. ASSUME left # 0, window # 0
      PROVE  Pieces(m, c) = <<k>> \o Pieces(m, Lesser(left - k, window - k))
  BY <1>1, <1>2, <1>3, PiecesStep
<1>4. left = 0 \/ window = 0 => Pieces(m, c) = <<>>
  BY <1>1, PiecesStep
<1> QED
  BY <1>2, <1>3, <1>4 DEF k, c

\* The loop conforms to its equation, and the closed form is what it computes.
LEMMA LoopIsPieces ==
    ASSUME NEW m \in Nat \ {0}
    PROVE  \A left \in Nat, window \in 0..U32_MAX :
              ChunkLoop(m)[left][window] = Pieces(m, Lesser(left, window))
<1> DEFINE f == [left \in Nat |-> [window \in 0..U32_MAX |-> Pieces(m, Lesser(left, window))]]
           loop == ChunkLoop(m)
<1>0. U32_MAX \in Nat
  BY ChannelAssumption
<1>1. f = Turns(f, m)
  <2>1. ASSUME NEW left \in Nat, NEW window \in 0..U32_MAX
        PROVE  Pieces(m, Lesser(left, window)) =
                 IF left = 0 \/ window = 0 THEN <<>>
                 ELSE LET chunk_len == Lesser(Lesser(left, m), window)
                      IN  <<chunk_len>> \o f[left - chunk_len][window - chunk_len]
    <3> DEFINE k == Lesser(Lesser(left, m), window)
    <3>0. window \in Nat
      BY <1>0
    <3>1. CASE left = 0 \/ window = 0
      BY <3>0, <3>1, TurnIsPiece
    <3>2. CASE left # 0 /\ window # 0
      <4>1. /\ k \in Nat /\ 0 < k /\ k <= left /\ k <= window
            /\ Pieces(m, Lesser(left, window)) = <<k>> \o Pieces(m, Lesser(left - k, window - k))
        BY <3>0, <3>2, TurnIsPiece
      <4> HIDE DEF k
      <4>2. left - k \in Nat /\ window - k \in 0..U32_MAX
        BY <1>0, <4>1
      <4>3. f[left - k][window - k] = Pieces(m, Lesser(left - k, window - k))
        BY <4>2
      <4> QED
        BY <3>2, <4>1, <4>3 DEF k
    <3> QED
      BY <3>1, <3>2
  <2> QED
    BY <2>1 DEF Turns
<1>2. loop = CHOOSE g : g = Turns(g, m)
  BY DEF ChunkLoop, Turns
<1> HIDE DEF f, loop
<1>3. loop = Turns(loop, m)
  BY <1>1, <1>2
<1>4. ASSUME NEW left \in Nat, NEW window \in 0..U32_MAX
      PROVE  loop[left][window] =
               IF left = 0 \/ window = 0 THEN <<>>
               ELSE LET chunk_len == Lesser(Lesser(left, m), window)
                    IN  <<chunk_len>> \o loop[left - chunk_len][window - chunk_len]
  <2>1. \A g : Turns(g, m)[left][window] =
                 IF left = 0 \/ window = 0 THEN <<>>
                 ELSE LET chunk_len == Lesser(Lesser(left, m), window)
                      IN  <<chunk_len>> \o g[left - chunk_len][window - chunk_len]
    BY DEF Turns
  <2>2. loop[left][window] = Turns(loop, m)[left][window]
    BY <1>3
  <2> QED
    BY <2>1, <2>2
<1> DEFINE Wrong == {left \in Nat : \E window \in 0..U32_MAX :
                        loop[left][window] # Pieces(m, Lesser(left, window))}
<1>5. Wrong = {}
  <2> SUFFICES ASSUME Wrong # {} PROVE FALSE
    OBVIOUS
  <2>1. PICK left \in Wrong : \A other \in Wrong : left <= other
    <3>1. Wrong \in SUBSET Nat
      OBVIOUS
    <3> HIDE DEF Wrong
    <3> QED
      BY <3>1, Least
  <2>2. PICK window \in 0..U32_MAX : loop[left][window] # Pieces(m, Lesser(left, window))
    OBVIOUS
  <2>3. left \in Nat /\ window \in Nat
    BY <1>0
  <2> DEFINE k == Lesser(Lesser(left, m), window)
  <2>4. left # 0 /\ window # 0
    BY <1>4, <2>2, <2>3, TurnIsPiece
  <2>5. /\ k \in Nat /\ 0 < k /\ k <= left /\ k <= window
        /\ Pieces(m, Lesser(left, window)) = <<k>> \o Pieces(m, Lesser(left - k, window - k))
    BY <2>3, <2>4, TurnIsPiece
  <2>6. loop[left][window] = <<k>> \o loop[left - k][window - k]
    BY <1>4, <2>3, <2>4
  <2> HIDE DEF k
  <2>7. left - k \in Nat /\ window - k \in 0..U32_MAX /\ ~(left <= left - k)
    BY <1>0, <2>3, <2>5
  <2>8. left - k \notin Wrong
    BY <2>1, <2>7
  <2>9. loop[left - k][window - k] = Pieces(m, Lesser(left - k, window - k))
    BY <2>7, <2>8
  <2> QED
    BY <2>2, <2>5, <2>6, <2>9
<1> QED
  BY <1>5 DEF loop

-----------------------------------------------------------------------------

\* The channel and both logs are well typed; no window ever leaves u32.
THEOREM TypeCorrect == Spec => []TypeOK
<1>1. FlowInv => TypeOK
  BY DEF FlowInv
<1> QED BY FlowCorrect, <1>1, PTL

\* The windows of the client are exactly what was granted less what was used,
\* for every window and packet size: saturating_add and saturating_sub never
\* saturate (on_data_consumed, on_window_adjust, build_data_messages).
THEOREM AccountsCorrect == Spec => []WindowsAccount
<1>1. FlowInv => WindowsAccount
  BY DEF FlowInv
<1> QED BY FlowCorrect, <1>1, PTL

\* The client never sends a byte that the server has not granted
\* (build_data_messages).
THEOREM OverrunsNever == Spec => []NeverOverruns
<1>1. FlowInv => NeverOverruns
  <2> SUFFICES ASSUME FlowInv PROVE NeverOverruns
    OBVIOUS
  <2>1. /\ confirmed \in Nat /\ ch.remote_window \in Nat
        /\ Sent(to_client).credit \in Nat /\ Sent(to_server).data \in Nat
        /\ Upto(to_client, client_read).credit \in Nat
        /\ Upto(to_server, server_read).data \in Nat
    BY Numbers
  <2>2. ch.remote_window = confirmed + Upto(to_client, client_read).credit - Sent(to_server).data
    BY DEF FlowInv, WindowsAccount, Outstanding
  <2>3. /\ Upto(to_client, client_read).credit <= Sent(to_client).credit
        /\ Upto(to_server, server_read).data <= Sent(to_server).data
    BY ReadersLag
  <2> QED BY <2>1, <2>2, <2>3 DEF NeverOverruns, SrvGranted
<1> QED BY FlowCorrect, <1>1, PTL

\* With nothing left in flight the server may always send at least half of the
\* initial window: the client holds back less than the threshold
\* (WINDOW_ADJUST_THRESHOLD, on_data_consumed).
THEOREM StarvesNever == Spec => []NeverStarves
<1>1. FlowInv => NeverStarves
  <2> SUFFICES ASSUME FlowInv, client_read = Len(to_client), server_read = Len(to_server)
               PROVE  SrvWindow > INITIAL_WINDOW_SIZE - WINDOW_ADJUST_THRESHOLD
    BY DEF NeverStarves
  <2>1. /\ INITIAL_WINDOW_SIZE \in Nat /\ WINDOW_ADJUST_THRESHOLD \in Nat
        /\ Sent(to_server).credit \in Nat /\ Sent(to_client).data \in Nat
        /\ ch.local_window_unadvertised \in Nat
    BY Numbers, Threshold
  <2>2. ch.local_window_unadvertised = Sent(to_client).data - Sent(to_server).credit
    BY DEF FlowInv, WindowsAccount, Sent
  <2>3. ch.local_window_unadvertised < WINDOW_ADJUST_THRESHOLD
    BY DEF FlowInv
  <2>4. SrvWindow = INITIAL_WINDOW_SIZE + Sent(to_server).credit - Sent(to_client).data
    BY DEF SrvWindow, Sent
  <2> QED BY <2>1, <2>2, <2>3, <2>4
<1> QED BY FlowCorrect, <1>1, PTL

\* The messages of one call are those the loop of build_data_messages makes, for
\* data of every length, every window and every packet size
\* (build_data_messages).
THEOREM ChunksCorrect == Spec => []ChunksAreTheLoops
<1>1. FlowInv => ChunksAreTheLoops
  <2> SUFFICES ASSUME FlowInv, NEW len \in 0..Input + 1
               PROVE  ChunkLoop(ch.remote_max_packet)[len][ch.remote_window]
                        = [i \in 1..Messages(ch, len) |->
                              SentAfter(ch, len, i) - SentAfter(ch, len, i - 1)]
    BY DEF ChunksAreTheLoops
  <2> DEFINE m == ch.remote_max_packet
  <2>1. m \in Nat \ {0} /\ ch.remote_window \in 0..U32_MAX /\ len \in Nat
    BY Numbers, FlowAssumption
  <2>2. ChunkLoop(m)[len][ch.remote_window] = Pieces(m, Lesser(len, ch.remote_window))
    BY <2>1, LoopIsPieces
  <2> QED
    BY <2>2 DEF Pieces, Messages, SentAfter, Consumed
<1> QED BY FlowCorrect, <1>1, PTL
=============================================================================
