--------------------------- MODULE ConnectionProofs ---------------------------
(***************************************************************************)
(* The connection protocol for any number of channels, any messages of the *)
(* host's and the server's own, and queues of any length.                  *)
(*                                                                         *)
(* Which messages may be under way on a channel depends on how far the     *)
(* client, the server and the setup have come with it; ChannelInv says it  *)
(* for one channel, as a relation between the stage of its life, its setup *)
(* step, the server's end, the sets of messages under way in either        *)
(* direction and the events reported.  What it says of a channel is about  *)
(* nothing else, so a step on one channel leaves every other one's alone.  *)
(* The order of messages in a queue is a matter of pairs (MayFollow).      *)
(***************************************************************************)
EXTENDS Connection, FiniteSetTheorems, TLAPS

\* The elements of a sequence.
Held(q) == {q[i] : i \in 1..Len(q)}

\* Messages to the client's channel, and to the server's end of it.  An OPEN
\* carries the client's id.
Inbox(id) == {m \in Held(to_client) : m.ch = id}

Outbox(id) == {m \in Held(to_server) : m.ch \in {id, ServerEnd(id)}}

Told(id) == Held(events[id])

Closer(id) == IF id \in closedByHost THEN "host" ELSE "none"

Replies == {"CHANNEL_SUCCESS", "CHANNEL_FAILURE"}

ExitRequests == {"exit-status", "exit-signal"}

Talks == "talkAfterDenial" \in ServerMay

-----------------------------------------------------------------------------
\* What one message to the client says of its channel.

FitsIn(m, id, life, step, end) ==
    /\ m.type = "CHANNEL_OPEN_CONFIRMATION" =>
          life = "opening" /\ end.state = "open" /\ m.sender = ServerEnd(id)
    /\ m.type = "CHANNEL_OPEN_FAILURE" => life = "opening" /\ end.state = "refused"
    /\ m.type \notin {"CHANNEL_OPEN_CONFIRMATION", "CHANNEL_OPEN_FAILURE"} => end.state = "open"
    /\ m.type \in Replies => life = "open" /\ step # "none" /\ end.asked = <<>>
    /\ m.type = "CHANNEL_SUCCESS" =>
          ~end.denied /\ (end.started <=> step # "AwaitingPtyReply")
    /\ m.type = "CHANNEL_FAILURE" => end.denied
    /\ m.type = "CHANNEL_DATA" => end.started
    /\ m.type = "CHANNEL_EOF" => end.started /\ end.eof
    /\ m.req \in ExitRequests => end.started /\ end.exited
    /\ m.type = "CHANNEL_CLOSE" => end.closeSent
    /\ m.type # "CHANNEL_CLOSE" => life \in {"opening", "open"} \/ (end.denied /\ Talks)

\* What one message to the server says of it.
FitsOut(m, id, life, step, end, inbox, closer) ==
    /\ m.type = "CHANNEL_OPEN" <=> m.ch = id
    /\ m.type = "CHANNEL_OPEN" => life = "opening" /\ end.state = "none"
    /\ m.type # "CHANNEL_OPEN" => end.state = "open" /\ life \in {"open", "gone"}
    /\ m.req \in SetupRequests =>
          /\ m.type = "CHANNEL_REQUEST"
          /\ ~end.started /\ ~end.denied /\ end.asked = <<>>
          /\ \A r \in inbox : r.type \notin Replies
          /\ life = "open" => step # "none" /\ m.req = Awaited[step]
    /\ m.type = "CHANNEL_CLOSE" => closer = "host" \/ life = "gone"
    /\ m.type # "CHANNEL_OPEN" /\ closer = "none" => ~end.closeGot

\* The client's end, its setup and the server's end.
EndsMatch(life, step, end, inbox, closer) ==
    /\ life = "unused" => end.state = "none" /\ closer = "none"
    /\ life \in {"unused", "opening"} => ~end.started /\ ~end.denied /\ end.asked = <<>>
    /\ end.state \in {"none", "asked"} => life \in {"unused", "opening"}
    /\ life = "opening" =>
          /\ step \in {"AwaitingExecReply", "AwaitingPtyReply"}
          /\ closer = "none"
          /\ end.state = "open" => \E m \in inbox : m.type = "CHANNEL_OPEN_CONFIRMATION"
    /\ life = "open" => end.state = "open"
    /\ life = "gone" => \/ end.state = "refused"
                        \/ end.state = "open" /\ (end.denied \/ end.closeSent)
    /\ ~(end.denied /\ end.started)
    /\ end.closeGot => closer = "host" \/ life = "gone"

\* At most one setup request is unanswered, and its step waits for it.
SetupMatches(life, step, end, inbox) ==
    end.asked # <<>> =>
        /\ end.state = "open"
        /\ ~end.started /\ ~end.denied
        /\ Len(end.asked) = 1
        /\ \A r \in inbox : r.type \notin Replies
        /\ life = "open" => step # "none" /\ end.asked[1] = Awaited[step]

\* A step that waits has something to wait for, until one side closes.
SetupProceeds(life, step, end, inbox, outbox, closer) ==
    life = "open" /\ step # "none" /\ closer = "none" /\ ~end.closeSent =>
        \/ \E m \in outbox : m.req \in SetupRequests
        \/ end.asked # <<>>
        \/ \E r \in inbox : r.type \in Replies

\* What has been reported has happened, and is not on its way again.
EventsMatch(life, end, inbox, told) ==
    /\ life = "unused" => told = {}
    /\ life = "open" \/ (life = "gone" /\ end.state = "open") => "ChannelOpened" \in told
    /\ "ChannelClosed" \in told =>
          /\ life = "gone" /\ end.closeSent
          /\ \A m \in inbox : m.type # "CHANNEL_CLOSE"
    /\ "ChannelData" \in told => end.started
    /\ "ChannelEof" \in told =>
          /\ end.started /\ end.eof
          /\ \A m \in inbox : m.type \notin {"CHANNEL_DATA", "CHANNEL_EOF"}
    /\ "ChannelExitStatus" \in told =>
          /\ end.started /\ end.exited
          /\ \A m \in inbox : m.req \notin ExitRequests

Fits(id, life, step, end, inbox, outbox, told, closer) ==
    /\ \A m \in inbox : FitsIn(m, id, life, step, end)
    /\ \A m \in outbox : FitsOut(m, id, life, step, end, inbox, closer)
    /\ EndsMatch(life, step, end, inbox, closer)
    /\ SetupMatches(life, step, end, inbox)
    /\ SetupProceeds(life, step, end, inbox, outbox, closer)
    /\ EventsMatch(life, end, inbox, told)

ChannelInv(id) ==
    Fits(id, Life(id), Step(id), srv[id], Inbox(id), Outbox(id), Told(id), Closer(id))

-----------------------------------------------------------------------------
\* The order in the queues.

\* Message b to the client may be behind message a of the same channel.
MayFollow(a, b) ==
    /\ a.type \notin {"CHANNEL_CLOSE", "CHANNEL_OPEN_FAILURE"}
    /\ b.type \notin {"CHANNEL_OPEN_CONFIRMATION", "CHANNEL_OPEN_FAILURE"}
    /\ a.type \in Replies => b.type \notin Replies
    /\ a.type = "CHANNEL_FAILURE" => b.type = "CHANNEL_CLOSE" \/ Talks
    /\ a.type = "CHANNEL_EOF" => b.type \notin {"CHANNEL_DATA", "CHANNEL_EOF"}
    /\ a.req \in ExitRequests => b.req \notin ExitRequests

\* The same for messages to the server.
MayFollowOut(a, b, closed) ==
    /\ ~(a.type = "CHANNEL_OPEN" /\ b.type = "CHANNEL_OPEN")
    /\ ~(a.req \in SetupRequests /\ b.req \in SetupRequests)
    /\ a.type = "CHANNEL_CLOSE" => ClientEnd(a.ch) \in closed

InOrder(q) ==
    \A i, j \in 1..Len(q) : i < j /\ q[i].ch = q[j].ch => MayFollow(q[i], q[j])

OutOrder(q, closed) ==
    \A i, j \in 1..Len(q) : i < j /\ q[i].ch = q[j].ch => MayFollowOut(q[i], q[j], closed)

\* What is particular to the tables of both ends.
Remotes(chs) ==
    \A id \in DOMAIN chs :
        /\ chs[id].remote_id \in {None, ServerEnd(id)}
        /\ chs[id].remote_max_packet > 0 => chs[id].remote_id # None

TableInv ==
    /\ \A id \in Ids : Life(id) = "unused" <=> next_id <= id
    /\ Remotes(channels)
    /\ \A m \in Held(to_server) : m.type = "CHANNEL_OPEN" <=> m.ch \in Ids
    /\ \A m \in Held(to_client) : m.ch \in Ids

\* The inductive invariant, but for the types.
ProtocolInv ==
    /\ TableInv
    /\ InOrder(to_client) /\ OutOrder(to_server, closedByHost)
    /\ \A id \in Ids : ChannelInv(id)
    /\ ~panicked
    /\ phase = "Connected" \/ Talks
    /\ strays # {} => closedByHost # {}

ConnectionInv == TypeOK /\ ProtocolInv

-----------------------------------------------------------------------------
\* Queues.

\* A queue without its head.
LEMMA Popped ==
    ASSUME NEW S, NEW q \in Seq(S), q # <<>>
    PROVE  /\ Tail(q) \in Seq(S) /\ Head(q) \in S
           /\ Held(q) = Held(Tail(q)) \cup {Head(q)}
<1>1. /\ Tail(q) \in Seq(S) /\ Len(Tail(q)) = Len(q) - 1 /\ Len(q) \in Nat \ {0}
      /\ \A i \in 1..Len(Tail(q)) : Tail(q)[i] = q[i + 1]
      /\ Head(q) = q[1] /\ q[1] \in S
  OBVIOUS
<1>2. ASSUME NEW m \in Held(q) PROVE m \in Held(Tail(q)) \cup {Head(q)}
  <2>1. PICK i \in 1..Len(q) : m = q[i]
    BY DEF Held
  <2>2. CASE i # 1
    <3>1. i - 1 \in 1..Len(Tail(q)) /\ Tail(q)[i - 1] = m
      BY <1>1, <2>1, <2>2
    <3> QED
      BY <3>1 DEF Held
  <2> QED
    BY <1>1, <2>1, <2>2
<1>3. ASSUME NEW m \in Held(Tail(q)) PROVE m \in Held(q)
  <2>1. PICK i \in 1..Len(Tail(q)) : m = Tail(q)[i]
    BY DEF Held
  <2>2. i + 1 \in 1..Len(q) /\ q[i + 1] = m
    BY <1>1, <2>1
  <2> QED
    BY <2>2 DEF Held
<1>4. Head(q) \in Held(q)
  BY <1>1 DEF Held
<1> QED
  BY <1>1, <1>2, <1>3, <1>4

LEMMA OnlyElement ==
    ASSUME NEW S, NEW q \in Seq(S), Len(q) = 1
    PROVE  Tail(q) = <<>> /\ Head(q) = q[1]
<1>1. q # <<>> /\ Head(q) = q[1]
  OBVIOUS
<1>2. Tail(q) \in Seq(S) /\ Len(Tail(q)) = 0
  BY <1>1
<1>3. \A s \in Seq(S) : Len(s) = 0 => s = <<>>
  OBVIOUS
<1> QED
  BY <1>1, <1>2, <1>3, Zenon

\* A queue with one more message.
LEMMA Appended ==
    ASSUME NEW S, NEW q \in Seq(S), NEW m \in S
    PROVE  /\ Append(q, m) \in Seq(S)
           /\ Held(Append(q, m)) = Held(q) \cup {m}
<1>1. /\ Append(q, m) \in Seq(S) /\ Len(Append(q, m)) = Len(q) + 1 /\ Len(q) \in Nat
      /\ \A i \in 1..Len(q) : Append(q, m)[i] = q[i]
      /\ Append(q, m)[Len(q) + 1] = m
  OBVIOUS
<1> QED
  BY <1>1 DEF Held

\* Two queues, one behind the other.
LEMMA Joined ==
    ASSUME NEW S, NEW q \in Seq(S), NEW s \in Seq(S)
    PROVE  /\ q \o s \in Seq(S)
           /\ Held(q \o s) = Held(q) \cup Held(s)
<1>1. /\ q \o s \in Seq(S) /\ Len(q \o s) = Len(q) + Len(s) /\ Len(q) \in Nat /\ Len(s) \in Nat
      /\ \A i \in 1..Len(q) : (q \o s)[i] = q[i]
      /\ \A i \in 1..Len(s) : (q \o s)[Len(q) + i] = s[i]
  OBVIOUS
<1>2. ASSUME NEW m \in Held(q \o s) PROVE m \in Held(q) \cup Held(s)
  <2>1. PICK i \in 1..Len(q \o s) : m = (q \o s)[i]
    BY DEF Held
  <2>2. CASE i <= Len(q)
    BY <1>1, <2>1, <2>2 DEF Held
  <2>3. CASE i > Len(q)
    <3>1. i - Len(q) \in 1..Len(s) /\ i = Len(q) + (i - Len(q))
      BY <1>1, <2>1, <2>3
    <3>2. s[i - Len(q)] = m
      BY <1>1, <2>1, <3>1
    <3> QED
      BY <3>1, <3>2 DEF Held
  <2> QED
    BY <1>1, <2>1, <2>2, <2>3
<1>3. ASSUME NEW m \in Held(q) PROVE m \in Held(q \o s)
  <2>1. PICK i \in 1..Len(q) : m = q[i]
    BY DEF Held
  <2>2. i \in 1..Len(q \o s) /\ (q \o s)[i] = m
    BY <1>1, <2>1
  <2> QED
    BY <2>2 DEF Held
<1>4. ASSUME NEW m \in Held(s) PROVE m \in Held(q \o s)
  <2>1. PICK i \in 1..Len(s) : m = s[i]
    BY DEF Held
  <2>2. Len(q) + i \in 1..Len(q \o s) /\ (q \o s)[Len(q) + i] = m
    BY <1>1, <2>1
  <2> QED
    BY <2>2 DEF Held
<1> QED
  BY <1>1, <1>2, <1>3, <1>4

\* What is behind the head of an ordered queue may follow it.
LEMMA InPopped ==
    ASSUME NEW S, NEW q \in Seq(S), q # <<>>, InOrder(q)
    PROVE  /\ InOrder(Tail(q))
           /\ \A m \in Held(Tail(q)) : m.ch = Head(q).ch => MayFollow(Head(q), m)
<1>1. /\ Len(Tail(q)) = Len(q) - 1 /\ Len(q) \in Nat \ {0} /\ Head(q) = q[1]
      /\ \A i \in 1..Len(Tail(q)) : Tail(q)[i] = q[i + 1]
  OBVIOUS
<1>2. ASSUME NEW i \in 1..Len(Tail(q)), NEW j \in 1..Len(Tail(q)),
             i < j, Tail(q)[i].ch = Tail(q)[j].ch
      PROVE  MayFollow(Tail(q)[i], Tail(q)[j])
  <2>1. /\ i + 1 \in 1..Len(q) /\ j + 1 \in 1..Len(q) /\ i + 1 < j + 1
        /\ q[i + 1] = Tail(q)[i] /\ q[j + 1] = Tail(q)[j]
    BY <1>1, <1>2
  <2>2. MayFollow(q[i + 1], q[j + 1])
    BY <1>2, <2>1 DEF InOrder
  <2> QED
    BY <2>1, <2>2
<1>3. ASSUME NEW j \in 1..Len(Tail(q)), Tail(q)[j].ch = Head(q).ch
      PROVE  MayFollow(Head(q), Tail(q)[j])
  <2>1. 1 \in 1..Len(q) /\ j + 1 \in 1..Len(q) /\ 1 < j + 1 /\ q[j + 1] = Tail(q)[j]
    BY <1>1
  <2>2. MayFollow(q[1], q[j + 1])
    BY <1>1, <1>3, <2>1 DEF InOrder
  <2> QED
    BY <1>1, <2>1, <2>2
<1> QED
  BY <1>2, <1>3 DEF InOrder, Held

\* A message that may follow all of its channel keeps the order.
LEMMA InAppended ==
    ASSUME NEW S, NEW q \in Seq(S), NEW m \in S, InOrder(q),
           \A a \in Held(q) : a.ch = m.ch => MayFollow(a, m)
    PROVE  InOrder(Append(q, m))
<1>1. /\ Len(Append(q, m)) = Len(q) + 1 /\ Len(q) \in Nat
      /\ \A i \in 1..Len(q) : Append(q, m)[i] = q[i]
      /\ Append(q, m)[Len(q) + 1] = m
  OBVIOUS
<1>2. ASSUME NEW i \in 1..Len(q) + 1, NEW j \in 1..Len(q) + 1, i < j,
             Append(q, m)[i].ch = Append(q, m)[j].ch
      PROVE  MayFollow(Append(q, m)[i], Append(q, m)[j])
  <2>1. i \in 1..Len(q) /\ Append(q, m)[i] = q[i] /\ q[i] \in Held(q)
    BY <1>1, <1>2 DEF Held
  <2>2. CASE j = Len(q) + 1
    <3>1. Append(q, m)[j] = m
      BY <1>1, <2>2
    <3>2. MayFollow(q[i], m)
      BY <1>2, <2>1, <3>1
    <3> QED
      BY <2>1, <3>1, <3>2
  <2>3. CASE j # Len(q) + 1
    <3>1. j \in 1..Len(q) /\ Append(q, m)[j] = q[j]
      BY <1>1, <2>3
    <3>2. MayFollow(q[i], q[j])
      BY <1>2, <2>1, <3>1 DEF InOrder
    <3> QED
      BY <2>1, <3>1, <3>2
  <2> QED
    BY <2>2, <2>3
<1> QED
  BY <1>1, <1>2 DEF InOrder

\* The same two for the messages to the server.
LEMMA OutPopped ==
    ASSUME NEW S, NEW closed, NEW q \in Seq(S), q # <<>>, OutOrder(q, closed)
    PROVE  /\ OutOrder(Tail(q), closed)
           /\ \A m \in Held(Tail(q)) : m.ch = Head(q).ch => MayFollowOut(Head(q), m, closed)
<1>1. /\ Len(Tail(q)) = Len(q) - 1 /\ Len(q) \in Nat \ {0} /\ Head(q) = q[1]
      /\ \A i \in 1..Len(Tail(q)) : Tail(q)[i] = q[i + 1]
  OBVIOUS
<1>2. ASSUME NEW i \in 1..Len(Tail(q)), NEW j \in 1..Len(Tail(q)),
             i < j, Tail(q)[i].ch = Tail(q)[j].ch
      PROVE  MayFollowOut(Tail(q)[i], Tail(q)[j], closed)
  <2>1. /\ i + 1 \in 1..Len(q) /\ j + 1 \in 1..Len(q) /\ i + 1 < j + 1
        /\ q[i + 1] = Tail(q)[i] /\ q[j + 1] = Tail(q)[j]
    BY <1>1, <1>2
  <2>2. MayFollowOut(q[i + 1], q[j + 1], closed)
    BY <1>2, <2>1 DEF OutOrder
  <2> QED
    BY <2>1, <2>2
<1>3. ASSUME NEW j \in 1..Len(Tail(q)), Tail(q)[j].ch = Head(q).ch
      PROVE  MayFollowOut(Head(q), Tail(q)[j], closed)
  <2>1. 1 \in 1..Len(q) /\ j + 1 \in 1..Len(q) /\ 1 < j + 1 /\ q[j + 1] = Tail(q)[j]
    BY <1>1
  <2>2. MayFollowOut(q[1], q[j + 1], closed)
    BY <1>1, <1>3, <2>1 DEF OutOrder
  <2> QED
    BY <1>1, <2>1, <2>2
<1> QED
  BY <1>2, <1>3 DEF OutOrder, Held

LEMMA OutJoined ==
    ASSUME NEW S, NEW closed, NEW q \in Seq(S), NEW s \in Seq(S),
           OutOrder(q, closed), OutOrder(s, closed),
           \A a \in Held(q), b \in Held(s) : a.ch = b.ch => MayFollowOut(a, b, closed)
    PROVE  OutOrder(q \o s, closed)
<1>1. /\ Len(q \o s) = Len(q) + Len(s) /\ Len(q) \in Nat /\ Len(s) \in Nat
      /\ \A i \in 1..Len(q) : (q \o s)[i] = q[i]
      /\ \A i \in 1..Len(s) : (q \o s)[Len(q) + i] = s[i]
  OBVIOUS
<1>2. ASSUME NEW i \in 1..Len(q \o s)
      PROVE  \/ i \in 1..Len(q) /\ (q \o s)[i] = q[i] /\ q[i] \in Held(q)
             \/ /\ i - Len(q) \in 1..Len(s)
                /\ (q \o s)[i] = s[i - Len(q)] /\ s[i - Len(q)] \in Held(s)
  <2>1. CASE i <= Len(q)
    BY <1>1, <2>1 DEF Held
  <2>2. CASE i > Len(q)
    <3>1. i - Len(q) \in 1..Len(s) /\ i = Len(q) + (i - Len(q))
      BY <1>1, <2>2
    <3>2. (q \o s)[i] = s[i - Len(q)]
      BY <1>1, <3>1
    <3> QED
      BY <3>1, <3>2 DEF Held
  <2> QED
    BY <1>1, <2>1, <2>2
<1>3. ASSUME NEW i \in 1..Len(q \o s), NEW j \in 1..Len(q \o s), i < j,
             (q \o s)[i].ch = (q \o s)[j].ch
      PROVE  MayFollowOut((q \o s)[i], (q \o s)[j], closed)
  <2>1. CASE j \in 1..Len(q) /\ (q \o s)[j] = q[j]
    <3>1. i \in 1..Len(q) /\ (q \o s)[i] = q[i]
      BY <1>1, <1>3, <2>1
    <3>2. MayFollowOut(q[i], q[j], closed)
      BY <1>3, <2>1, <3>1 DEF OutOrder
    <3> QED
      BY <2>1, <3>1, <3>2
  <2>2. CASE /\ j - Len(q) \in 1..Len(s)
             /\ (q \o s)[j] = s[j - Len(q)] /\ s[j - Len(q)] \in Held(s)
    <3>1. CASE i \in 1..Len(q) /\ (q \o s)[i] = q[i] /\ q[i] \in Held(q)
      <4>1. MayFollowOut(q[i], s[j - Len(q)], closed)
        BY <1>3, <2>2, <3>1
      <4> QED
        BY <2>2, <3>1, <4>1
    <3>2. CASE i - Len(q) \in 1..Len(s) /\ (q \o s)[i] = s[i - Len(q)]
      <4>1. i - Len(q) < j - Len(q)
        BY <1>1, <1>3
      <4>2. MayFollowOut(s[i - Len(q)], s[j - Len(q)], closed)
        BY <1>3, <2>2, <3>2, <4>1 DEF OutOrder
      <4> QED
        BY <2>2, <3>2, <4>2
    <3> QED
      BY <1>2, <3>1, <3>2
  <2> QED
    BY <1>2, <2>1, <2>2
<1> QED
  BY <1>3 DEF OutOrder

-----------------------------------------------------------------------------
\* Names and types.

\* The two ends of a channel have different names, by which each is found.
LEMMA Numbers ==
    /\ Ids \subseteq Nat
    /\ \A id \in Ids : /\ ServerEnd(id) \in Ends /\ ServerEnd(id) \notin Ids
                       /\ ServerEnd(id) # None
                       /\ ClientEnd(ServerEnd(id)) = id
    /\ \A i, j \in Ids : ServerEnd(i) = ServerEnd(j) => i = j
    /\ \A e \in Ends : e \notin Ids /\ ClientEnd(e) \in Ids /\ ServerEnd(ClientEnd(e)) = e
BY IdAssumption, ChannelAssumption DEF Ids, Ends, ServerEnd, ClientEnd

\* The messages that are written.
LEMMA MessageTypes ==
    ASSUME NEW type \in Types, NEW ch \in Ids \cup Ends
    PROVE  /\ Message(type, ch) \in WireMessages
           /\ \A len \in 0..U32_MAX : Sized(type, ch, len) \in WireMessages
           /\ \A req \in Requests : Request(ch, req) \in WireMessages
BY ChannelAssumption DEF Types, Message, Sized, Request, WireMessages, Requests

\* Their fields.
LEMMA MessageFields ==
    ASSUME NEW type, NEW ch
    PROVE  /\ Message(type, ch).type = type /\ Message(type, ch).ch = ch
           /\ Message(type, ch).req = "none"
BY DEF Message

LEMMA SizedFields ==
    ASSUME NEW type, NEW ch, NEW len
    PROVE  /\ Sized(type, ch, len).type = type /\ Sized(type, ch, len).ch = ch
           /\ Sized(type, ch, len).req = "none"
BY DEF Message, Sized

LEMMA RequestFields ==
    ASSUME NEW ch, NEW req
    PROVE  /\ Request(ch, req).type = "CHANNEL_REQUEST" /\ Request(ch, req).ch = ch
           /\ Request(ch, req).req = req
BY DEF Message, Request

\* One more message to the server.
LEMMA SendsOne ==
    ASSUME TypeOK, NEW k \in Ids, NEW m \in WireMessages, m.ch \in {k, ServerEnd(k)},
           Send(<<m>>)
    PROVE  /\ to_server' \in Seq(WireMessages)
           /\ Held(to_server)' = Held(to_server) \cup {m}
           /\ Outbox(k)' = Outbox(k) \cup {m}
           /\ \A id \in Ids \ {k} : Outbox(id)' = Outbox(id)
           /\ (/\ OutOrder(to_server, closedByHost)
               /\ \A a \in Outbox(k) : a.ch = m.ch => MayFollowOut(a, m, closedByHost))
              => OutOrder(to_server', closedByHost)
<1> DEFINE s == <<m>>
<1>1. to_server \in Seq(WireMessages) /\ s \in Seq(WireMessages) /\ to_server' = to_server \o s
  BY DEF TypeOK, Send
<1>2. Held(s) = {m} /\ OutOrder(s, closedByHost)
  BY DEF Held, OutOrder
<1> HIDE DEF s
<1>3. to_server' \in Seq(WireMessages) /\ Held(to_server') = Held(to_server) \cup {m}
  BY <1>1, <1>2, Joined
<1>4. Held(to_server)' = Held(to_server) \cup {m}
  BY <1>3 DEF Held
<1>5. Outbox(k)' = Outbox(k) \cup {m}
  BY <1>4 DEF Outbox
<1>6. ASSUME NEW id \in Ids \ {k} PROVE Outbox(id)' = Outbox(id)
  BY <1>4, <1>6, Numbers DEF Outbox
<1>7. ASSUME OutOrder(to_server, closedByHost),
             \A a \in Outbox(k) : a.ch = m.ch => MayFollowOut(a, m, closedByHost)
      PROVE  OutOrder(to_server', closedByHost)
  <2>1. \A a \in Held(to_server), b \in Held(s) :
           a.ch = b.ch => MayFollowOut(a, b, closedByHost)
    BY <1>2, <1>7 DEF Outbox
  <2> QED
    BY <1>1, <1>2, <1>7, <2>1, OutJoined
<1> QED
  BY <1>3, <1>4, <1>5, <1>6, <1>7

LEMMA SendsNone ==
    ASSUME TypeOK, Send(<<>>)
    PROVE  to_server' = to_server
BY DEF TypeOK, Send

\* The client takes the next message.
LEMMA ClientTakes ==
    ASSUME TypeOK, TableInv, InOrder(to_client), to_client # <<>>, to_client' = Tail(to_client),
           NEW k, k = Msg.ch
    PROVE  /\ Msg \in WireMessages /\ k \in Ids /\ Msg \in Inbox(k)
           /\ to_client' \in Seq(WireMessages)
           /\ Held(to_client)' \subseteq Held(to_client)
           /\ InOrder(to_client')
           /\ \A id \in Ids \ {k} : Inbox(id)' = Inbox(id)
           /\ Inbox(k) = Inbox(k)' \cup {Msg}
           /\ \A m \in Inbox(k)' : MayFollow(Msg, m)
<1>1. to_client \in Seq(WireMessages)
  BY DEF TypeOK
<1>2. /\ Tail(to_client) \in Seq(WireMessages) /\ Msg \in WireMessages
      /\ Held(to_client) = Held(Tail(to_client)) \cup {Msg}
  BY <1>1, Popped DEF Msg
<1>3. /\ InOrder(Tail(to_client))
      /\ \A m \in Held(Tail(to_client)) : m.ch = Msg.ch => MayFollow(Msg, m)
  BY <1>1, InPopped DEF Msg
<1>4. Held(to_client)' = Held(Tail(to_client))
  BY DEF Held
<1>5. k \in Ids
  BY <1>2 DEF TableInv
<1>6. /\ \A id \in Ids \ {k} : Inbox(id)' = Inbox(id)
      /\ Inbox(k) = Inbox(k)' \cup {Msg} /\ Msg \in Inbox(k)
  BY <1>2, <1>4, <1>5 DEF Inbox
<1>7. \A m \in Inbox(k)' : MayFollow(Msg, m)
  BY <1>3, <1>4 DEF Inbox
<1> QED
  BY <1>2, <1>3, <1>4, <1>5, <1>6, <1>7

\* The server takes the next message.
LEMMA ServerTakes ==
    ASSUME TypeOK, TableInv, OutOrder(to_server, closedByHost),
           to_server # <<>>, to_server' = Tail(to_server),
           NEW k \in Ids, Asked.ch \in {k, ServerEnd(k)}
    PROVE  /\ Asked \in WireMessages /\ Asked \in Outbox(k)
           /\ to_server' \in Seq(WireMessages)
           /\ Held(to_server)' \subseteq Held(to_server)
           /\ OutOrder(to_server', closedByHost)
           /\ \A id \in Ids \ {k} : Outbox(id)' = Outbox(id)
           /\ Outbox(k) = Outbox(k)' \cup {Asked}
           /\ \A m \in Outbox(k)' : m.ch = Asked.ch => MayFollowOut(Asked, m, closedByHost)
<1>1. to_server \in Seq(WireMessages)
  BY DEF TypeOK
<1>2. /\ Tail(to_server) \in Seq(WireMessages) /\ Asked \in WireMessages
      /\ Held(to_server) = Held(Tail(to_server)) \cup {Asked}
  BY <1>1, Popped DEF Asked
<1>3. /\ OutOrder(Tail(to_server), closedByHost)
      /\ \A m \in Held(Tail(to_server)) : m.ch = Asked.ch => MayFollowOut(Asked, m, closedByHost)
  BY <1>1, OutPopped DEF Asked
<1>4. Held(to_server)' = Held(Tail(to_server))
  BY DEF Held
<1>5. ASSUME NEW id \in Ids \ {k} PROVE Outbox(id)' = Outbox(id)
  BY <1>2, <1>4, <1>5, Numbers DEF Outbox
<1> QED
  BY <1>2, <1>3, <1>4, <1>5 DEF Outbox

\* The server writes a message.
LEMMA ServerSays ==
    ASSUME TypeOK, NEW k \in Ids, NEW m \in WireMessages, m.ch = k,
           to_client' = Append(to_client, m)
    PROVE  /\ to_client' \in Seq(WireMessages)
           /\ Held(to_client)' = Held(to_client) \cup {m}
           /\ Inbox(k)' = Inbox(k) \cup {m}
           /\ \A id \in Ids \ {k} : Inbox(id)' = Inbox(id)
           /\ InOrder(to_client) /\ (\A a \in Inbox(k) : MayFollow(a, m)) => InOrder(to_client')
<1>1. to_client \in Seq(WireMessages)
  BY DEF TypeOK
<1>2. to_client' \in Seq(WireMessages) /\ Held(to_client') = Held(to_client) \cup {m}
  BY <1>1, Appended
<1>3. Held(to_client)' = Held(to_client) \cup {m}
  BY <1>2 DEF Held
<1>4. ASSUME InOrder(to_client), \A a \in Inbox(k) : MayFollow(a, m)
      PROVE  InOrder(to_client')
  <2>1. \A a \in Held(to_client) : a.ch = m.ch => MayFollow(a, m)
    BY <1>4 DEF Inbox
  <2> QED
    BY <1>1, <1>4, <2>1, InAppended
<1> QED
  BY <1>2, <1>3, <1>4 DEF Inbox

\* An event more.
LEMMA Reports ==
    ASSUME TypeOK, NEW k \in Ids, NEW e \in Events, Report(k, e)
    PROVE  /\ events' \in [Ids -> Seq(Events)]
           /\ events'[k] # <<>>
           /\ Told(k)' = Told(k) \cup {e}
           /\ \A id \in Ids \ {k} : events'[id] = events[id]
<1>1. events \in [Ids -> Seq(Events)] /\ events' = [events EXCEPT ![k] = Append(events[k], e)]
  BY DEF TypeOK, Report
<1> DEFINE q == events[k]
<1>2. q \in Seq(Events) /\ Append(q, e) # <<>>
  BY <1>1
<1>4. Append(q, e) \in Seq(Events) /\ Held(Append(q, e)) = Held(q) \cup {e}
  <2> HIDE DEF q
  <2> QED
    BY <1>2, Appended
<1>3. Told(k)' = Held(Append(events[k], e))
  BY <1>1 DEF Told, Held
<1> QED
  BY <1>1, <1>2, <1>3, <1>4 DEF Told

\* The stages of a channel's life.
LEMMA LifeCases ==
    ASSUME NEW id
    PROVE  /\ Life(id) \in {"unused", "opening", "open", "gone"}
           /\ Life(id) = "open" <=> Known(id)
           /\ Life(id) = "opening" <=> id \in DOMAIN channels /\ ~Known(id)
           /\ Life(id) = "unused" <=> id \notin DOMAIN channels /\ events[id] = <<>>
BY DEF Life, Known

LEMMA LifeCasesNext ==
    ASSUME NEW id
    PROVE  /\ Life(id)' \in {"unused", "opening", "open", "gone"}
           /\ Life(id)' = "open" <=> Known(id)'
           /\ Life(id)' = "opening" <=> id \in DOMAIN channels' /\ ~Known(id)'
           /\ Life(id)' = "unused" <=> id \notin DOMAIN channels' /\ events'[id] = <<>>
BY DEF Life, Known

\* What is said of a channel is about nothing else.
LEMMA Untouched ==
    ASSUME NEW id \in Ids, ChannelInv(id),
           Life(id)' = Life(id), Step(id)' = Step(id), srv'[id] = srv[id],
           Inbox(id)' = Inbox(id), Outbox(id)' = Outbox(id), Told(id)' = Told(id),
           Closer(id)' = Closer(id)
    PROVE  ChannelInv(id)'
BY DEF ChannelInv, Fits, FitsIn, FitsOut, EndsMatch, SetupMatches, SetupProceeds, EventsMatch

-----------------------------------------------------------------------------
\* The client handles a message.

\* A channel that is not touched keeps its stage.
LEMMA SameLife ==
    ASSUME NEW id, events'[id] = events[id],
           id \in DOMAIN channels' <=> id \in DOMAIN channels,
           id \in DOMAIN channels => channels'[id].remote_id = channels[id].remote_id
    PROVE  Life(id)' = Life(id)
BY DEF Life, Known

\* What is known of the message at the head of the queue.
LEMMA Receipt ==
    ASSUME ConnectionInv, NEW type, Arrived(type), NEW k, k = Msg.ch
    PROVE  /\ Msg.type = type /\ Msg \in WireMessages
           /\ k \in Ids /\ Msg \in Inbox(k) /\ ChannelInv(k)
           /\ to_client' \in Seq(WireMessages)
           /\ Held(to_client)' \subseteq Held(to_client)
           /\ InOrder(to_client')
           /\ \A id \in Ids \ {k} : Inbox(id)' = Inbox(id)
           /\ Inbox(k) = Inbox(k)' \cup {Msg}
           /\ \A m \in Inbox(k)' : MayFollow(Msg, m)
           /\ FitsIn(Msg, k, Life(k), Step(k), srv[k])
           /\ type # "CHANNEL_OPEN_CONFIRMATION" /\ Life(k) = "opening" =>
                 srv[k].state = "refused"
           /\ Life(k) # "unused"
<1>1. TypeOK /\ TableInv /\ InOrder(to_client)
  BY DEF ConnectionInv, ProtocolInv
<1>2. to_client # <<>> /\ to_client' = Tail(to_client) /\ Msg.type = type
  BY DEF Arrived, Msg
<1>3. /\ k \in Ids /\ Msg \in Inbox(k)
      /\ Inbox(k) = Inbox(k)' \cup {Msg} /\ \A m \in Inbox(k)' : MayFollow(Msg, m)
  BY <1>1, <1>2, ClientTakes
<1>4. ChannelInv(k)
  BY <1>3 DEF ConnectionInv, ProtocolInv
<1>5. FitsIn(Msg, k, Life(k), Step(k), srv[k]) /\ EndsMatch(Life(k), Step(k), srv[k], Inbox(k), Closer(k))
  BY <1>3, <1>4 DEF ChannelInv, Fits
<1>6. type # "CHANNEL_OPEN_CONFIRMATION" /\ Life(k) = "opening" => srv[k].state = "refused"
  BY <1>2, <1>3, <1>5 DEF FitsIn, EndsMatch, MayFollow
<1>7. Life(k) # "unused"
  BY <1>5 DEF FitsIn, EndsMatch
<1> QED
  BY <1>1, <1>2, <1>3, <1>4, <1>5, <1>6, <1>7, ClientTakes

\* A step on one channel.
LEMMA OthersKeep ==
    ASSUME ConnectionInv, NEW k \in Ids, ChannelInv(k)',
           \A id \in Ids \ {k} :
              /\ Life(id)' = Life(id) /\ Step(id)' = Step(id) /\ events'[id] = events[id]
              /\ srv'[id] = srv[id] /\ Closer(id)' = Closer(id)
              /\ Inbox(id)' = Inbox(id) /\ Outbox(id)' = Outbox(id)
    PROVE  \A id \in Ids : ChannelInv(id)'
<1> SUFFICES ASSUME NEW id \in Ids \ {k} PROVE ChannelInv(id)'
  OBVIOUS
<1>1. ChannelInv(id)
  BY DEF ConnectionInv, ProtocolInv
<1>2. Told(id)' = Told(id)
  BY DEF Told, Held
<1> QED
  BY <1>1, <1>2, Untouched

\* More channels closed by the host excuse more.
LEMMA ClosedMore ==
    ASSUME NEW q, NEW closed, NEW more, closed \subseteq more, OutOrder(q, closed)
    PROVE  OutOrder(q, more)
BY DEF OutOrder, MayFollowOut

\* What the client sends, if anything, and what is to be shown of its steps.
SentOn(k) ==
    \/ to_server' = to_server
    \/ \E m \in WireMessages :
          /\ m.ch = ServerEnd(k) /\ m.type # "CHANNEL_OPEN"
          /\ Send(<<m>>)
          /\ \A a \in Outbox(k) : a.ch = m.ch => MayFollowOut(a, m, closedByHost)

LEMMA ClientMoved ==
    ASSUME ConnectionInv, NEW k \in Ids,
           UNCHANGED <<serverVars, next_id, panicked>>,
           phase' = phase \/ Talks,
           closedByHost \subseteq closedByHost', closedByHost' \subseteq closedByHost \cup {k},
           SentOn(k),
           InOrder(to_client'), Held(to_client)' \subseteq Held(to_client),
           \A id \in Ids \ {k} : /\ Step(id)' = Step(id) /\ events'[id] = events[id]
                                 /\ Inbox(id)' = Inbox(id)
                                 /\ (id \in DOMAIN channels') <=> (id \in DOMAIN channels),
           \A id \in DOMAIN channels' \ {k} :
              id \in DOMAIN channels /\ channels'[id] = channels[id],
           k \in DOMAIN channels' =>
              /\ channels'[k].remote_id \in {None, ServerEnd(k)}
              /\ channels'[k].remote_max_packet > 0 => channels'[k].remote_id # None,
           Life(k) # "unused", Life(k)' # "unused",
           ChannelInv(k)'
    PROVE  ProtocolInv'
<1>1. TypeOK /\ ProtocolInv /\ TableInv
  BY DEF ConnectionInv, ProtocolInv
<1>2. /\ \A id \in Ids \ {k} : Outbox(id)' = Outbox(id)
      /\ \A m \in Held(to_server)' : m.type = "CHANNEL_OPEN" <=> m.ch \in Ids
      /\ OutOrder(to_server', closedByHost)
  <2>1. CASE to_server' = to_server
    BY <1>1, <2>1 DEF Outbox, Held, ProtocolInv, TableInv
  <2>2. CASE to_server' # to_server
    <3>1. PICK m \in WireMessages :
             /\ m.ch = ServerEnd(k) /\ m.type # "CHANNEL_OPEN" /\ Send(<<m>>)
             /\ \A a \in Outbox(k) : a.ch = m.ch => MayFollowOut(a, m, closedByHost)
      BY <2>2 DEF SentOn
    <3>2. /\ Held(to_server)' = Held(to_server) \cup {m}
          /\ \A id \in Ids \ {k} : Outbox(id)' = Outbox(id)
          /\ OutOrder(to_server', closedByHost)
      BY <1>1, <3>1, SendsOne DEF ProtocolInv
    <3> QED
      BY <1>1, <3>1, <3>2, Numbers DEF TableInv
  <2> QED
    BY <2>1, <2>2
<1>3. \A id \in Ids \ {k} : Life(id)' = Life(id)
  <2>1. ASSUME NEW id \in Ids \ {k} PROVE Life(id)' = Life(id)
    <3>1. id \in DOMAIN channels => channels'[id].remote_id = channels[id].remote_id
      BY <2>1
    <3> QED
      BY <2>1, <3>1, SameLife
  <2> QED
    BY <2>1
<1>4. \A id \in Ids : ChannelInv(id)'
  <2>1. \A id \in Ids \ {k} : srv'[id] = srv[id] /\ Closer(id)' = Closer(id)
    BY DEF serverVars, Closer
  <2> QED
    BY <1>2, <1>3, <2>1, OthersKeep
<1>5. Remotes(channels')
  <2>1. ASSUME NEW id \in DOMAIN channels', id # k
        PROVE  /\ channels'[id].remote_id \in {None, ServerEnd(id)}
               /\ channels'[id].remote_max_packet > 0 => channels'[id].remote_id # None
    <3>1. id \in DOMAIN channels /\ channels'[id] = channels[id]
      BY <2>1
    <3> QED
      BY <1>1, <3>1 DEF TableInv, Remotes
  <2> QED
    BY <2>1 DEF Remotes
<1>6. \A id \in Ids : Life(id)' = "unused" <=> next_id' <= id
  BY <1>1, <1>3 DEF TableInv
<1>7. TableInv'
  BY <1>1, <1>2, <1>5, <1>6 DEF TableInv, Remotes
<1>8. OutOrder(to_server', closedByHost')
  BY <1>2, ClosedMore
<1> QED
  BY <1>1, <1>4, <1>7, <1>8 DEF ProtocolInv, serverVars, OutOrder, InOrder

LEMMA Handled ==
    ASSUME ConnectionInv, NEW type, Arrived(type), NEW k, k = Msg.ch,
           UNCHANGED <<serverVars, hostVars, next_id, panicked>>,
           phase' = phase \/ Talks,
           SentOn(k),
           \A id \in Ids \ {k} : /\ Step(id)' = Step(id) /\ events'[id] = events[id]
                                 /\ (id \in DOMAIN channels') <=> (id \in DOMAIN channels),
           \A id \in DOMAIN channels' \ {k} :
              id \in DOMAIN channels /\ channels'[id] = channels[id],
           k \in DOMAIN channels' =>
              /\ channels'[k].remote_id \in {None, ServerEnd(k)}
              /\ channels'[k].remote_max_packet > 0 => channels'[k].remote_id # None,
           Life(k)' # "unused",
           ChannelInv(k)'
    PROVE  ProtocolInv'
<1>1. /\ k \in Ids /\ InOrder(to_client') /\ Life(k) # "unused"
      /\ \A id \in Ids \ {k} : Inbox(id)' = Inbox(id)
      /\ Held(to_client)' \subseteq Held(to_client)
  BY Receipt
<1>2. UNCHANGED <<serverVars, next_id, panicked>> /\ closedByHost' = closedByHost
  BY DEF hostVars
<1> QED
  BY <1>1, <1>2, ClientMoved

\* Handlers that leave the setup alone.
LEMMA SameSteps ==
    ASSUME channel_setup' = channel_setup
    PROVE  \A id : Step(id)' = Step(id)
BY DEF Step

LEMMA WithoutKey ==
    ASSUME NEW f, NEW key
    PROVE  /\ DOMAIN Without(f, key) = DOMAIN f \ {key}
           /\ \A x \in DOMAIN f \ {key} : Without(f, key)[x] = f[x]
BY DEF Without

LEMMA DoneSetup ==
    ASSUME NEW k, channel_setup' = Without(channel_setup, k)
    PROVE  /\ Step(k)' = "none"
           /\ \A id \in Ids \ {k} : Step(id)' = Step(id)
<1>1. /\ DOMAIN channel_setup' = DOMAIN channel_setup \ {k}
      /\ \A id \in DOMAIN channel_setup \ {k} : channel_setup'[id] = channel_setup[id]
  BY WithoutKey
<1> QED
  BY <1>1 DEF Step

LEMMA ConfirmationHandled ==
    ASSUME ConnectionInv, HandleOpenConfirmation, UNCHANGED <<serverVars, hostVars>>
    PROVE  ProtocolInv'
<1>0. Arrived("CHANNEL_OPEN_CONFIRMATION")
  BY DEF HandleOpenConfirmation
<1> PICK k : k = Msg.ch
  OBVIOUS
<1>1. /\ k \in Ids /\ Msg \in Inbox(k) /\ ChannelInv(k)
      /\ Inbox(k) = Inbox(k)' \cup {Msg} /\ \A m \in Inbox(k)' : MayFollow(Msg, m)
      /\ FitsIn(Msg, k, Life(k), Step(k), srv[k])
      /\ Msg.type = "CHANNEL_OPEN_CONFIRMATION"
  BY <1>0, Receipt
<1>2. TypeOK
  BY DEF ConnectionInv
<1>3. /\ Life(k) = "opening" /\ srv[k].state = "open" /\ Msg.sender = ServerEnd(k)
      /\ Step(k) \in {"AwaitingExecReply", "AwaitingPtyReply"}
  BY <1>1 DEF FitsIn, ChannelInv, Fits, EndsMatch
<1>4. k \in DOMAIN channels
  BY <1>3, LifeCases
<1>5. /\ channels' = [channels EXCEPT ![k] =
                         OnOpenConfirmation(channels[k], Msg.sender, Msg.len, MAX_PACKET_SIZE)]
      /\ StartSetup(k, Msg.sender) /\ Report(k, "ChannelOpened") /\ Calm
  BY <1>4 DEF HandleOpenConfirmation, UnknownChannel
<1>6. /\ channel_setup' = channel_setup
      /\ Send(<<Request(ServerEnd(k), Awaited[Step(k)])>>)
  BY <1>3, <1>5 DEF StartSetup, Awaited
<1> DEFINE m == Request(ServerEnd(k), Awaited[Step(k)])
<1>7. /\ m \in WireMessages /\ m.ch = ServerEnd(k) /\ m.type = "CHANNEL_REQUEST"
      /\ m.req = Awaited[Step(k)] /\ m.req \in SetupRequests
  <2>1. /\ Awaited[Step(k)] \in SetupRequests /\ Awaited[Step(k)] \in Requests
        /\ ServerEnd(k) \in Ends /\ "CHANNEL_REQUEST" \in Types
    BY <1>1, <1>3, Numbers DEF Awaited, SetupRequests, Requests, Types
  <2> QED
    BY <2>1, MessageTypes, RequestFields
<1> HIDE DEF m
<1>8. Outbox(k) = {}
  BY <1>1, <1>3 DEF ChannelInv, Fits, FitsOut
<1>9. Outbox(k)' = {m}
  BY <1>1, <1>2, <1>6, <1>7, <1>8, SendsOne DEF m
<1>10. SentOn(k)
  BY <1>6, <1>7, <1>8 DEF SentOn, m
<1>11. /\ \A id \in Ids : Step(id)' = Step(id)
       /\ Step(k)' = Step(k)
  BY <1>1, <1>6, SameSteps
<1>12. /\ DOMAIN channels' = DOMAIN channels
       /\ \A id \in DOMAIN channels \ {k} : channels'[id] = channels[id]
       /\ channels'[k].remote_id = ServerEnd(k)
  BY <1>2, <1>3, <1>4, <1>5 DEF TypeOK, ChannelRecords, OnOpenConfirmation
<1>13. ServerEnd(k) # None /\ ServerEnd(k) # k
  BY <1>1, Numbers
<1>14. Life(k)' = "open"
  BY <1>4, <1>12, <1>13, LifeCasesNext DEF Known
<1>15. /\ Told(k)' = Told(k) \cup {"ChannelOpened"}
       /\ \A id \in Ids \ {k} : events'[id] = events[id]
  BY <1>1, <1>2, <1>5, Reports DEF Events
<1>16. srv'[k] = srv[k] /\ Closer(k)' = Closer(k)
  BY DEF serverVars, hostVars, Closer
<1>17. ChannelInv(k)'
  BY <1>1, <1>3, <1>7, <1>9, <1>11, <1>13, <1>14, <1>15, <1>16
  DEF ChannelInv, Fits, FitsIn, FitsOut, EndsMatch, SetupMatches, SetupProceeds,
      EventsMatch, MayFollow, ExitRequests, Replies
<1> QED
  BY <1>0, <1>1, <1>5, <1>10, <1>11, <1>12, <1>13, <1>14, <1>15, <1>17, Handled
  DEF Calm

LEMMA OpenFailureHandled ==
    ASSUME ConnectionInv, HandleOpenFailure, UNCHANGED <<serverVars, hostVars>>
    PROVE  ProtocolInv'
<1>0. Arrived("CHANNEL_OPEN_FAILURE")
  BY DEF HandleOpenFailure
<1> PICK k : k = Msg.ch
  OBVIOUS
<1>1. /\ k \in Ids /\ Msg \in Inbox(k) /\ ChannelInv(k)
      /\ Inbox(k) = Inbox(k)' \cup {Msg} /\ \A m \in Inbox(k)' : MayFollow(Msg, m)
      /\ FitsIn(Msg, k, Life(k), Step(k), srv[k])
      /\ Msg.type = "CHANNEL_OPEN_FAILURE"
  BY <1>0, Receipt
<1>2. /\ TypeOK /\ channels' = Without(channels, k) /\ Report(k, "ChannelOpenFailed")
      /\ UNCHANGED <<setupVars, to_server>> /\ Calm
  BY DEF ConnectionInv, HandleOpenFailure
<1>3. Life(k) = "opening" /\ srv[k].state = "refused" /\ Inbox(k)' = {}
  BY <1>1 DEF FitsIn, MayFollow
<1>4. Outbox(k) = {} /\ Outbox(k)' = {}
  BY <1>1, <1>2, <1>3 DEF ChannelInv, Fits, FitsOut, Outbox, Held
<1>5. \A id \in Ids : Step(id)' = Step(id)
  BY <1>2, SameSteps DEF setupVars
<1>6. /\ DOMAIN channels' = DOMAIN channels \ {k}
      /\ \A id \in DOMAIN channels \ {k} : channels'[id] = channels[id]
  BY <1>2, WithoutKey
<1>7. /\ Told(k)' = Told(k) \cup {"ChannelOpenFailed"} /\ events'[k] # <<>>
      /\ \A id \in Ids \ {k} : events'[id] = events[id]
  BY <1>1, <1>2, Reports DEF Events
<1>8. Life(k)' = "gone"
  BY <1>6, <1>7, LifeCasesNext DEF Known
<1>9. srv'[k] = srv[k] /\ Closer(k)' = Closer(k)
  BY DEF serverVars, hostVars, Closer
<1>10. ChannelInv(k)'
  BY <1>1, <1>3, <1>4, <1>5, <1>7, <1>8, <1>9
  DEF ChannelInv, Fits, FitsIn, FitsOut, EndsMatch, SetupMatches, SetupProceeds, EventsMatch
<1> QED
  BY <1>0, <1>1, <1>2, <1>5, <1>6, <1>7, <1>8, <1>10, Handled DEF Calm, SentOn

\* What the client's copy of the server's id is.
LEMMA KnownEnd ==
    ASSUME ConnectionInv, NEW k \in Ids, Life(k) = "open"
    PROVE  k \in DOMAIN channels /\ Known(k) /\ channels[k].remote_id = ServerEnd(k)
BY LifeCases DEF ConnectionInv, ProtocolInv, TableInv, Remotes, Known

\* A message of the client's on a channel it has not closed before is in order.
LEMMA SendsMore ==
    ASSUME ConnectionInv, NEW k \in Ids, Life(k) = "open",
           NEW m \in WireMessages, m.ch = ServerEnd(k), m.type # "CHANNEL_OPEN",
           m.req \in SetupRequests => \A a \in Outbox(k) : a.req \notin SetupRequests,
           Send(<<m>>)
    PROVE  SentOn(k) /\ Outbox(k)' = Outbox(k) \cup {m}
<1>1. TypeOK /\ ChannelInv(k)
  BY DEF ConnectionInv, ProtocolInv
<1>2. ASSUME NEW a \in Outbox(k), a.ch = m.ch PROVE MayFollowOut(a, m, closedByHost)
  <2>1. a.type = "CHANNEL_CLOSE" => k \in closedByHost
    BY <1>1, <1>2 DEF ChannelInv, Fits, FitsOut, Closer
  <2>2. ClientEnd(a.ch) = k
    BY <1>2, Numbers
  <2> QED
    BY <2>1, <2>2 DEF MayFollowOut
<1> QED
  BY <1>1, <1>2, SendsOne DEF SentOn

LEMMA SuccessHandled ==
    ASSUME ConnectionInv, HandleSuccess, UNCHANGED <<serverVars, hostVars>>
    PROVE  ProtocolInv'
<1>0. Arrived("CHANNEL_SUCCESS")
  BY DEF HandleSuccess
<1> PICK k : k = Msg.ch
  OBVIOUS
<1>1. /\ k \in Ids /\ Msg \in Inbox(k) /\ ChannelInv(k)
      /\ Inbox(k) = Inbox(k)' \cup {Msg} /\ \A m \in Inbox(k)' : MayFollow(Msg, m)
      /\ FitsIn(Msg, k, Life(k), Step(k), srv[k])
      /\ Msg.type = "CHANNEL_SUCCESS"
  BY <1>0, Receipt
<1>2. /\ Life(k) = "open" /\ Step(k) # "none" /\ srv[k].state = "open"
      /\ srv[k].asked = <<>> /\ ~srv[k].denied
      /\ srv[k].started <=> Step(k) # "AwaitingPtyReply"
  BY <1>1 DEF FitsIn, Replies
<1>3. k \in DOMAIN channels /\ Known(k) /\ channels[k].remote_id = ServerEnd(k)
  BY <1>1, <1>2, KnownEnd
<1>4. channels' = channels /\ events' = events /\ Calm
  BY <1>2, <1>3 DEF HandleSuccess
<1>5. /\ \A a \in Outbox(k) : a.req \notin SetupRequests
      /\ \A m \in Inbox(k)' : m.type \notin Replies
  BY <1>1 DEF ChannelInv, Fits, FitsOut, Replies, MayFollow
<1>6. Life(k)' = "open"
  BY <1>3, <1>4, LifeCasesNext DEF Known
<1>7. Told(k)' = Told(k) /\ srv'[k] = srv[k] /\ Closer(k)' = Closer(k)
  BY <1>4 DEF serverVars, hostVars, Closer, Told, Held
<1>8. k \in DOMAIN channel_setup /\ Step(k) = channel_setup[k]
  BY <1>2 DEF Step
<1>9. TypeOK /\ TableInv
  BY DEF ConnectionInv, ProtocolInv
<1>10. /\ channels[k].remote_id \in {None, ServerEnd(k)}
       /\ channels[k].remote_max_packet > 0 => channels[k].remote_id # None
  BY <1>3, <1>9 DEF TableInv, Remotes
<1>11. CASE Step(k) = "AwaitingPtyReply"
  <2> DEFINE m == Request(ServerEnd(k), "shell")
  <2>1. /\ channel_setup' = [channel_setup EXCEPT ![k] = "AwaitingShellReply"]
        /\ Send(<<m>>)
    BY <1>2, <1>3, <1>11 DEF HandleSuccess
  <2>2. /\ m \in WireMessages /\ m.ch = ServerEnd(k) /\ m.type = "CHANNEL_REQUEST"
        /\ m.req = "shell"
    <3>1. ServerEnd(k) \in Ends /\ "shell" \in Requests /\ "CHANNEL_REQUEST" \in Types
      BY <1>1, Numbers DEF Types, Requests, SetupRequests
    <3> QED
      BY <3>1, MessageTypes, RequestFields
  <2> HIDE DEF m
  <2>3. SentOn(k) /\ Outbox(k)' = Outbox(k) \cup {m}
    BY <1>1, <1>2, <1>5, <2>1, <2>2, SendsMore
  <2>4. /\ Step(k)' = "AwaitingShellReply"
        /\ \A id \in Ids \ {k} : Step(id)' = Step(id)
    BY <1>8, <2>1 DEF Step
  <2>5. ServerEnd(k) # k
    BY <1>1, Numbers
  <2>6. ChannelInv(k)'
    BY <1>1, <1>2, <1>5, <1>6, <1>7, <1>11, <2>2, <2>3, <2>4, <2>5
    DEF ChannelInv, Fits, FitsIn, FitsOut, EndsMatch, SetupMatches, SetupProceeds,
        EventsMatch, MayFollow, SetupRequests, Awaited, Replies
  <2> QED
    BY <1>0, <1>1, <1>4, <1>6, <1>10, <2>3, <2>4, <2>6, Handled DEF Calm
<1>12. CASE Step(k) # "AwaitingPtyReply"
  <2>1. channel_setup' = Without(channel_setup, k) /\ to_server' = to_server
    BY <1>2, <1>3, <1>12 DEF HandleSuccess
  <2>2. /\ Step(k)' = "none"
        /\ \A id \in Ids \ {k} : Step(id)' = Step(id)
    BY <2>1, DoneSetup
  <2>3. Outbox(k)' = Outbox(k)
    BY <2>1 DEF Outbox, Held
  <2>4. ChannelInv(k)'
    BY <1>1, <1>2, <1>5, <1>6, <1>7, <1>12, <2>2, <2>3
    DEF ChannelInv, Fits, FitsIn, FitsOut, EndsMatch, SetupMatches, SetupProceeds,
        EventsMatch, MayFollow
  <2> QED
    BY <1>0, <1>1, <1>4, <1>6, <1>10, <2>1, <2>2, <2>4, Handled DEF Calm, SentOn
<1> QED
  BY <1>11, <1>12

LEMMA FailureHandled ==
    ASSUME ConnectionInv, HandleFailure, UNCHANGED <<serverVars, hostVars>>
    PROVE  ProtocolInv'
<1>0. Arrived("CHANNEL_FAILURE")
  BY DEF HandleFailure
<1> PICK k : k = Msg.ch
  OBVIOUS
<1>1. /\ k \in Ids /\ Msg \in Inbox(k) /\ ChannelInv(k)
      /\ Inbox(k) = Inbox(k)' \cup {Msg} /\ \A m \in Inbox(k)' : MayFollow(Msg, m)
      /\ FitsIn(Msg, k, Life(k), Step(k), srv[k])
      /\ Msg.type = "CHANNEL_FAILURE"
  BY <1>0, Receipt
<1>2. /\ Life(k) = "open" /\ Step(k) # "none" /\ srv[k].state = "open"
      /\ srv[k].asked = <<>> /\ srv[k].denied
  BY <1>1 DEF FitsIn, Replies
<1>3. k \in DOMAIN channels /\ Known(k) /\ channels[k].remote_id = ServerEnd(k)
  BY <1>1, <1>2, KnownEnd
<1>4. TypeOK
  BY DEF ConnectionInv
<1> DEFINE m == Message("CHANNEL_CLOSE", ServerEnd(k))
<1>5. /\ channel_setup' = Without(channel_setup, k) /\ channels' = Without(channels, k)
      /\ Send(<<m>>) /\ Report(k, "ChannelOpenFailed") /\ Calm
  BY <1>2, <1>3 DEF HandleFailure
<1>6. /\ m \in WireMessages /\ m.ch = ServerEnd(k) /\ m.type = "CHANNEL_CLOSE"
      /\ m.req = "none"
  <2>1. ServerEnd(k) \in Ends /\ "CHANNEL_CLOSE" \in Types
    BY <1>1, Numbers DEF Types
  <2> QED
    BY <2>1, MessageTypes, MessageFields
<1> HIDE DEF m
<1>7. "none" \notin SetupRequests /\ ServerEnd(k) # k
  BY <1>1, Numbers DEF SetupRequests
<1>8. SentOn(k) /\ Outbox(k)' = Outbox(k) \cup {m}
  BY <1>1, <1>2, <1>5, <1>6, <1>7, SendsMore
<1>9. /\ Step(k)' = "none"
      /\ \A id \in Ids \ {k} : Step(id)' = Step(id)
  BY <1>5, DoneSetup
<1>10. /\ DOMAIN channels' = DOMAIN channels \ {k}
       /\ \A id \in DOMAIN channels \ {k} : channels'[id] = channels[id]
  BY <1>5, WithoutKey
<1>11. /\ Told(k)' = Told(k) \cup {"ChannelOpenFailed"} /\ events'[k] # <<>>
       /\ \A id \in Ids \ {k} : events'[id] = events[id]
  BY <1>1, <1>4, <1>5, Reports DEF Events
<1>12. Life(k)' = "gone"
  BY <1>10, <1>11, LifeCasesNext DEF Known
<1>13. srv'[k] = srv[k] /\ Closer(k)' = Closer(k)
  BY DEF serverVars, hostVars, Closer
<1>14. ChannelInv(k)'
  BY <1>1, <1>2, <1>6, <1>7, <1>8, <1>9, <1>11, <1>12, <1>13
  DEF ChannelInv, Fits, FitsIn, FitsOut, EndsMatch, SetupMatches, SetupProceeds, EventsMatch,
      MayFollow, Replies
<1> QED
  BY <1>0, <1>1, <1>5, <1>8, <1>9, <1>10, <1>11, <1>12, <1>14, Handled DEF Calm

\* A message on a channel of which the table has forgotten everything is the
\* server's talk after it denied the setup.
LEMMA UnknownHandled ==
    ASSUME ConnectionInv, NEW type, Arrived(type), UnknownChannel,
           type \in {"CHANNEL_WINDOW_ADJUST", "CHANNEL_DATA", "CHANNEL_EOF", "CHANNEL_REQUEST"},
           UNCHANGED <<serverVars, hostVars>>
    PROVE  ProtocolInv'
<1> PICK k : k = Msg.ch
  OBVIOUS
<1>1. /\ k \in Ids /\ Msg \in Inbox(k) /\ ChannelInv(k)
      /\ Inbox(k) = Inbox(k)' \cup {Msg} /\ \A m \in Inbox(k)' : MayFollow(Msg, m)
      /\ FitsIn(Msg, k, Life(k), Step(k), srv[k])
      /\ Msg.type = type /\ Life(k) # "unused"
  BY Receipt
<1>2. /\ k \notin DOMAIN channels /\ phase' = "Closed" /\ to_server' = to_server
      /\ UNCHANGED <<channels, next_id, setupVars, events, panicked>>
  BY DEF UnknownChannel
<1>3. Life(k) = "gone" /\ Life(k)' = "gone"
  BY <1>1, <1>2, LifeCases, LifeCasesNext DEF Known
<1>4. srv[k].denied /\ Talks
  BY <1>1, <1>3 DEF FitsIn
<1>5. \A id : Step(id)' = Step(id)
  BY <1>2, SameSteps DEF setupVars
<1>6. /\ srv'[k] = srv[k] /\ Closer(k)' = Closer(k) /\ Told(k)' = Told(k)
      /\ Outbox(k)' = Outbox(k)
  BY <1>2 DEF serverVars, hostVars, Closer, Told, Outbox, Held
<1>7. ChannelInv(k)'
  BY <1>1, <1>3, <1>5, <1>6
  DEF ChannelInv, Fits, FitsIn, FitsOut, EndsMatch, SetupMatches, SetupProceeds, EventsMatch
<1> QED
  BY <1>1, <1>2, <1>3, <1>4, <1>5, <1>7, Handled DEF SentOn

\* On a channel in the table, such a message finds the server's id.
LEMMA FindsEnd ==
    ASSUME ConnectionInv, NEW type, Arrived(type), NEW k, k = Msg.ch, k \in DOMAIN channels,
           type \in {"CHANNEL_WINDOW_ADJUST", "CHANNEL_DATA", "CHANNEL_EOF", "CHANNEL_REQUEST"}
    PROVE  Life(k) = "open"
<1>1. /\ FitsIn(Msg, k, Life(k), Step(k), srv[k]) /\ Msg.type = type
      /\ Life(k) = "opening" => srv[k].state = "refused"
  BY Receipt
<1>2. Life(k) # "opening"
  BY <1>1 DEF FitsIn
<1> QED
  BY <1>2, LifeCases

LEMMA WindowAdjustHandled ==
    ASSUME ConnectionInv, HandleWindowAdjust, UNCHANGED <<serverVars, hostVars>>
    PROVE  ProtocolInv'
<1>0. Arrived("CHANNEL_WINDOW_ADJUST")
  BY DEF HandleWindowAdjust
<1> PICK k : k = Msg.ch
  OBVIOUS
<1>1. /\ k \in Ids /\ Msg \in Inbox(k) /\ ChannelInv(k)
      /\ Inbox(k) = Inbox(k)' \cup {Msg} /\ \A m \in Inbox(k)' : MayFollow(Msg, m)
      /\ Msg.type = "CHANNEL_WINDOW_ADJUST"
  BY <1>0, Receipt
<1>2. CASE UnknownChannel
  BY <1>0, <1>2, UnknownHandled
<1>3. CASE ~UnknownChannel
  <2>1. /\ k \in DOMAIN channels
        /\ channels' = [channels EXCEPT ![k] = OnWindowAdjust(channels[k], Msg.len)]
        /\ UNCHANGED <<setupVars, events, to_server>> /\ Calm
    BY <1>3 DEF HandleWindowAdjust
  <2>2. Life(k) = "open"
    BY <1>0, <2>1, FindsEnd
  <2>3. TypeOK /\ TableInv /\ Known(k) /\ channels[k].remote_id = ServerEnd(k)
    BY <1>1, <2>2, KnownEnd DEF ConnectionInv, ProtocolInv
  <2>4. /\ DOMAIN channels' = DOMAIN channels
        /\ \A id \in DOMAIN channels \ {k} : channels'[id] = channels[id]
        /\ channels'[k].remote_id = channels[k].remote_id
    BY <2>1, <2>3 DEF TypeOK, ChannelRecords, OnWindowAdjust
  <2>5. Life(k)' = "open" /\ channels'[k].remote_id = ServerEnd(k) /\ ServerEnd(k) # None
    BY <1>1, <2>1, <2>3, <2>4, LifeCasesNext, Numbers DEF Known
  <2>6. \A id : Step(id)' = Step(id)
    BY <2>1, SameSteps DEF setupVars
  <2>7. /\ srv'[k] = srv[k] /\ Closer(k)' = Closer(k) /\ Told(k)' = Told(k)
        /\ Outbox(k)' = Outbox(k)
    BY <2>1 DEF serverVars, hostVars, Closer, Told, Outbox, Held
  <2>8. ChannelInv(k)'
    BY <1>1, <2>2, <2>5, <2>6, <2>7
    DEF ChannelInv, Fits, FitsIn, FitsOut, EndsMatch, SetupMatches, SetupProceeds,
        EventsMatch, Replies
  <2> QED
    BY <1>0, <1>1, <2>1, <2>4, <2>5, <2>6, <2>8, Handled DEF Calm, SentOn
<1> QED
  BY <1>2, <1>3

LEMMA DataHandled ==
    ASSUME ConnectionInv, HandleData, UNCHANGED <<serverVars, hostVars>>
    PROVE  ProtocolInv'
<1>0. Arrived("CHANNEL_DATA")
  BY DEF HandleData
<1> PICK k : k = Msg.ch
  OBVIOUS
<1>1. /\ k \in Ids /\ Msg \in Inbox(k) /\ ChannelInv(k) /\ Msg \in WireMessages
      /\ Inbox(k) = Inbox(k)' \cup {Msg} /\ \A m \in Inbox(k)' : MayFollow(Msg, m)
      /\ Msg.type = "CHANNEL_DATA"
  BY <1>0, Receipt
<1>2. CASE UnknownChannel
  BY <1>0, <1>2, UnknownHandled
<1>3. CASE ~UnknownChannel
  <2>1. k \in DOMAIN channels
    BY <1>3 DEF HandleData
  <2>2. Life(k) = "open"
    BY <1>0, <2>1, FindsEnd
  <2>3. TypeOK /\ TableInv /\ Known(k) /\ channels[k].remote_id = ServerEnd(k)
    BY <1>1, <2>2, KnownEnd DEF ConnectionInv, ProtocolInv
  <2> DEFINE m == Sized("CHANNEL_WINDOW_ADJUST", ServerEnd(k), Unadvertised(channels[k], Msg.len))
  <2>4. /\ channels' = [channels EXCEPT ![k] = OnDataConsumed(channels[k], Msg.len)]
        /\ Send(<<m>>) \/ Send(<<>>)
        /\ Report(k, "ChannelData") /\ UNCHANGED setupVars /\ Calm
    <3>1. /\ channels' = [channels EXCEPT ![k] = OnDataConsumed(channels[k], Msg.len)]
          /\ Send(IF Adjusts(channels[k], Msg.len) THEN <<m>> ELSE <<>>)
          /\ Report(k, "ChannelData") /\ UNCHANGED setupVars /\ Calm
      BY <1>3, <2>3 DEF HandleData
    <3> QED
      BY <3>1
  <2>5. /\ m \in WireMessages /\ m.ch = ServerEnd(k) /\ m.type = "CHANNEL_WINDOW_ADJUST"
        /\ m.req = "none"
    <3>1. /\ ServerEnd(k) \in Ends /\ "CHANNEL_WINDOW_ADJUST" \in Types
          /\ Unadvertised(channels[k], Msg.len) \in 0..U32_MAX
      BY <1>1, <2>1, <2>3, Numbers, ChannelAssumption
      DEF TypeOK, ChannelRecords, WireMessages, Types, Unadvertised, SaturatingAdd, Lesser
    <3> QED
      BY <3>1, MessageTypes, SizedFields
  <2> HIDE DEF m
  <2>6. "none" \notin SetupRequests /\ ServerEnd(k) # k /\ ServerEnd(k) # None
    BY <1>1, Numbers DEF SetupRequests
  <2>7. SentOn(k) /\ (Outbox(k)' = Outbox(k) \cup {m} \/ Outbox(k)' = Outbox(k))
    <3>1. CASE Send(<<m>>)
      BY <1>1, <2>2, <2>5, <2>6, <3>1, SendsMore
    <3>2. CASE Send(<<>>)
      BY <2>3, <3>2, SendsNone DEF SentOn, Outbox, Held
    <3> QED
      BY <2>4, <3>1, <3>2
  <2>8. /\ DOMAIN channels' = DOMAIN channels
        /\ \A id \in DOMAIN channels \ {k} : channels'[id] = channels[id]
        /\ channels'[k].remote_id = channels[k].remote_id
    BY <2>1, <2>3, <2>4 DEF TypeOK, ChannelRecords, OnDataConsumed
  <2>9. Life(k)' = "open" /\ channels'[k].remote_id = ServerEnd(k)
    BY <2>1, <2>3, <2>6, <2>8, LifeCasesNext DEF Known
  <2>10. \A id : Step(id)' = Step(id)
    BY <2>4, SameSteps DEF setupVars
  <2>11. /\ Told(k)' = Told(k) \cup {"ChannelData"}
         /\ \A id \in Ids \ {k} : events'[id] = events[id]
    BY <1>1, <2>3, <2>4, Reports DEF Events
  <2>12. srv'[k] = srv[k] /\ Closer(k)' = Closer(k)
    BY DEF serverVars, hostVars, Closer
  <2>13. ChannelInv(k)'
    BY <1>1, <2>2, <2>5, <2>6, <2>7, <2>9, <2>10, <2>11, <2>12
    DEF ChannelInv, Fits, FitsIn, FitsOut, EndsMatch, SetupMatches, SetupProceeds,
        EventsMatch, Replies
  <2> QED
    BY <1>0, <1>1, <2>4, <2>6, <2>7, <2>8, <2>9, <2>10, <2>11, <2>13, Handled DEF Calm
<1> QED
  BY <1>2, <1>3

LEMMA EofHandled ==
    ASSUME ConnectionInv, HandleEof, UNCHANGED <<serverVars, hostVars>>
    PROVE  ProtocolInv'
<1>0. Arrived("CHANNEL_EOF")
  BY DEF HandleEof
<1> PICK k : k = Msg.ch
  OBVIOUS
<1>1. /\ k \in Ids /\ Msg \in Inbox(k) /\ ChannelInv(k)
      /\ Inbox(k) = Inbox(k)' \cup {Msg} /\ \A m \in Inbox(k)' : MayFollow(Msg, m)
      /\ Msg.type = "CHANNEL_EOF"
  BY <1>0, Receipt
<1>2. CASE UnknownChannel
  BY <1>0, <1>2, UnknownHandled
<1>3. CASE ~UnknownChannel
  <2>1. /\ k \in DOMAIN channels
        /\ channels' = [channels EXCEPT ![k].lifecycle = "EofSent"]
        /\ Report(k, "ChannelEof") /\ UNCHANGED <<setupVars, to_server>> /\ Calm
    BY <1>3 DEF HandleEof
  <2>2. Life(k) = "open"
    BY <1>0, <2>1, FindsEnd
  <2>3. TypeOK /\ TableInv /\ Known(k) /\ channels[k].remote_id = ServerEnd(k)
    BY <1>1, <2>2, KnownEnd DEF ConnectionInv, ProtocolInv
  <2>4. /\ DOMAIN channels' = DOMAIN channels
        /\ \A id \in DOMAIN channels \ {k} : channels'[id] = channels[id]
        /\ channels'[k].remote_id = channels[k].remote_id
    BY <2>1, <2>3 DEF TypeOK, ChannelRecords
  <2>5. Life(k)' = "open" /\ channels'[k].remote_id = ServerEnd(k) /\ ServerEnd(k) # None
    BY <1>1, <2>1, <2>3, <2>4, LifeCasesNext, Numbers DEF Known
  <2>6. \A id : Step(id)' = Step(id)
    BY <2>1, SameSteps DEF setupVars
  <2>7. /\ Told(k)' = Told(k) \cup {"ChannelEof"}
        /\ \A id \in Ids \ {k} : events'[id] = events[id]
    BY <1>1, <2>1, <2>3, Reports DEF Events
  <2>8. srv'[k] = srv[k] /\ Closer(k)' = Closer(k) /\ Outbox(k)' = Outbox(k)
    BY <2>1 DEF serverVars, hostVars, Closer, Outbox, Held
  <2>9. ChannelInv(k)'
    BY <1>1, <2>2, <2>5, <2>6, <2>7, <2>8
    DEF ChannelInv, Fits, FitsIn, FitsOut, EndsMatch, SetupMatches, SetupProceeds,
        EventsMatch, MayFollow, Replies
  <2> QED
    BY <1>0, <1>1, <2>1, <2>4, <2>5, <2>6, <2>7, <2>9, Handled DEF Calm, SentOn
<1> QED
  BY <1>2, <1>3

LEMMA CloseHandled ==
    ASSUME ConnectionInv, HandleClose, UNCHANGED <<serverVars, hostVars>>
    PROVE  ProtocolInv'
<1>0. Arrived("CHANNEL_CLOSE")
  BY DEF HandleClose
<1> PICK k : k = Msg.ch
  OBVIOUS
<1>1. /\ k \in Ids /\ Msg \in Inbox(k) /\ ChannelInv(k)
      /\ Inbox(k) = Inbox(k)' \cup {Msg} /\ \A m \in Inbox(k)' : MayFollow(Msg, m)
      /\ FitsIn(Msg, k, Life(k), Step(k), srv[k])
      /\ Msg.type = "CHANNEL_CLOSE" /\ Life(k) # "unused"
      /\ Life(k) = "opening" => srv[k].state = "refused"
  BY <1>0, Receipt
<1>2. /\ TypeOK /\ channels' = Without(channels, k) /\ Report(k, "ChannelClosed")
      /\ UNCHANGED <<setupVars, to_server>> /\ Calm
  BY DEF ConnectionInv, HandleClose
<1>3. /\ srv[k].state = "open" /\ srv[k].closeSent /\ Life(k) \in {"open", "gone"}
      /\ Inbox(k)' = {}
  BY <1>1, LifeCases DEF FitsIn, MayFollow
<1>4. \A id : Step(id)' = Step(id)
  BY <1>2, SameSteps DEF setupVars
<1>5. /\ DOMAIN channels' = DOMAIN channels \ {k}
      /\ \A id \in DOMAIN channels \ {k} : channels'[id] = channels[id]
  BY <1>2, WithoutKey
<1>6. /\ Told(k)' = Told(k) \cup {"ChannelClosed"} /\ events'[k] # <<>>
      /\ \A id \in Ids \ {k} : events'[id] = events[id]
  BY <1>1, <1>2, Reports DEF Events
<1>7. Life(k)' = "gone"
  BY <1>5, <1>6, LifeCasesNext DEF Known
<1>8. srv'[k] = srv[k] /\ Closer(k)' = Closer(k) /\ Outbox(k)' = Outbox(k)
  BY <1>2 DEF serverVars, hostVars, Closer, Outbox, Held
<1>9. ChannelInv(k)'
  BY <1>1, <1>3, <1>4, <1>6, <1>7, <1>8
  DEF ChannelInv, Fits, FitsIn, FitsOut, EndsMatch, SetupMatches, SetupProceeds, EventsMatch
<1> QED
  BY <1>0, <1>1, <1>2, <1>4, <1>5, <1>6, <1>7, <1>9, Handled DEF Calm, SentOn

LEMMA RequestHandled ==
    ASSUME ConnectionInv, HandleRequest, UNCHANGED <<serverVars, hostVars>>
    PROVE  ProtocolInv'
<1>0. Arrived("CHANNEL_REQUEST")
  BY DEF HandleRequest
<1> PICK k : k = Msg.ch
  OBVIOUS
<1>1. /\ k \in Ids /\ Msg \in Inbox(k) /\ ChannelInv(k)
      /\ Inbox(k) = Inbox(k)' \cup {Msg} /\ \A m \in Inbox(k)' : MayFollow(Msg, m)
      /\ FitsIn(Msg, k, Life(k), Step(k), srv[k])
      /\ Msg.type = "CHANNEL_REQUEST"
  BY <1>0, Receipt
<1>2. CASE UnknownChannel
  BY <1>0, <1>2, UnknownHandled
<1>3. CASE ~UnknownChannel
  <2>1. k \in DOMAIN channels
    BY <1>3 DEF HandleRequest
  <2>2. Life(k) = "open"
    BY <1>0, <2>1, FindsEnd
  <2>3. TypeOK /\ TableInv /\ Known(k) /\ channels[k].remote_id = ServerEnd(k)
    BY <1>1, <2>2, KnownEnd DEF ConnectionInv, ProtocolInv
  <2>4. channels' = channels /\ UNCHANGED setupVars /\ Calm
    BY <1>3, <2>3 DEF HandleRequest
  <2>5. /\ channels[k].remote_max_packet > 0 => channels[k].remote_id # None
        /\ Life(k)' = "open"
    BY <2>1, <2>3, <2>4, LifeCasesNext DEF TableInv, Remotes, Known
  <2>6. \A id : Step(id)' = Step(id)
    BY <2>4, SameSteps DEF setupVars
  <2>7. srv'[k] = srv[k] /\ Closer(k)' = Closer(k) /\ ServerEnd(k) # k
    BY <1>1, Numbers DEF serverVars, hostVars, Closer
  <2>8. CASE Msg.req \in {"exit-status", "exit-signal"}
    <3>1. Report(k, "ChannelExitStatus") /\ to_server' = to_server
      BY <1>3, <2>8 DEF HandleRequest
    <3>2. /\ Told(k)' = Told(k) \cup {"ChannelExitStatus"}
          /\ \A id \in Ids \ {k} : events'[id] = events[id]
      BY <1>1, <2>3, <3>1, Reports DEF Events
    <3>3. Outbox(k)' = Outbox(k)
      BY <3>1 DEF Outbox, Held
    <3>4. ChannelInv(k)'
      BY <1>1, <2>2, <2>5, <2>6, <2>7, <2>8, <3>2, <3>3
      DEF ChannelInv, Fits, FitsIn, FitsOut, EndsMatch, SetupMatches, SetupProceeds,
          EventsMatch, MayFollow, ExitRequests, Replies
    <3> QED
      BY <1>0, <1>1, <2>3, <2>4, <2>5, <2>6, <3>1, <3>2, <3>4, Handled DEF Calm, SentOn
  <2>9. CASE Msg.req \notin {"exit-status", "exit-signal"}
    <3> DEFINE m == Message("CHANNEL_FAILURE", ServerEnd(k))
    <3>1. events' = events /\ (Send(<<m>>) \/ Send(<<>>))
      <4>1. Send(IF Msg.len = 1 THEN <<m>> ELSE <<>>) /\ events' = events
        BY <1>3, <2>3, <2>9 DEF HandleRequest
      <4> QED
        BY <4>1
    <3>2. /\ m \in WireMessages /\ m.ch = ServerEnd(k) /\ m.type = "CHANNEL_FAILURE"
          /\ m.req = "none" /\ "none" \notin SetupRequests
      <4>1. /\ ServerEnd(k) \in Ends /\ "CHANNEL_FAILURE" \in Types
            /\ "none" \notin SetupRequests
        BY <1>1, Numbers DEF Types, SetupRequests
      <4> QED
        BY <4>1, MessageTypes, MessageFields
    <3> HIDE DEF m
    <3>3. SentOn(k) /\ (Outbox(k)' = Outbox(k) \cup {m} \/ Outbox(k)' = Outbox(k))
      <4>1. CASE Send(<<m>>)
        BY <1>1, <2>2, <3>2, <4>1, SendsMore
      <4>2. CASE Send(<<>>)
        BY <2>3, <4>2, SendsNone DEF SentOn, Outbox, Held
      <4> QED
        BY <3>1, <4>1, <4>2
    <3>4. Told(k)' = Told(k)
      BY <3>1 DEF Told, Held
    <3>5. ChannelInv(k)'
      BY <1>1, <2>2, <2>5, <2>6, <2>7, <3>2, <3>3, <3>4
      DEF ChannelInv, Fits, FitsIn, FitsOut, EndsMatch, SetupMatches, SetupProceeds,
          EventsMatch, Replies
    <3> QED
      BY <1>0, <1>1, <2>3, <2>4, <2>5, <2>6, <3>1, <3>3, <3>5, Handled DEF Calm
  <2> QED
    BY <2>8, <2>9
<1> QED
  BY <1>2, <1>3

\* No message a server of this module may send is one the client does not expect.
LEMMA ClientHandlesKeeps ==
    ASSUME ConnectionInv, ClientHandles
    PROVE  ProtocolInv'
BY ConfirmationHandled, OpenFailureHandled, SuccessHandled, FailureHandled,
   WindowAdjustHandled, DataHandled, EofHandled, CloseHandled, RequestHandled
DEF ClientHandles, HandleMessage

-----------------------------------------------------------------------------
\* The host calls.

\* What it sends of one byte is one message of that byte, if the window is open.
LEMMA OneByte ==
    ASSUME TypeOK, NEW k \in DOMAIN channels
    PROVE  \/ DataMessages(k, 1) = <<>>
           \/ /\ Writable(k)
              /\ DataMessages(k, 1) = <<Sized("CHANNEL_DATA", channels[k].remote_id, 1)>>
<1> DEFINE ch == channels[k]
           p == ch.remote_max_packet
           w == ch.remote_window
           n == IF Writable(k) THEN Messages(ch, 1) ELSE 0
           m == [i \in 1..n |-> Sized("CHANNEL_DATA", ch.remote_id,
                                      SentAfter(ch, 1, i) - SentAfter(ch, 1, i - 1))]
<1>1. p \in Nat /\ w \in Nat
  BY ChannelAssumption DEF TypeOK, ChannelRecords
<1>2. DataMessages(k, 1) = m
  BY DEF DataMessages
<1>3. CASE ~Writable(k) \/ w = 0
  <2>1. n = 0
    <3>1. CASE Writable(k)
      <4>1. p > 0 /\ Consumed(ch, 1) = 0
        BY <1>1, <1>3, <3>1 DEF Writable, Consumed, Lesser
      <4>2. (p - 1) \div p = 0
        BY <1>1, <4>1
      <4>3. Consumed(ch, 1) + p - 1 = p - 1
        BY <1>1, <4>1
      <4>4. Messages(ch, 1) = (p - 1) \div p
        <5> HIDE DEF p
        <5> QED
          BY <4>3 DEF Messages, p
      <4> QED
        BY <3>1, <4>2, <4>4
    <3> QED
      BY <3>1
  <2> QED
    BY <1>2, <2>1
<1>4. CASE Writable(k) /\ w > 0
  <2>1. p > 0 /\ Consumed(ch, 1) = 1
    BY <1>1, <1>4 DEF Writable, Consumed, Lesser
  <2>2. n = 1
    <3>1. p \div p = 1 /\ 1 + p - 1 = p
      BY <1>1, <2>1
    <3> QED
      BY <1>4, <2>1, <3>1 DEF Messages
  <2>3. SentAfter(ch, 1, 1) - SentAfter(ch, 1, 1 - 1) = 1
    BY <1>1, <2>1 DEF SentAfter, Lesser
  <2>4. m[1] = Sized("CHANNEL_DATA", ch.remote_id, 1)
    BY <2>2, <2>3
  <2>5. m = <<m[1]>>
    <3> HIDE DEF n
    <3> QED
      BY <2>2
  <2> QED
    BY <1>2, <1>4, <2>4, <2>5
<1> QED
  BY <1>1, <1>3, <1>4

LEMMA HostSendsKeeps ==
    ASSUME ConnectionInv, HostSends
    PROVE  ProtocolInv'
<1>1. PICK k \in Ids \ closedByHost : ChannelSend(k, 1)
  BY DEF HostSends
<1>2. TypeOK /\ TableInv /\ ChannelInv(k) /\ InOrder(to_client)
  BY <1>1 DEF ConnectionInv, ProtocolInv
<1>3. /\ k \in DOMAIN channels /\ Send(DataMessages(k, 1))
      /\ channels' = IF Writable(k) THEN [channels EXCEPT ![k] = AfterData(channels[k], 1)] ELSE channels
      /\ Report(k, "ChannelWindowFull") \/ events' = events
      /\ UNCHANGED <<phase, next_id, setupVars, panicked, to_client>>
      /\ UNCHANGED <<serverVars, closedByHost>>
  BY <1>1 DEF ChannelSend, HostSends, Calls
<1>4. /\ DOMAIN channels' = DOMAIN channels
      /\ \A id \in DOMAIN channels \ {k} : channels'[id] = channels[id]
      /\ channels'[k].remote_id = channels[k].remote_id
      /\ channels'[k].remote_max_packet = channels[k].remote_max_packet
  BY <1>2, <1>3 DEF TypeOK, ChannelRecords, AfterData
<1>5. /\ Told(k)' = Told(k) \/ Told(k)' = Told(k) \cup {"ChannelWindowFull"}
      /\ \A id \in Ids \ {k} : events'[id] = events[id]
  <2>1. CASE events' = events
    BY <2>1 DEF Told, Held
  <2>2. CASE Report(k, "ChannelWindowFull")
    BY <1>1, <1>2, <2>2, Reports DEF Events
  <2> QED
    BY <1>3, <2>1, <2>2
<1>6. /\ Life(k) \in {"opening", "open"} /\ Life(k)' = Life(k)
      /\ Writable(k) => Life(k) = "open"
  BY <1>2, <1>3, <1>4, LifeCases, LifeCasesNext DEF Known, Writable, TableInv, Remotes
<1>7. \A id : Step(id)' = Step(id)
  BY <1>3, SameSteps DEF setupVars
<1>8. /\ srv'[k] = srv[k] /\ Closer(k)' = Closer(k) /\ Inbox(k)' = Inbox(k)
      /\ Closer(k) = "none"
  BY <1>1, <1>3 DEF serverVars, Closer, Inbox, Held
<1>9. /\ channels[k].remote_id \in {None, ServerEnd(k)}
      /\ channels[k].remote_max_packet > 0 => channels[k].remote_id # None
      /\ Life(k) = "open" => channels[k].remote_id = ServerEnd(k)
  BY <1>1, <1>2, <1>3, KnownEnd DEF TableInv, Remotes
<1>10. /\ InOrder(to_client') /\ Held(to_client)' \subseteq Held(to_client)
       /\ \A id \in Ids : Inbox(id)' = Inbox(id)
  BY <1>2, <1>3 DEF InOrder, Held, Inbox
<1>11. SentOn(k) /\ ChannelInv(k)'
  <2>1. CASE DataMessages(k, 1) = <<>>
    <3>1. to_server' = to_server /\ Outbox(k)' = Outbox(k)
      BY <1>2, <1>3, <2>1, SendsNone DEF Outbox, Held
    <3>2. ChannelInv(k)'
      BY <1>2, <1>5, <1>6, <1>7, <1>8, <3>1
      DEF ChannelInv, Fits, FitsIn, FitsOut, EndsMatch, SetupMatches, SetupProceeds, EventsMatch
    <3> QED
      BY <3>1, <3>2 DEF SentOn
  <2>2. CASE DataMessages(k, 1) # <<>>
    <3> DEFINE m == Sized("CHANNEL_DATA", ServerEnd(k), 1)
    <3>1. Life(k) = "open" /\ Send(<<m>>)
      BY <1>2, <1>3, <1>6, <1>9, <2>2, OneByte
    <3>2. /\ m \in WireMessages /\ m.ch = ServerEnd(k) /\ m.type = "CHANNEL_DATA"
          /\ m.req = "none" /\ "none" \notin SetupRequests /\ ServerEnd(k) # k
      <4>1. /\ ServerEnd(k) \in Ends /\ "CHANNEL_DATA" \in Types /\ 1 \in 0..U32_MAX
            /\ "none" \notin SetupRequests /\ ServerEnd(k) # k
        BY <1>1, Numbers, ChannelAssumption DEF Types, SetupRequests
      <4> QED
        BY <4>1, MessageTypes, SizedFields
    <3> HIDE DEF m
    <3>3. SentOn(k) /\ Outbox(k)' = Outbox(k) \cup {m}
      BY <1>1, <3>1, <3>2, SendsMore
    <3>4. ChannelInv(k)'
      BY <1>2, <1>5, <1>6, <1>7, <1>8, <3>1, <3>2, <3>3
      DEF ChannelInv, Fits, FitsIn, FitsOut, EndsMatch, SetupMatches, SetupProceeds, EventsMatch
    <3> QED
      BY <3>3, <3>4
  <2> QED
    BY <2>1, <2>2
<1>12. UNCHANGED <<serverVars, next_id, panicked>>
  BY <1>3
<1> QED
  BY <1>1, <1>3, <1>4, <1>5, <1>6, <1>7, <1>9, <1>10, <1>11, <1>12, ClientMoved

\* resize_pty and close_channel send one message on a channel that is known.
LEMMA HostOnlySends ==
    ASSUME ConnectionInv, NEW k \in Ids, Known(k), NEW type, NEW m \in WireMessages,
           m.ch = ServerEnd(k), m.type = type, type \in {"CHANNEL_REQUEST", "CHANNEL_CLOSE"},
           m.req \notin SetupRequests,
           SendsOnly(<<m>>), UNCHANGED serverVars,
           closedByHost \subseteq closedByHost', closedByHost' \subseteq closedByHost \cup {k},
           type = "CHANNEL_CLOSE" => k \in closedByHost'
    PROVE  ProtocolInv'
<1>1. TypeOK /\ TableInv /\ ChannelInv(k) /\ InOrder(to_client)
  BY DEF ConnectionInv, ProtocolInv
<1>2. Send(<<m>>) /\ UNCHANGED <<clientVars, to_client>>
  BY DEF SendsOnly
<1>3. /\ UNCHANGED <<phase, channels, next_id, channel_setup, events, panicked, to_client>>
      /\ UNCHANGED <<serverVars, next_id, panicked>>
  BY <1>2 DEF clientVars, setupVars
<1>4. Life(k) = "open" /\ Life(k)' = "open"
  BY <1>3, LifeCases, LifeCasesNext DEF Known
<1>5. SentOn(k) /\ Outbox(k)' = Outbox(k) \cup {m}
  BY <1>2, <1>4, SendsMore
<1>6. \A id : Step(id)' = Step(id)
  BY <1>3, SameSteps
<1>7. /\ InOrder(to_client') /\ Held(to_client)' \subseteq Held(to_client)
      /\ \A id \in Ids : Inbox(id)' = Inbox(id) /\ Told(id)' = Told(id)
      /\ srv'[k] = srv[k] /\ ServerEnd(k) # k
      /\ Closer(k)' = "host" \/ Closer(k)' = Closer(k)
      /\ type = "CHANNEL_CLOSE" => Closer(k)' = "host"
  BY <1>1, <1>3, Numbers DEF InOrder, Held, Inbox, Told, Closer, serverVars
<1>8. ChannelInv(k)'
  BY <1>1, <1>4, <1>5, <1>6, <1>7
  DEF ChannelInv, Fits, FitsIn, FitsOut, EndsMatch, SetupMatches, SetupProceeds, EventsMatch
<1>9. k \in DOMAIN channels => /\ channels[k].remote_id \in {None, ServerEnd(k)}
                               /\ channels[k].remote_max_packet > 0 => channels[k].remote_id # None
  BY <1>1 DEF TableInv, Remotes
<1> QED
  BY <1>3, <1>4, <1>5, <1>6, <1>7, <1>8, <1>9, ClientMoved

LEMMA HostResizesKeeps ==
    ASSUME ConnectionInv, HostResizes
    PROVE  ProtocolInv'
<1>1. PICK k \in Ids \ closedByHost : ResizePty(k)
  BY DEF HostResizes
<1> DEFINE m == Request(ServerEnd(k), "window-change")
<1>2. Known(k) /\ SendsOnly(<<m>>) /\ UNCHANGED <<serverVars, closedByHost>>
  BY <1>1, LifeCases, KnownEnd DEF ResizePty, HostResizes, Calls
<1>3. /\ m \in WireMessages /\ m.ch = ServerEnd(k) /\ m.type = "CHANNEL_REQUEST"
      /\ m.req \notin SetupRequests
  <2>1. /\ ServerEnd(k) \in Ends /\ "CHANNEL_REQUEST" \in Types
        /\ "window-change" \in Requests \ SetupRequests
    BY <1>1, Numbers DEF Types, Requests, SetupRequests
  <2> QED
    BY <2>1, MessageTypes, RequestFields
<1> HIDE DEF m
<1> QED
  BY <1>1, <1>2, <1>3, HostOnlySends

LEMMA HostClosesKeeps ==
    ASSUME ConnectionInv, HostCloses
    PROVE  ProtocolInv'
<1>1. PICK k \in Ids \ closedByHost :
         CloseChannel(k) /\ closedByHost' = closedByHost \cup {k}
  BY DEF HostCloses
<1> DEFINE m == Message("CHANNEL_CLOSE", ServerEnd(k))
<1>2. Known(k) /\ SendsOnly(<<m>>) /\ UNCHANGED serverVars
  BY <1>1, LifeCases, KnownEnd DEF CloseChannel, HostCloses, Calls
<1>3. /\ m \in WireMessages /\ m.ch = ServerEnd(k) /\ m.type = "CHANNEL_CLOSE"
      /\ m.req \notin SetupRequests
  <2>1. ServerEnd(k) \in Ends /\ "CHANNEL_CLOSE" \in Types /\ "none" \notin SetupRequests
    BY <1>1, Numbers DEF Types, SetupRequests
  <2> QED
    BY <2>1, MessageTypes, MessageFields
<1> HIDE DEF m
<1> QED
  BY <1>1, <1>2, <1>3, HostOnlySends

\* An id is taken once only: next_id does not come round.
LEMMA HostOpensKeeps ==
    ASSUME ConnectionInv, HostOpens
    PROVE  ProtocolInv'
<1> DEFINE m == Message("CHANNEL_OPEN", next_id)
<1> PICK k : k = next_id
  OBVIOUS
<1>1. /\ TypeOK /\ ProtocolInv /\ TableInv /\ k \in Ids /\ k + 1 \in Ids /\ next_id < MaxOpens
  <2>1. TypeOK /\ ProtocolInv /\ TableInv
    BY DEF ConnectionInv, ProtocolInv
  <2>2. next_id < MaxOpens /\ next_id \in Ids
    BY <2>1 DEF HostOpens, TypeOK
  <2>3. k + 1 \in Ids
    BY <2>2, HostAssumption, IdAssumption DEF Ids
  <2> QED
    BY <2>1, <2>2, <2>3
<1>2. ChannelInv(k)
  BY <1>1 DEF ConnectionInv, ProtocolInv
<1>3. PICK kind \in {"Exec", "Shell"}, step \in {"AwaitingExecReply", "AwaitingPtyReply"} :
         Open(kind, step, "CHANNEL_OPEN")
  BY DEF HostOpens, OpenExec, OpenShell
<1>4. /\ channels' = Put(channels, k, ChannelNew(kind))
      /\ channel_setup' = Put(channel_setup, k, step)
      /\ next_id' = (k + 1) % ID_SPACE
      /\ Send(<<m>>)
      /\ UNCHANGED <<phase, events, panicked, to_client>>
  BY <1>3 DEF Open
<1>5. next_id' = k + 1
  <2>1. k \in Nat /\ ID_SPACE \in Nat /\ k + 1 < ID_SPACE
    BY <1>1, IdAssumption DEF Ids
  <2>2. (k + 1) % ID_SPACE = k + 1
    BY <2>1
  <2> QED
    BY <1>4, <2>2
<1>6. srv' = srv /\ strays' = strays /\ closedByHost' = closedByHost
  BY DEF HostOpens, serverVars, hostVars
<1>7. Life(k) = "unused" /\ Inbox(k) = {} /\ Outbox(k) = {} /\ Told(k) = {}
  <2>1. Life(k) = "unused"
    BY <1>1 DEF TableInv, Ids
  <2> QED
    BY <1>2, <2>1
    DEF ChannelInv, Fits, FitsIn, FitsOut, EndsMatch, EventsMatch
<1>8. /\ m \in WireMessages /\ m.ch = k /\ m.type = "CHANNEL_OPEN" /\ m.req = "none"
      /\ "none" \notin SetupRequests
  <2>1. "CHANNEL_OPEN" \in Types /\ "none" \notin SetupRequests
    BY DEF Types, SetupRequests
  <2> QED
    BY <1>1, <2>1, MessageTypes, MessageFields
<1> HIDE DEF m
<1>9. /\ Held(to_server)' = Held(to_server) \cup {m}
      /\ Outbox(k)' = {m}
      /\ \A id \in Ids \ {k} : Outbox(id)' = Outbox(id)
      /\ OutOrder(to_server', closedByHost)
  BY <1>1, <1>4, <1>7, <1>8, SendsOne DEF ProtocolInv
<1>10. /\ DOMAIN channels' = DOMAIN channels \cup {k}
       /\ \A id \in DOMAIN channels \ {k} : channels'[id] = channels[id]
       /\ channels'[k].remote_id = None /\ channels'[k].remote_max_packet = 0
  BY <1>4 DEF Put, ChannelNew
<1>11. /\ Step(k)' = step
       /\ \A id \in Ids \ {k} : Step(id)' = Step(id)
  BY <1>4 DEF Step, Put
<1>12. Life(k)' = "opening"
  BY <1>10, LifeCasesNext DEF Known
<1>13. /\ InOrder(to_client') /\ Held(to_client)' = Held(to_client)
       /\ \A id \in Ids : Inbox(id)' = Inbox(id) /\ Told(id)' = Told(id) /\ Closer(id)' = Closer(id)
  BY <1>1, <1>4, <1>6 DEF ProtocolInv, InOrder, Held, Inbox, Told, Closer
<1>14. ChannelInv(k)'
  BY <1>1, <1>2, <1>3, <1>6, <1>7, <1>8, <1>9, <1>11, <1>12, <1>13
  DEF ChannelInv, Fits, FitsIn, FitsOut, EndsMatch, SetupMatches, SetupProceeds, EventsMatch
<1>15. \A id \in Ids \ {k} : Life(id)' = Life(id)
  <2>1. ASSUME NEW id \in Ids \ {k} PROVE Life(id)' = Life(id)
    BY <1>4, <1>10, SameLife
  <2> QED
    BY <2>1
<1>16. \A id \in Ids : ChannelInv(id)'
  BY <1>1, <1>4, <1>6, <1>9, <1>11, <1>13, <1>14, <1>15, OthersKeep
<1>17. TableInv'
  <2>1. \A id \in Ids : Life(id)' = "unused" <=> next_id' <= id
    BY <1>1, <1>5, <1>12, <1>15 DEF TableInv, Ids
  <2>2. Remotes(channels')
    BY <1>1, <1>10 DEF TableInv, Remotes
  <2>3. /\ \A a \in Held(to_server)' : a.type = "CHANNEL_OPEN" <=> a.ch \in Ids
        /\ \A a \in Held(to_client)' : a.ch \in Ids
    BY <1>1, <1>8, <1>9, <1>13 DEF TableInv
  <2> QED
    BY <2>1, <2>2, <2>3 DEF TableInv, Remotes
<1> QED
  BY <1>1, <1>4, <1>6, <1>9, <1>13, <1>16, <1>17 DEF ProtocolInv, InOrder, OutOrder

-----------------------------------------------------------------------------
\* The server reads.

LEMMA ServerRead ==
    ASSUME ConnectionInv, NEW k \in Ids, Asked.ch \in {k, ServerEnd(k)},
           to_server # <<>>, to_server' = Tail(to_server),
           UNCHANGED <<clientVars, to_client, hostVars>>,
           \A id \in Ids \ {k} : srv'[id] = srv[id],
           strays' # {} => closedByHost # {},
           ChannelInv(k)'
    PROVE  ProtocolInv'
<1>1. TypeOK /\ ProtocolInv /\ TableInv
  BY DEF ConnectionInv, ProtocolInv
<1>2. /\ Held(to_server)' \subseteq Held(to_server)
      /\ OutOrder(to_server', closedByHost)
      /\ \A id \in Ids \ {k} : Outbox(id)' = Outbox(id)
  BY <1>1, ServerTakes DEF ProtocolInv
<1>3. /\ UNCHANGED <<phase, channels, next_id, channel_setup, events, panicked, to_client>>
      /\ closedByHost' = closedByHost
  BY DEF clientVars, setupVars, hostVars
<1>4. \A id : Life(id)' = Life(id)
  BY <1>3, SameLife
<1>5. \A id \in Ids : /\ Step(id)' = Step(id) /\ Closer(id)' = Closer(id)
                      /\ Inbox(id)' = Inbox(id)
  BY <1>3, SameSteps DEF Closer, Inbox, Held
<1>6. \A id \in Ids : ChannelInv(id)'
  BY <1>2, <1>3, <1>4, <1>5, OthersKeep
<1>7. TableInv'
  <2>1. Held(to_client)' = Held(to_client)
    BY <1>3 DEF Held
  <2> QED
    BY <1>1, <1>2, <1>3, <1>4, <2>1 DEF TableInv, Remotes
<1> QED
  BY <1>1, <1>2, <1>3, <1>6, <1>7 DEF ProtocolInv, InOrder, OutOrder

\* What stays the same of a channel when the server reads.
LEMMA ReadKeeps ==
    ASSUME NEW k \in Ids, UNCHANGED <<clientVars, to_client, hostVars>>
    PROVE  /\ Life(k)' = Life(k) /\ Step(k)' = Step(k) /\ Closer(k)' = Closer(k)
           /\ Inbox(k)' = Inbox(k) /\ Told(k)' = Told(k)
<1>1. /\ UNCHANGED <<phase, channels, next_id, channel_setup, events, panicked, to_client>>
      /\ closedByHost' = closedByHost
  BY DEF clientVars, setupVars, hostVars
<1> QED
  BY <1>1, SameLife, SameSteps DEF Closer, Inbox, Told, Held

LEMMA ReceiveOpenKeeps ==
    ASSUME ConnectionInv, ReceiveOpen, UNCHANGED hostVars
    PROVE  ProtocolInv'
<1>1. /\ to_server # <<>> /\ to_server' = Tail(to_server) /\ Asked.type = "CHANNEL_OPEN"
      /\ srv' = [srv EXCEPT ![Asked.ch] = [NoEnd EXCEPT !.state = "asked"]]
      /\ strays' = strays /\ UNCHANGED <<clientVars, to_client, hostVars>>
  BY DEF ReceiveOpen, Reads, Asked
<1>2. TypeOK /\ TableInv /\ OutOrder(to_server, closedByHost) /\ ProtocolInv
  BY DEF ConnectionInv, ProtocolInv
<1> PICK k : k = Asked.ch
  OBVIOUS
<1>3. k \in Ids
  <2>1. Asked \in Held(to_server)
    BY <1>1, <1>2, Popped DEF Asked, TypeOK
  <2> QED
    BY <1>1, <1>2, <2>1 DEF TableInv
<1>4. /\ Asked \in Outbox(k) /\ Outbox(k) = Outbox(k)' \cup {Asked}
      /\ \A m \in Outbox(k)' : m.ch = Asked.ch => MayFollowOut(Asked, m, closedByHost)
  BY <1>1, <1>2, <1>3, ServerTakes
<1>5. ChannelInv(k)
  BY <1>2, <1>3 DEF ProtocolInv
<1>6. Life(k) = "opening" /\ srv[k].state = "none" /\ Inbox(k) = {} /\ Outbox(k)' = {}
  BY <1>1, <1>4, <1>5 DEF ChannelInv, Fits, FitsIn, FitsOut, MayFollowOut
<1>7. /\ srv'[k].state = "asked" /\ ~srv'[k].started /\ ~srv'[k].denied /\ ~srv'[k].closeGot
      /\ srv'[k].asked = <<>>
      /\ \A id \in Ids \ {k} : srv'[id] = srv[id]
  BY <1>1, <1>2, <1>3 DEF TypeOK, NoEnd
<1>8. /\ Life(k)' = Life(k) /\ Step(k)' = Step(k) /\ Closer(k)' = Closer(k)
      /\ Inbox(k)' = Inbox(k) /\ Told(k)' = Told(k)
  BY <1>1, <1>3, ReadKeeps
<1>9. ChannelInv(k)'
  BY <1>5, <1>6, <1>7, <1>8
  DEF ChannelInv, Fits, FitsIn, FitsOut, EndsMatch, SetupMatches, SetupProceeds, EventsMatch
<1> QED
  BY <1>1, <1>2, <1>3, <1>7, <1>9, ServerRead DEF ProtocolInv

\* What the server finds when it reads any other message: an end that exists,
\* and that only a host which closed the channel twice has it find closed.
LEMMA Receives ==
    ASSUME ConnectionInv, NEW type, type # "CHANNEL_OPEN", NEW end, Receive(type, end),
           UNCHANGED hostVars, NEW k, k = ClientEnd(Asked.ch)
    PROVE  /\ k \in Ids /\ Asked.ch = ServerEnd(k) /\ Asked.type = type /\ Asked \in WireMessages
           /\ to_server # <<>> /\ to_server' = Tail(to_server)
           /\ UNCHANGED <<clientVars, to_client, hostVars>>
           /\ ChannelInv(k) /\ FitsOut(Asked, k, Life(k), Step(k), srv[k], Inbox(k), Closer(k))
           /\ Asked \in Outbox(k) /\ Outbox(k) = Outbox(k)' \cup {Asked}
           /\ \A m \in Outbox(k)' : m.ch = ServerEnd(k) /\ MayFollowOut(Asked, m, closedByHost)
           /\ \A id \in Ids \ {k} : srv'[id] = srv[id]
           /\ \/ srv' = [srv EXCEPT ![k] = end] /\ strays' = strays /\ ~srv[k].closeGot
              \/ srv' = srv /\ srv[k].closeGot /\ Closer(k) = "host"
           /\ strays' # {} => closedByHost # {}
<1>1. TypeOK /\ TableInv /\ OutOrder(to_server, closedByHost) /\ ProtocolInv
  BY DEF ConnectionInv, ProtocolInv
<1>2. /\ to_server # <<>> /\ to_server' = Tail(to_server) /\ Asked.type = type
      /\ UNCHANGED <<clientVars, to_client, hostVars>>
  BY DEF Receive, Reads, Asked
<1>3. Asked \in Held(to_server) /\ Asked \in WireMessages
  BY <1>1, <1>2, Popped DEF Asked, TypeOK
<1>4. Asked.ch \in Ends
  BY <1>1, <1>2, <1>3 DEF TableInv, WireMessages
<1>5. k \in Ids /\ Asked.ch = ServerEnd(k)
  BY <1>4, Numbers
<1>6. /\ Asked \in Outbox(k) /\ Outbox(k) = Outbox(k)' \cup {Asked}
      /\ \A m \in Outbox(k)' : m.ch = Asked.ch => MayFollowOut(Asked, m, closedByHost)
  BY <1>1, <1>2, <1>5, ServerTakes
<1>7. ChannelInv(k) /\ FitsOut(Asked, k, Life(k), Step(k), srv[k], Inbox(k), Closer(k))
  BY <1>1, <1>5, <1>6 DEF ProtocolInv, ChannelInv, Fits
<1>8. srv[k].state = "open" /\ (Closer(k) = "none" => ~srv[k].closeGot)
  BY <1>2, <1>7 DEF FitsOut
<1>9. \A m \in Outbox(k)' : m.ch = ServerEnd(k)
  <2>1. ASSUME NEW m \in Outbox(k)' PROVE m.ch # k
    <3>1. FitsOut(m, k, Life(k), Step(k), srv[k], Inbox(k), Closer(k))
      BY <1>6, <1>7, <2>1 DEF ChannelInv, Fits
    <3> QED
      BY <1>8, <3>1 DEF FitsOut
  <2> QED
    BY <2>1 DEF Outbox
<1>10. IF Reaches(k)
       THEN srv' = [srv EXCEPT ![k] = end] /\ UNCHANGED strays
       ELSE strays' = strays \cup {Asked.type} /\ UNCHANGED srv
  BY DEF Receive
<1>11. Reaches(k) <=> ~srv[k].closeGot
  BY <1>5, <1>8 DEF Reaches
<1>12. Closer(k) \in {"host", "none"} /\ (Closer(k) = "host" => closedByHost # {})
  BY DEF Closer
<1>13. strays' # {} => closedByHost # {}
  BY <1>1, <1>8, <1>10, <1>11, <1>12 DEF ProtocolInv
<1>14. \A id \in Ids \ {k} : srv'[id] = srv[id]
  BY <1>1, <1>10 DEF TypeOK
<1>15. \/ srv' = [srv EXCEPT ![k] = end] /\ strays' = strays /\ ~srv[k].closeGot
       \/ srv' = srv /\ srv[k].closeGot /\ Closer(k) = "host"
  BY <1>8, <1>10, <1>11, <1>12
<1> QED
  BY <1>2, <1>3, <1>5, <1>6, <1>7, <1>9, <1>13, <1>14, <1>15

LEMMA ReceiveRequestKeeps ==
    ASSUME ConnectionInv, ReceiveRequest, UNCHANGED hostVars
    PROVE  ProtocolInv'
<1> PICK k : k = ClientEnd(Asked.ch)
  OBVIOUS
<1> DEFINE end == IF Asked.req \in SetupRequests
                  THEN [srv[k] EXCEPT !.asked = Append(@, Asked.req)]
                  ELSE srv[k]
<1>1. Receive("CHANNEL_REQUEST", end)
  BY DEF ReceiveRequest
<1> HIDE DEF end
<1>2. /\ k \in Ids /\ Asked.ch = ServerEnd(k) /\ Asked.type = "CHANNEL_REQUEST"
      /\ to_server # <<>> /\ to_server' = Tail(to_server)
      /\ UNCHANGED <<clientVars, to_client, hostVars>>
      /\ ChannelInv(k) /\ FitsOut(Asked, k, Life(k), Step(k), srv[k], Inbox(k), Closer(k))
      /\ Asked \in Outbox(k) /\ Outbox(k) = Outbox(k)' \cup {Asked}
      /\ \A m \in Outbox(k)' : m.ch = ServerEnd(k) /\ MayFollowOut(Asked, m, closedByHost)
      /\ \A id \in Ids \ {k} : srv'[id] = srv[id]
      /\ strays' # {} => closedByHost # {}
  BY <1>1, Receives
<1>3. \/ srv' = [srv EXCEPT ![k] = end] /\ ~srv[k].closeGot
      \/ srv' = srv /\ srv[k].closeGot /\ Closer(k) = "host"
  BY <1>1, Receives
<1>4. /\ Life(k)' = Life(k) /\ Step(k)' = Step(k) /\ Closer(k)' = Closer(k)
      /\ Inbox(k)' = Inbox(k) /\ Told(k)' = Told(k)
  BY <1>2, ReadKeeps
<1>5. TypeOK
  BY DEF ConnectionInv
<1>6. CASE srv' = srv /\ (Asked.req \in SetupRequests => Closer(k) = "host")
  <2>1. ChannelInv(k)'
    BY <1>2, <1>4, <1>6
    DEF ChannelInv, Fits, FitsIn, FitsOut, EndsMatch, SetupMatches, SetupProceeds, EventsMatch
  <2> QED
    BY <1>2, <2>1, ServerRead
<1>7. CASE srv' = [srv EXCEPT ![k] = end] /\ Asked.req \in SetupRequests
  <2>1. /\ srv[k].asked = <<>> /\ srv[k].state = "open" /\ ~srv[k].started /\ ~srv[k].denied
        /\ \A r \in Inbox(k) : r.type \notin Replies
        /\ Life(k) = "open" => Step(k) # "none" /\ Asked.req = Awaited[Step(k)]
        /\ Life(k) \in {"open", "gone"}
    BY <1>2, <1>7 DEF FitsOut
  <2>2. \A m \in Outbox(k)' : m.req \notin SetupRequests
    BY <1>2, <1>7 DEF MayFollowOut
  <2>3. srv[k] \in ServerEnds /\ srv'[k] = [srv[k] EXCEPT !.asked = Append(srv[k].asked, Asked.req)]
    BY <1>2, <1>5, <1>7 DEF TypeOK, end
  <2>4. /\ srv'[k].asked = <<Asked.req>>
        /\ srv'[k].state = srv[k].state /\ srv'[k].started = srv[k].started
        /\ srv'[k].denied = srv[k].denied /\ srv'[k].eof = srv[k].eof
        /\ srv'[k].exited = srv[k].exited /\ srv'[k].closeSent = srv[k].closeSent
        /\ srv'[k].closeGot = srv[k].closeGot
    BY <2>1, <2>3 DEF ServerEnds
  <2> DEFINE asked == <<Asked.req>>
  <2>5. Len(asked) = 1 /\ asked # <<>> /\ asked[1] = Asked.req
    OBVIOUS
  <2> HIDE DEF asked
  <2>6. srv'[k].asked = asked
    BY <2>4 DEF asked
  <2>7. ChannelInv(k)'
    BY <1>2, <1>4, <2>1, <2>2, <2>4, <2>5, <2>6
    DEF ChannelInv, Fits, FitsIn, FitsOut, EndsMatch, SetupMatches, SetupProceeds, EventsMatch
  <2> QED
    BY <1>2, <2>7, ServerRead
<1>8. CASE srv' = [srv EXCEPT ![k] = end] /\ Asked.req \notin SetupRequests
  <2>1. srv' = srv
    BY <1>2, <1>5, <1>8 DEF TypeOK, end
  <2> QED
    BY <1>6, <1>8, <2>1
<1> QED
  BY <1>3, <1>6, <1>7, <1>8

LEMMA ReceiveCloseKeeps ==
    ASSUME ConnectionInv, ReceiveClose, UNCHANGED hostVars
    PROVE  ProtocolInv'
<1> PICK k : k = ClientEnd(Asked.ch)
  OBVIOUS
<1> DEFINE end == [srv[k] EXCEPT !.closeGot = TRUE]
<1>1. Receive("CHANNEL_CLOSE", end)
  BY DEF ReceiveClose
<1> HIDE DEF end
<1>2. /\ k \in Ids /\ Asked.ch = ServerEnd(k) /\ Asked.type = "CHANNEL_CLOSE"
      /\ to_server # <<>> /\ to_server' = Tail(to_server)
      /\ UNCHANGED <<clientVars, to_client, hostVars>>
      /\ ChannelInv(k) /\ FitsOut(Asked, k, Life(k), Step(k), srv[k], Inbox(k), Closer(k))
      /\ Asked \in Outbox(k) /\ Outbox(k) = Outbox(k)' \cup {Asked}
      /\ \A m \in Outbox(k)' : m.ch = ServerEnd(k) /\ MayFollowOut(Asked, m, closedByHost)
      /\ \A id \in Ids \ {k} : srv'[id] = srv[id]
      /\ strays' # {} => closedByHost # {}
  BY <1>1, Receives
<1>3. \/ srv' = [srv EXCEPT ![k] = end]
      \/ srv' = srv
  BY <1>1, Receives
<1>4. /\ Life(k)' = Life(k) /\ Step(k)' = Step(k) /\ Closer(k)' = Closer(k)
      /\ Inbox(k)' = Inbox(k) /\ Told(k)' = Told(k)
  BY <1>2, ReadKeeps
<1>5. TypeOK
  BY DEF ConnectionInv
<1>6. /\ srv[k].state = "open" /\ Life(k) \in {"open", "gone"}
      /\ Closer(k) = "host" \/ Life(k) = "gone"
      /\ Asked.req \notin SetupRequests
  BY <1>2 DEF FitsOut
<1>7. \A m \in Outbox(k)' : Closer(k) = "host"
  <2>1. ClientEnd(Asked.ch) = k
    OBVIOUS
  <2> QED
    BY <1>2, <2>1 DEF MayFollowOut, Closer
<1>8. CASE srv' = srv
  <2>1. ChannelInv(k)'
    BY <1>2, <1>4, <1>6, <1>8
    DEF ChannelInv, Fits, FitsIn, FitsOut, EndsMatch, SetupMatches, SetupProceeds, EventsMatch
  <2> QED
    BY <1>2, <2>1, ServerRead
<1>9. CASE srv' = [srv EXCEPT ![k] = end]
  <2>1. /\ srv'[k].asked = srv[k].asked
        /\ srv'[k].state = srv[k].state /\ srv'[k].started = srv[k].started
        /\ srv'[k].denied = srv[k].denied /\ srv'[k].eof = srv[k].eof
        /\ srv'[k].exited = srv[k].exited /\ srv'[k].closeSent = srv[k].closeSent
        /\ srv'[k].closeGot
    <3>1. srv[k] \in ServerEnds /\ srv'[k] = [srv[k] EXCEPT !.closeGot = TRUE]
      BY <1>2, <1>5, <1>9 DEF TypeOK, end
    <3> QED
      BY <3>1 DEF ServerEnds
  <2>2. ChannelInv(k)'
    BY <1>2, <1>4, <1>6, <1>7, <2>1
    DEF ChannelInv, Fits, FitsIn, FitsOut, EndsMatch, SetupMatches, SetupProceeds, EventsMatch
  <2> QED
    BY <1>2, <2>2, ServerRead
<1> QED
  BY <1>3, <1>8, <1>9

LEMMA ReceiveOtherKeeps ==
    ASSUME ConnectionInv, ReceiveOther, UNCHANGED hostVars
    PROVE  ProtocolInv'
<1> PICK k : k = ClientEnd(Asked.ch)
  OBVIOUS
<1>1. PICK type \in {"CHANNEL_DATA", "CHANNEL_WINDOW_ADJUST", "CHANNEL_FAILURE"} :
         Receive(type, srv[k])
  BY DEF ReceiveOther
<1>2. /\ k \in Ids /\ Asked.ch = ServerEnd(k) /\ Asked.type = type
      /\ to_server # <<>> /\ to_server' = Tail(to_server)
      /\ UNCHANGED <<clientVars, to_client, hostVars>>
      /\ ChannelInv(k) /\ FitsOut(Asked, k, Life(k), Step(k), srv[k], Inbox(k), Closer(k))
      /\ Asked \in Outbox(k) /\ Outbox(k) = Outbox(k)' \cup {Asked}
      /\ \A id \in Ids \ {k} : srv'[id] = srv[id]
      /\ strays' # {} => closedByHost # {}
  BY <1>1, Receives
<1>3. srv'[k] = srv[k]
  <2>1. srv' = [srv EXCEPT ![k] = srv[k]] \/ srv' = srv
    BY <1>1, Receives
  <2> QED
    BY <1>2, <2>1 DEF ConnectionInv, TypeOK
<1>4. /\ Life(k)' = Life(k) /\ Step(k)' = Step(k) /\ Closer(k)' = Closer(k)
      /\ Inbox(k)' = Inbox(k) /\ Told(k)' = Told(k)
  BY <1>2, ReadKeeps
<1>5. Asked.req \notin SetupRequests
  BY <1>1, <1>2 DEF FitsOut
<1>6. ChannelInv(k)'
  BY <1>2, <1>3, <1>4, <1>5
  DEF ChannelInv, Fits, FitsIn, FitsOut, EndsMatch, SetupMatches, SetupProceeds, EventsMatch
<1> QED
  BY <1>2, <1>6, ServerRead

-----------------------------------------------------------------------------
\* The server answers, and acts of its own accord.

LEMMA Says1 ==
    ASSUME ConnectionInv, NEW k \in Ids, NEW m \in WireMessages, m.ch = k, NEW end,
           Says(k, m, end), UNCHANGED hostVars
    PROVE  /\ Life(k)' = Life(k) /\ Step(k)' = Step(k) /\ Closer(k)' = Closer(k)
           /\ Told(k)' = Told(k) /\ Outbox(k)' = Outbox(k)
           /\ Inbox(k)' = Inbox(k) \cup {m}
           /\ srv'[k] = end /\ srv[k] \in ServerEnds
           /\ ChannelInv(k)
           /\ (\A a \in Inbox(k) : MayFollow(a, m)) /\ ChannelInv(k)' => ProtocolInv'
<1>1. TypeOK /\ ProtocolInv /\ TableInv
  BY DEF ConnectionInv, ProtocolInv
<1>2. /\ to_client' = Append(to_client, m) /\ srv' = [srv EXCEPT ![k] = end]
      /\ UNCHANGED <<phase, channels, next_id, channel_setup, events, panicked,
                     strays, to_server>>
      /\ closedByHost' = closedByHost
  BY DEF Says, clientVars, setupVars, hostVars
<1>3. \A id : Life(id)' = Life(id) /\ Step(id)' = Step(id)
  BY <1>2, SameLife, SameSteps
<1>4. \A id \in Ids : /\ Closer(id)' = Closer(id) /\ Told(id)' = Told(id)
                      /\ Outbox(id)' = Outbox(id)
  BY <1>2 DEF Closer, Told, Outbox, Held
<1>5. /\ Held(to_client)' = Held(to_client) \cup {m}
      /\ Inbox(k)' = Inbox(k) \cup {m}
      /\ \A id \in Ids \ {k} : Inbox(id)' = Inbox(id)
      /\ InOrder(to_client) /\ (\A a \in Inbox(k) : MayFollow(a, m)) => InOrder(to_client')
  BY <1>1, <1>2, ServerSays
<1>6. /\ srv'[k] = end /\ srv[k] \in ServerEnds
      /\ \A id \in Ids \ {k} : srv'[id] = srv[id]
  BY <1>1, <1>2 DEF TypeOK
<1>7. ASSUME \A a \in Inbox(k) : MayFollow(a, m), ChannelInv(k)'
      PROVE  ProtocolInv'
  <2>1. \A id \in Ids : ChannelInv(id)'
    BY <1>2, <1>3, <1>4, <1>5, <1>6, <1>7, OthersKeep
  <2>2. TableInv'
    <3>1. Held(to_server)' = Held(to_server)
      BY <1>2 DEF Held
    <3> QED
      BY <1>1, <1>2, <1>3, <1>5, <3>1 DEF TableInv, Remotes
  <2> QED
    <3>1. InOrder(to_client')
      BY <1>1, <1>5, <1>7 DEF ProtocolInv
    <3> QED
      BY <1>1, <1>2, <2>1, <2>2, <3>1 DEF ProtocolInv, OutOrder, InOrder
<1>8. ChannelInv(k)
  BY <1>1 DEF ProtocolInv
<1> QED
  BY <1>3, <1>4, <1>5, <1>6, <1>7, <1>8

\* The messages a server writes.
LEMMA Written ==
    ASSUME NEW k \in Ids
    PROVE  /\ \A type \in Types :
                 /\ Message(type, k) \in WireMessages
                 /\ Message(type, k).type = type /\ Message(type, k).ch = k
                 /\ Message(type, k).req = "none"
           /\ \A req \in Requests :
                 /\ Request(k, req) \in WireMessages
                 /\ Request(k, req).type = "CHANNEL_REQUEST" /\ Request(k, req).ch = k
                 /\ Request(k, req).req = req
           /\ \A type \in Types :
                 /\ Sized(type, k, 1) \in WireMessages
                 /\ Sized(type, k, 1).type = type /\ Sized(type, k, 1).ch = k
                 /\ Sized(type, k, 1).req = "none"
<1>1. 1 \in 0..U32_MAX /\ "CHANNEL_REQUEST" \in Types
  BY ChannelAssumption DEF Types
<1>2. \A type \in Types :
         /\ Message(type, k) \in WireMessages
         /\ Message(type, k).type = type /\ Message(type, k).ch = k
         /\ Message(type, k).req = "none"
  BY MessageTypes, MessageFields
<1>3. \A req \in Requests :
         /\ Request(k, req) \in WireMessages
         /\ Request(k, req).type = "CHANNEL_REQUEST" /\ Request(k, req).ch = k
         /\ Request(k, req).req = req
  BY <1>1, MessageTypes, RequestFields
<1>4. \A type \in Types :
         /\ Sized(type, k, 1) \in WireMessages
         /\ Sized(type, k, 1).type = type /\ Sized(type, k, 1).ch = k
         /\ Sized(type, k, 1).req = "none"
  BY <1>1, MessageTypes, SizedFields
<1> QED
  BY <1>2, <1>3, <1>4

LEMMA ConfirmKeeps ==
    ASSUME ConnectionInv, NEW k \in Ids, Confirm(k), UNCHANGED hostVars
    PROVE  ProtocolInv'
<1>1. PICK window \in Windows :
         Says(k, [Sized("CHANNEL_OPEN_CONFIRMATION", k, window) EXCEPT !.sender = ServerEnd(k)],
              [srv[k] EXCEPT !.state = "open"])
  BY DEF Confirm
<1> DEFINE m == [Sized("CHANNEL_OPEN_CONFIRMATION", k, window) EXCEPT !.sender = ServerEnd(k)]
           end == [srv[k] EXCEPT !.state = "open"]
<1>2. /\ m \in WireMessages /\ m.ch = k /\ m.type = "CHANNEL_OPEN_CONFIRMATION"
      /\ m.sender = ServerEnd(k) /\ m.req = "none"
  <2>1. /\ ServerEnd(k) \in Ends /\ window \in 0..U32_MAX
        /\ "CHANNEL_OPEN_CONFIRMATION" \in Types
    BY Numbers, ServerAssumption DEF Types
  <2> DEFINE s == Sized("CHANNEL_OPEN_CONFIRMATION", k, window)
  <2>2. /\ s \in WireMessages /\ s.ch = k /\ s.type = "CHANNEL_OPEN_CONFIRMATION"
        /\ s.req = "none"
    BY <2>1, MessageTypes, SizedFields
  <2> HIDE DEF s
  <2>3. m = [s EXCEPT !.sender = ServerEnd(k)]
    BY DEF s
  <2> QED
    BY <2>1, <2>2, <2>3 DEF WireMessages
<1>3. Says(k, m, end) /\ srv[k].state = "asked"
  BY <1>1 DEF Confirm
<1> HIDE DEF m, end
<1>4. /\ Life(k)' = Life(k) /\ Step(k)' = Step(k) /\ Closer(k)' = Closer(k)
      /\ Told(k)' = Told(k) /\ Outbox(k)' = Outbox(k)
      /\ Inbox(k)' = Inbox(k) \cup {m}
      /\ srv'[k] = end /\ srv[k] \in ServerEnds
      /\ ChannelInv(k)
  BY <1>2, <1>3, Says1
<1>5. Life(k) = "opening" /\ Inbox(k) = {} /\ Outbox(k) = {}
  BY <1>3, <1>4 DEF ChannelInv, Fits, FitsIn, FitsOut, EndsMatch
<1>6. /\ end.state = "open" /\ end.asked = srv[k].asked /\ end.started = srv[k].started
      /\ end.denied = srv[k].denied /\ end.eof = srv[k].eof /\ end.exited = srv[k].exited
      /\ end.closeSent = srv[k].closeSent /\ end.closeGot = srv[k].closeGot
  BY <1>4 DEF ServerEnds, end
<1>7. ChannelInv(k)'
  BY <1>2, <1>4, <1>5, <1>6
  DEF ChannelInv, Fits, FitsIn, FitsOut, EndsMatch, SetupMatches, SetupProceeds, EventsMatch,
      Replies, ExitRequests
<1> QED
  BY <1>2, <1>3, <1>5, <1>7, Says1

LEMMA RefuseKeeps ==
    ASSUME ConnectionInv, NEW k \in Ids, Refuse(k), UNCHANGED hostVars
    PROVE  ProtocolInv'
<1> DEFINE m == Message("CHANNEL_OPEN_FAILURE", k)
           end == [srv[k] EXCEPT !.state = "refused"]
<1>2. m \in WireMessages /\ m.ch = k /\ m.type = "CHANNEL_OPEN_FAILURE" /\ m.req = "none"
  BY Written DEF Types
<1>3. Says(k, m, end) /\ srv[k].state = "asked"
  BY DEF Refuse
<1> HIDE DEF m, end
<1>4. /\ Life(k)' = Life(k) /\ Step(k)' = Step(k) /\ Closer(k)' = Closer(k)
      /\ Told(k)' = Told(k) /\ Outbox(k)' = Outbox(k)
      /\ Inbox(k)' = Inbox(k) \cup {m}
      /\ srv'[k] = end /\ srv[k] \in ServerEnds
      /\ ChannelInv(k)
  BY <1>2, <1>3, Says1
<1>5. Life(k) = "opening" /\ Inbox(k) = {} /\ Outbox(k) = {}
  BY <1>3, <1>4 DEF ChannelInv, Fits, FitsIn, FitsOut, EndsMatch
<1>6. /\ end.state = "refused" /\ end.asked = srv[k].asked /\ end.started = srv[k].started
      /\ end.denied = srv[k].denied /\ end.eof = srv[k].eof /\ end.exited = srv[k].exited
      /\ end.closeSent = srv[k].closeSent /\ end.closeGot = srv[k].closeGot
  BY <1>4 DEF ServerEnds, end
<1>7. ChannelInv(k)'
  BY <1>2, <1>4, <1>5, <1>6
  DEF ChannelInv, Fits, FitsIn, FitsOut, EndsMatch, SetupMatches, SetupProceeds, EventsMatch,
      Replies, ExitRequests
<1> QED
  BY <1>2, <1>3, <1>5, <1>7, Says1

LEMMA GrantKeeps ==
    ASSUME ConnectionInv, NEW k \in Ids, Grant(k), UNCHANGED hostVars
    PROVE  ProtocolInv'
<1> DEFINE m == Message("CHANNEL_SUCCESS", k)
           end == [srv[k] EXCEPT !.asked = Tail(@), !.started = Head(srv[k].asked) # "pty-req"]
<1>1. m \in WireMessages /\ m.ch = k /\ m.type = "CHANNEL_SUCCESS" /\ m.req = "none"
  BY Written DEF Types
<1>2. Says(k, m, end) /\ srv[k].asked # <<>> /\ MaySend(k)
  BY DEF Grant
<1> HIDE DEF m, end
<1>3. /\ Life(k)' = Life(k) /\ Step(k)' = Step(k) /\ Closer(k)' = Closer(k)
      /\ Told(k)' = Told(k) /\ Outbox(k)' = Outbox(k)
      /\ Inbox(k)' = Inbox(k) \cup {m}
      /\ srv'[k] = end /\ srv[k] \in ServerEnds
      /\ ChannelInv(k)
  BY <1>1, <1>2, Says1
<1>4. /\ srv[k].state = "open" /\ ~srv[k].closeSent /\ ~srv[k].started /\ ~srv[k].denied
      /\ Len(srv[k].asked) = 1 /\ \A r \in Inbox(k) : r.type \notin Replies
      /\ Life(k) = "open" /\ Step(k) # "none" /\ srv[k].asked[1] = Awaited[Step(k)]
  BY <1>2, <1>3, LifeCases DEF ChannelInv, Fits, EndsMatch, SetupMatches, MaySend
<1>5. Tail(srv[k].asked) = <<>> /\ Head(srv[k].asked) = Awaited[Step(k)]
  <2> DEFINE asked == srv[k].asked
  <2>1. asked \in Seq(SetupRequests) /\ Len(asked) = 1 /\ asked # <<>>
    BY <1>2, <1>3, <1>4 DEF ServerEnds
  <2>2. Tail(asked) = <<>> /\ Head(asked) = asked[1]
    <3> HIDE DEF asked
    <3> QED
      BY <2>1, OnlyElement
  <2> QED
    BY <1>4, <2>2
<1>6. Step(k) \in {"AwaitingExecReply", "AwaitingPtyReply", "AwaitingShellReply"}
  BY <1>4 DEF ConnectionInv, TypeOK, Step
<1>7. Awaited[Step(k)] # "pty-req" <=> Step(k) # "AwaitingPtyReply"
  BY <1>6 DEF Awaited
<1>8. /\ end.asked = <<>> /\ end.denied = srv[k].denied
      /\ (end.started <=> Step(k) # "AwaitingPtyReply")
      /\ end.state = srv[k].state /\ end.eof = srv[k].eof /\ end.exited = srv[k].exited
      /\ end.closeSent = srv[k].closeSent /\ end.closeGot = srv[k].closeGot
  BY <1>3, <1>5, <1>7 DEF ServerEnds, end
<1>9. ChannelInv(k)'
  BY <1>1, <1>3, <1>4, <1>8
  DEF ChannelInv, Fits, FitsIn, FitsOut, EndsMatch, SetupMatches, SetupProceeds, EventsMatch,
      Replies, ExitRequests
<1>10. \A a \in Inbox(k) : MayFollow(a, m)
  BY <1>1, <1>3, <1>4 DEF ChannelInv, Fits, FitsIn, MayFollow, Replies, ExitRequests
<1> QED
  BY <1>1, <1>2, <1>9, <1>10, Says1

LEMMA DenyKeeps ==
    ASSUME ConnectionInv, NEW k \in Ids, Deny(k), UNCHANGED hostVars
    PROVE  ProtocolInv'
<1> DEFINE m == Message("CHANNEL_FAILURE", k)
           end == [srv[k] EXCEPT !.asked = Tail(@), !.denied = TRUE]
<1>1. m \in WireMessages /\ m.ch = k /\ m.type = "CHANNEL_FAILURE" /\ m.req = "none"
  BY Written DEF Types
<1>2. Says(k, m, end) /\ srv[k].asked # <<>> /\ MaySend(k)
  BY DEF Deny
<1> HIDE DEF m, end
<1>3. /\ Life(k)' = Life(k) /\ Step(k)' = Step(k) /\ Closer(k)' = Closer(k)
      /\ Told(k)' = Told(k) /\ Outbox(k)' = Outbox(k)
      /\ Inbox(k)' = Inbox(k) \cup {m}
      /\ srv'[k] = end /\ srv[k] \in ServerEnds
      /\ ChannelInv(k)
  BY <1>1, <1>2, Says1
<1>4. /\ srv[k].state = "open" /\ ~srv[k].closeSent /\ ~srv[k].started /\ ~srv[k].denied
      /\ Len(srv[k].asked) = 1 /\ \A r \in Inbox(k) : r.type \notin Replies
      /\ Life(k) = "open" /\ Step(k) # "none" /\ srv[k].asked[1] = Awaited[Step(k)]
  BY <1>2, <1>3, LifeCases DEF ChannelInv, Fits, EndsMatch, SetupMatches, MaySend
<1>5. Tail(srv[k].asked) = <<>> /\ Head(srv[k].asked) = Awaited[Step(k)]
  <2> DEFINE asked == srv[k].asked
  <2>1. asked \in Seq(SetupRequests) /\ Len(asked) = 1 /\ asked # <<>>
    BY <1>2, <1>3, <1>4 DEF ServerEnds
  <2>2. Tail(asked) = <<>> /\ Head(asked) = asked[1]
    <3> HIDE DEF asked
    <3> QED
      BY <2>1, OnlyElement
  <2> QED
    BY <1>4, <2>2
<1>7. /\ end.asked = <<>> /\ end.denied
      /\ end.started = srv[k].started
      /\ end.state = srv[k].state /\ end.eof = srv[k].eof /\ end.exited = srv[k].exited
      /\ end.closeSent = srv[k].closeSent /\ end.closeGot = srv[k].closeGot
  BY <1>3, <1>5 DEF ServerEnds, end
<1>8. ChannelInv(k)'
  BY <1>1, <1>3, <1>4, <1>7
  DEF ChannelInv, Fits, FitsIn, FitsOut, EndsMatch, SetupMatches, SetupProceeds, EventsMatch,
      Replies, ExitRequests
<1>9. \A a \in Inbox(k) : MayFollow(a, m)
  BY <1>1, <1>3, <1>4 DEF ChannelInv, Fits, FitsIn, MayFollow, Replies, ExitRequests
<1> QED
  BY <1>1, <1>2, <1>8, <1>9, Says1

LEMMA WriteKeeps ==
    ASSUME ConnectionInv, NEW k \in Ids, Write(k), UNCHANGED hostVars
    PROVE  ProtocolInv'
<1> DEFINE m == Sized("CHANNEL_DATA", k, 1)
           end == [srv[k] EXCEPT !.data = @ + 1]
<1>1. m \in WireMessages /\ m.ch = k /\ m.type = "CHANNEL_DATA" /\ m.req = "none"
  BY Written DEF Types
<1>2. Says(k, m, end) /\ srv[k].started /\ ~srv[k].eof /\ MaySend(k)
  BY DEF Write
<1> HIDE DEF m, end
<1>3. /\ Life(k)' = Life(k) /\ Step(k)' = Step(k) /\ Closer(k)' = Closer(k)
      /\ Told(k)' = Told(k) /\ Outbox(k)' = Outbox(k)
      /\ Inbox(k)' = Inbox(k) \cup {m}
      /\ srv'[k] = end /\ srv[k] \in ServerEnds
      /\ ChannelInv(k)
  BY <1>1, <1>2, Says1
<1>4. /\ end.state = srv[k].state /\ end.asked = srv[k].asked /\ end.started = srv[k].started
      /\ end.denied = srv[k].denied /\ end.eof = srv[k].eof /\ end.exited = srv[k].exited
      /\ end.closeSent = srv[k].closeSent /\ end.closeGot = srv[k].closeGot
  BY <1>3 DEF ServerEnds, end
<1>5. ChannelInv(k)'
  BY <1>1, <1>2, <1>3, <1>4, LifeCases
  DEF ChannelInv, Fits, FitsIn, FitsOut, EndsMatch, SetupMatches, SetupProceeds, EventsMatch,
      Replies, ExitRequests, MaySend, Talks
<1>6. \A a \in Inbox(k) : MayFollow(a, m)
  BY <1>1, <1>2, <1>3
  DEF ChannelInv, Fits, FitsIn, EndsMatch, MayFollow, Replies, ExitRequests, MaySend, Talks
<1> QED
  BY <1>1, <1>2, <1>5, <1>6, Says1

LEMMA EofKeeps ==
    ASSUME ConnectionInv, NEW k \in Ids, Eof(k), UNCHANGED hostVars
    PROVE  ProtocolInv'
<1> DEFINE m == Message("CHANNEL_EOF", k)
           end == [srv[k] EXCEPT !.eof = TRUE]
<1>1. m \in WireMessages /\ m.ch = k /\ m.type = "CHANNEL_EOF" /\ m.req = "none"
  BY Written DEF Types
<1>2. Says(k, m, end) /\ srv[k].started /\ ~srv[k].eof /\ MaySend(k)
  BY DEF Eof
<1> HIDE DEF m, end
<1>3. /\ Life(k)' = Life(k) /\ Step(k)' = Step(k) /\ Closer(k)' = Closer(k)
      /\ Told(k)' = Told(k) /\ Outbox(k)' = Outbox(k)
      /\ Inbox(k)' = Inbox(k) \cup {m}
      /\ srv'[k] = end /\ srv[k] \in ServerEnds
      /\ ChannelInv(k)
  BY <1>1, <1>2, Says1
<1>4. /\ end.state = srv[k].state /\ end.asked = srv[k].asked /\ end.started = srv[k].started
      /\ end.denied = srv[k].denied /\ end.exited = srv[k].exited /\ end.closeSent = srv[k].closeSent
      /\ end.closeGot = srv[k].closeGot /\ end.eof
  BY <1>3 DEF ServerEnds, end
<1>5. ChannelInv(k)'
  BY <1>1, <1>2, <1>3, <1>4, LifeCases
  DEF ChannelInv, Fits, FitsIn, FitsOut, EndsMatch, SetupMatches, SetupProceeds, EventsMatch,
      Replies, ExitRequests, MaySend, Talks
<1>6. \A a \in Inbox(k) : MayFollow(a, m)
  BY <1>1, <1>2, <1>3
  DEF ChannelInv, Fits, FitsIn, EndsMatch, MayFollow, Replies, ExitRequests, MaySend, Talks
<1> QED
  BY <1>1, <1>2, <1>5, <1>6, Says1

LEMMA ExitKeeps ==
    ASSUME ConnectionInv, NEW k \in Ids, Exit(k), UNCHANGED hostVars
    PROVE  ProtocolInv'
<1> DEFINE m == Request(k, "exit-status")
           end == [srv[k] EXCEPT !.exited = TRUE]
<1>1. m \in WireMessages /\ m.ch = k /\ m.type = "CHANNEL_REQUEST" /\ m.req = "exit-status"
  BY Written DEF Requests
<1>2. Says(k, m, end) /\ srv[k].started /\ ~srv[k].exited /\ MaySend(k)
  BY DEF Exit
<1> HIDE DEF m, end
<1>3. /\ Life(k)' = Life(k) /\ Step(k)' = Step(k) /\ Closer(k)' = Closer(k)
      /\ Told(k)' = Told(k) /\ Outbox(k)' = Outbox(k)
      /\ Inbox(k)' = Inbox(k) \cup {m}
      /\ srv'[k] = end /\ srv[k] \in ServerEnds
      /\ ChannelInv(k)
  BY <1>1, <1>2, Says1
<1>4. /\ end.state = srv[k].state /\ end.asked = srv[k].asked /\ end.started = srv[k].started
      /\ end.denied = srv[k].denied /\ end.eof = srv[k].eof /\ end.closeSent = srv[k].closeSent
      /\ end.closeGot = srv[k].closeGot /\ end.exited
  BY <1>3 DEF ServerEnds, end
<1>5. ChannelInv(k)'
  BY <1>1, <1>2, <1>3, <1>4, LifeCases
  DEF ChannelInv, Fits, FitsIn, FitsOut, EndsMatch, SetupMatches, SetupProceeds, EventsMatch,
      Replies, ExitRequests, MaySend, Talks
<1>6. \A a \in Inbox(k) : MayFollow(a, m)
  BY <1>1, <1>2, <1>3
  DEF ChannelInv, Fits, FitsIn, EndsMatch, MayFollow, Replies, ExitRequests, MaySend, Talks
<1> QED
  BY <1>1, <1>2, <1>5, <1>6, Says1

LEMMA GrantWindowKeeps ==
    ASSUME ConnectionInv, NEW k \in Ids, GrantWindow(k), UNCHANGED hostVars
    PROVE  ProtocolInv'
<1> DEFINE m == Sized("CHANNEL_WINDOW_ADJUST", k, 1)
           end == [srv[k] EXCEPT !.granted = TRUE]
<1>1. m \in WireMessages /\ m.ch = k /\ m.type = "CHANNEL_WINDOW_ADJUST" /\ m.req = "none"
  BY Written DEF Types
<1>2. Says(k, m, end) /\ MaySend(k)
  BY DEF GrantWindow
<1> HIDE DEF m, end
<1>3. /\ Life(k)' = Life(k) /\ Step(k)' = Step(k) /\ Closer(k)' = Closer(k)
      /\ Told(k)' = Told(k) /\ Outbox(k)' = Outbox(k)
      /\ Inbox(k)' = Inbox(k) \cup {m}
      /\ srv'[k] = end /\ srv[k] \in ServerEnds
      /\ ChannelInv(k)
  BY <1>1, <1>2, Says1
<1>4. /\ end.state = srv[k].state /\ end.asked = srv[k].asked /\ end.started = srv[k].started
      /\ end.denied = srv[k].denied /\ end.eof = srv[k].eof /\ end.exited = srv[k].exited
      /\ end.closeSent = srv[k].closeSent /\ end.closeGot = srv[k].closeGot
  BY <1>3 DEF ServerEnds, end
<1>5. ChannelInv(k)'
  BY <1>1, <1>2, <1>3, <1>4, LifeCases
  DEF ChannelInv, Fits, FitsIn, FitsOut, EndsMatch, SetupMatches, SetupProceeds, EventsMatch,
      Replies, ExitRequests, MaySend, Talks
<1>6. \A a \in Inbox(k) : MayFollow(a, m)
  BY <1>1, <1>2, <1>3
  DEF ChannelInv, Fits, FitsIn, EndsMatch, MayFollow, Replies, ExitRequests, MaySend, Talks
<1> QED
  BY <1>1, <1>2, <1>5, <1>6, Says1

LEMMA CloseKeeps ==
    ASSUME ConnectionInv, NEW k \in Ids, Close(k), UNCHANGED hostVars
    PROVE  ProtocolInv'
<1> DEFINE m == Message("CHANNEL_CLOSE", k)
           end == [srv[k] EXCEPT !.closeSent = TRUE]
<1>1. m \in WireMessages /\ m.ch = k /\ m.type = "CHANNEL_CLOSE" /\ m.req = "none"
  BY Written DEF Types
<1>2. Says(k, m, end) /\ srv[k].state = "open" /\ ~srv[k].closeSent
  BY DEF Close
<1> HIDE DEF m, end
<1>3. /\ Life(k)' = Life(k) /\ Step(k)' = Step(k) /\ Closer(k)' = Closer(k)
      /\ Told(k)' = Told(k) /\ Outbox(k)' = Outbox(k)
      /\ Inbox(k)' = Inbox(k) \cup {m}
      /\ srv'[k] = end /\ srv[k] \in ServerEnds
      /\ ChannelInv(k)
  BY <1>1, <1>2, Says1
<1>4. /\ end.state = srv[k].state /\ end.asked = srv[k].asked /\ end.started = srv[k].started
      /\ end.denied = srv[k].denied /\ end.eof = srv[k].eof /\ end.exited = srv[k].exited
      /\ end.closeGot = srv[k].closeGot /\ end.closeSent
  BY <1>3 DEF ServerEnds, end
<1>5. ChannelInv(k)'
  BY <1>1, <1>2, <1>3, <1>4, LifeCases
  DEF ChannelInv, Fits, FitsIn, FitsOut, EndsMatch, SetupMatches, SetupProceeds, EventsMatch,
      Replies, ExitRequests
<1>6. \A a \in Inbox(k) : MayFollow(a, m)
  BY <1>1, <1>2, <1>3
  DEF ChannelInv, Fits, FitsIn, EndsMatch, MayFollow, Replies, ExitRequests
<1> QED
  BY <1>1, <1>2, <1>5, <1>6, Says1

LEMMA KeepaliveKeeps ==
    ASSUME ConnectionInv, NEW k \in Ids, Keepalive(k), UNCHANGED hostVars
    PROVE  ProtocolInv'
<1> DEFINE m == [Request(k, "keepalive@openssh.com") EXCEPT !.len = 1]
           end == [srv[k] EXCEPT !.probed = TRUE]
<1>1. m \in WireMessages /\ m.ch = k /\ m.type = "CHANNEL_REQUEST" /\ m.req = "keepalive@openssh.com"
  <2>1. "keepalive@openssh.com" \in Requests /\ 1 \in 0..U32_MAX
    BY ChannelAssumption DEF Requests
  <2> DEFINE r == Request(k, "keepalive@openssh.com")
  <2>2. r \in WireMessages /\ r.ch = k /\ r.type = "CHANNEL_REQUEST" /\ r.req = "keepalive@openssh.com"
    BY <2>1, Written
  <2> HIDE DEF r
  <2>3. m = [r EXCEPT !.len = 1]
    BY DEF r
  <2> QED
    BY <2>1, <2>2, <2>3 DEF WireMessages
<1>2. Says(k, m, end) /\ MaySend(k)
  BY DEF Keepalive
<1> HIDE DEF m, end
<1>3. /\ Life(k)' = Life(k) /\ Step(k)' = Step(k) /\ Closer(k)' = Closer(k)
      /\ Told(k)' = Told(k) /\ Outbox(k)' = Outbox(k)
      /\ Inbox(k)' = Inbox(k) \cup {m}
      /\ srv'[k] = end /\ srv[k] \in ServerEnds
      /\ ChannelInv(k)
  BY <1>1, <1>2, Says1
<1>4. /\ end.state = srv[k].state /\ end.asked = srv[k].asked /\ end.started = srv[k].started
      /\ end.denied = srv[k].denied /\ end.eof = srv[k].eof /\ end.exited = srv[k].exited
      /\ end.closeSent = srv[k].closeSent /\ end.closeGot = srv[k].closeGot
  BY <1>3 DEF ServerEnds, end
<1>5. ChannelInv(k)'
  BY <1>1, <1>2, <1>3, <1>4, LifeCases
  DEF ChannelInv, Fits, FitsIn, FitsOut, EndsMatch, SetupMatches, SetupProceeds, EventsMatch,
      Replies, ExitRequests, MaySend, Talks
<1>6. \A a \in Inbox(k) : MayFollow(a, m)
  BY <1>1, <1>2, <1>3
  DEF ChannelInv, Fits, FitsIn, EndsMatch, MayFollow, Replies, ExitRequests, MaySend, Talks
<1> QED
  BY <1>1, <1>2, <1>5, <1>6, Says1

LEMMA ServerActsKeeps ==
    ASSUME ConnectionInv, NEW k \in Ids, ServerActs(k), UNCHANGED hostVars
    PROVE  ProtocolInv'
BY ConfirmKeeps, RefuseKeeps, GrantKeeps, DenyKeeps, WriteKeeps, EofKeeps, ExitKeeps,
   KeepaliveKeeps, GrantWindowKeeps, CloseKeeps
DEF ServerActs

-----------------------------------------------------------------------------
\* The whole system.

LEMMA StuttersKeep ==
    ASSUME ConnectionInv, UNCHANGED vars
    PROVE  ConnectionInv'
<1>1. /\ UNCHANGED <<phase, channels, next_id, channel_setup, pending_exec, pending_pty>>
      /\ UNCHANGED <<events, terminal, panicked, to_server, to_client, srv, strays>>
      /\ UNCHANGED <<calls, closedByHost>>
  BY DEF vars, clientVars, setupVars, serverVars, hostVars
<1>2. TypeOK'
  BY <1>1 DEF ConnectionInv, TypeOK
<1>3. \A id : /\ Life(id)' = Life(id) /\ Step(id)' = Step(id) /\ Told(id)' = Told(id)
              /\ Inbox(id)' = Inbox(id) /\ Outbox(id)' = Outbox(id)
              /\ Closer(id)' = Closer(id)
  BY <1>1 DEF Life, Known, Step, Told, Inbox, Outbox, Held, Closer
<1>4. \A id \in Ids : ChannelInv(id)'
  <2>1. ASSUME NEW id \in Ids PROVE ChannelInv(id)'
    <3>1. ChannelInv(id) /\ srv'[id] = srv[id]
      BY <1>1 DEF ConnectionInv, ProtocolInv
    <3> QED
      BY <1>3, <3>1, Untouched
  <2> QED
    BY <2>1
<1>5. TableInv'
  BY <1>1, <1>3 DEF ConnectionInv, ProtocolInv, TableInv, Remotes, Held
<1> QED
  BY <1>1, <1>2, <1>4, <1>5 DEF ConnectionInv, ProtocolInv, InOrder, OutOrder

LEMMA StepsKeep ==
    ASSUME ConnectionInv, Next
    PROVE  ProtocolInv'
<1>1. ASSUME ServerReads, UNCHANGED hostVars PROVE ProtocolInv'
  BY <1>1, ReceiveOpenKeeps, ReceiveRequestKeeps, ReceiveCloseKeeps, ReceiveOtherKeeps
  DEF ServerReads
<1>2. ASSUME NEW k \in Ids, ServerActs(k), UNCHANGED hostVars PROVE ProtocolInv'
  BY <1>2, ServerActsKeeps
<1> QED
  BY <1>1, <1>2, HostOpensKeeps, HostSendsKeeps, HostResizesKeeps, HostClosesKeeps,
     ClientHandlesKeeps
  DEF Next

LEMMA NoEndType == NoEnd \in ServerEnds
BY ServerAssumption, ChannelAssumption DEF NoEnd, ServerEnds

LEMMA Starts ==
    ASSUME Init
    PROVE  ConnectionInv
<1>1. TypeOK
  <2>1. NoEnd \in ServerEnds
    BY NoEndType
  <2>2. /\ srv \in [Ids -> ServerEnds] /\ strays = {}
        /\ events \in [Ids -> Seq(Events)]
    BY <2>1 DEF Init, ServerInit
  <2>3. /\ terminal \in Seq({"Channel"})
        /\ to_server \in Seq(WireMessages) /\ to_client \in Seq(WireMessages)
        /\ DOMAIN channels = {} /\ DOMAIN channel_setup = {}
    BY DEF Init
  <2>4. next_id \in Ids
    BY IdAssumption DEF Init, Ids
  <2> QED
    BY <2>2, <2>3, <2>4 DEF Init, TypeOK
<1>2. /\ Held(to_server) = {} /\ Held(to_client) = {}
      /\ \A id : Inbox(id) = {} /\ Outbox(id) = {}
      /\ \A id \in Ids : Told(id) = {}
  BY DEF Init, Held, Inbox, Outbox, Told
<1>3. \A id \in Ids : /\ Life(id) = "unused" /\ Step(id) = "none" /\ Closer(id) = "none"
                      /\ srv[id] = NoEnd
  BY DEF Init, ServerInit, Life, Known, Step, Closer
<1>4. \A id \in Ids : ChannelInv(id)
  <2>1. /\ NoEnd.state = "none" /\ ~NoEnd.started /\ ~NoEnd.denied /\ NoEnd.asked = <<>>
        /\ ~NoEnd.closeGot
    BY DEF NoEnd
  <2> QED
    BY <1>2, <1>3, <2>1
    DEF ChannelInv, Fits, EndsMatch, SetupMatches, SetupProceeds, EventsMatch
<1>5. TableInv
  BY <1>2, <1>3 DEF Init, TableInv, Remotes, Ids
<1> QED
  BY <1>1, <1>4, <1>5
  DEF ConnectionInv, ProtocolInv, Init, ServerInit, InOrder, OutOrder

-----------------------------------------------------------------------------
\* Types.

ChannelsOK ==
    DOMAIN channels \subseteq Ids /\ \A id \in DOMAIN channels : channels[id] \in ChannelRecords

SetupOK ==
    /\ DOMAIN channel_setup \subseteq Ids
    /\ \A id \in DOMAIN channel_setup : channel_setup[id] \in
          {"AwaitingExecReply", "AwaitingPtyReply", "AwaitingShellReply"}
    /\ pending_exec \subseteq Ids /\ pending_pty \subseteq Ids

\* The methods of a Channel.
LEMMA MethodTypes ==
    ASSUME NEW ch \in ChannelRecords, NEW n \in 0..U32_MAX, NEW end \in Ends
    PROVE  /\ OnOpenConfirmation(ch, end, n, MAX_PACKET_SIZE) \in ChannelRecords
           /\ OnWindowAdjust(ch, n) \in ChannelRecords
           /\ OnDataConsumed(ch, n) \in ChannelRecords
           /\ AfterData(ch, 1) \in ChannelRecords
           /\ [ch EXCEPT !.lifecycle = "EofSent"] \in ChannelRecords
<1>1. /\ ch.local_window \in 0..U32_MAX /\ ch.local_window_unadvertised \in 0..U32_MAX
      /\ ch.remote_window \in 0..U32_MAX
  BY DEF ChannelRecords
<1>2. /\ SaturatingAdd(ch.remote_window, n) \in 0..U32_MAX
      /\ Unadvertised(ch, n) \in 0..U32_MAX /\ SaturatingSub(ch.local_window, n) \in 0..U32_MAX
      /\ SaturatingAdd(SaturatingSub(ch.local_window, n), Unadvertised(ch, n)) \in 0..U32_MAX
      /\ ch.remote_window - Consumed(ch, 1) \in 0..U32_MAX
      /\ Greater(MAX_PACKET_SIZE, 1) \in 0..MAX_PACKET_SIZE
  BY <1>1, ChannelAssumption
  DEF SaturatingAdd, SaturatingSub, Unadvertised, Consumed, Lesser, Greater
<1>3. OnOpenConfirmation(ch, end, n, MAX_PACKET_SIZE) \in ChannelRecords
  <2>1. [ch EXCEPT !.remote_id = end] \in ChannelRecords
    BY DEF ChannelRecords
  <2>2. [[ch EXCEPT !.remote_id = end] EXCEPT !.lifecycle = "Open"] \in ChannelRecords
    BY <2>1 DEF ChannelRecords
  <2>3. [[[ch EXCEPT !.remote_id = end] EXCEPT !.lifecycle = "Open"]
            EXCEPT !.remote_window = n] \in ChannelRecords
    BY <2>2 DEF ChannelRecords
  <2> QED
    BY <1>2, <2>3 DEF ChannelRecords, OnOpenConfirmation
<1>4. OnWindowAdjust(ch, n) \in ChannelRecords
  BY <1>2 DEF ChannelRecords, OnWindowAdjust
<1>5. OnDataConsumed(ch, n) \in ChannelRecords
  <2>1. 0 \in 0..U32_MAX
    BY ChannelAssumption
  <2> QED
    BY <1>2, <2>1 DEF ChannelRecords, OnDataConsumed
<1>6. AfterData(ch, 1) \in ChannelRecords
  BY <1>2 DEF ChannelRecords, AfterData
<1> QED
  BY <1>3, <1>4, <1>5, <1>6 DEF ChannelRecords

LEMMA NewType ==
    ASSUME NEW kind \in {"Exec", "Shell"}
    PROVE  ChannelNew(kind) \in ChannelRecords
BY ChannelAssumption DEF ChannelNew, ChannelRecords

\* Writing one of the table's channels, or removing it.
LEMMA TableWritten ==
    ASSUME ChannelsOK, NEW k \in Ids,
           \/ channels' = channels
           \/ channels' = Without(channels, k)
           \/ \E ch \in ChannelRecords :
                 k \in DOMAIN channels /\ channels' = [channels EXCEPT ![k] = ch]
    PROVE  ChannelsOK'
<1>1. CASE channels' = channels
  BY <1>1 DEF ChannelsOK
<1>2. CASE channels' = Without(channels, k)
  <2>1. /\ DOMAIN channels' = DOMAIN channels \ {k}
        /\ \A id \in DOMAIN channels \ {k} : channels'[id] = channels[id]
    BY <1>2, WithoutKey
  <2> QED
    BY <2>1 DEF ChannelsOK
<1>3. CASE \E ch \in ChannelRecords :
              k \in DOMAIN channels /\ channels' = [channels EXCEPT ![k] = ch]
  BY <1>3 DEF ChannelsOK
<1> QED
  BY <1>1, <1>2, <1>3

LEMMA HandledChannels ==
    ASSUME ConnectionInv, HandleMessage
    PROVE  ChannelsOK'
<1> PICK k : k = Msg.ch
  OBVIOUS
<1>1. TypeOK /\ ChannelsOK
  BY DEF ConnectionInv, TypeOK, ChannelsOK
<1>2. PICK type \in Types : Arrived(type)
  BY DEF HandleMessage, HandleOpenConfirmation, HandleOpenFailure, HandleSuccess, HandleFailure,
         HandleWindowAdjust, HandleData, HandleEof, HandleClose, HandleRequest, Types
<1>3. k \in Ids /\ Msg \in WireMessages /\ FitsIn(Msg, k, Life(k), Step(k), srv[k]) /\ Msg.type = type
  BY <1>2, Receipt
<1>4. Msg.len \in 0..U32_MAX
  BY <1>3 DEF WireMessages
<1>5. k \in DOMAIN channels => channels[k] \in ChannelRecords
  BY <1>1 DEF ChannelsOK
<1>6. ASSUME HandleOpenConfirmation PROVE ChannelsOK'
  <2>1. Msg.type = "CHANNEL_OPEN_CONFIRMATION"
    BY <1>6 DEF HandleOpenConfirmation, Arrived, Msg
  <2>2. Msg.sender \in Ends
    BY <1>3, <2>1, Numbers DEF FitsIn
  <2>3. CASE channels' = channels
    BY <1>1, <1>3, <2>3, TableWritten
  <2>4. CASE /\ k \in DOMAIN channels
             /\ channels' = [channels EXCEPT ![k] =
                   OnOpenConfirmation(channels[k], Msg.sender, Msg.len, MAX_PACKET_SIZE)]
    <3> DEFINE ch == OnOpenConfirmation(channels[k], Msg.sender, Msg.len, MAX_PACKET_SIZE)
    <3>1. ch \in ChannelRecords
      BY <1>4, <1>5, <2>2, <2>4, MethodTypes
    <3> HIDE DEF ch
    <3>2. k \in DOMAIN channels /\ channels' = [channels EXCEPT ![k] = ch]
      BY <2>4 DEF ch
    <3> QED
      BY <1>1, <1>3, <3>1, <3>2, TableWritten
  <2> QED
    BY <1>6, <2>3, <2>4 DEF HandleOpenConfirmation, UnknownChannel
<1>7. ASSUME HandleOpenFailure \/ HandleClose \/ HandleSuccess \/ HandleFailure \/ HandleRequest
      PROVE  ChannelsOK'
  <2>1. channels' = channels \/ channels' = Without(channels, k)
    BY <1>7 DEF HandleOpenFailure, HandleClose, HandleSuccess, HandleFailure, HandleRequest,
                UnknownChannel, Panic
  <2> QED
    BY <1>1, <1>3, <2>1, TableWritten
<1>8. ASSUME HandleWindowAdjust \/ HandleData \/ HandleEof PROVE ChannelsOK'
  <2>1. \/ channels' = channels
        \/ /\ k \in DOMAIN channels
           /\ \/ channels' = [channels EXCEPT ![k] = OnWindowAdjust(channels[k], Msg.len)]
              \/ channels' = [channels EXCEPT ![k] = OnDataConsumed(channels[k], Msg.len)]
              \/ channels' = [channels EXCEPT ![k] = [channels[k] EXCEPT !.lifecycle = "EofSent"]]
    BY <1>8 DEF HandleWindowAdjust, HandleData, HandleEof, UnknownChannel, Panic
  <2>2. ASSUME k \in DOMAIN channels
        PROVE  /\ OnWindowAdjust(channels[k], Msg.len) \in ChannelRecords
               /\ OnDataConsumed(channels[k], Msg.len) \in ChannelRecords
               /\ [channels[k] EXCEPT !.lifecycle = "EofSent"] \in ChannelRecords
    <3>1. ServerEnd(k) \in Ends
      BY <1>3, Numbers
    <3> QED
      BY <1>4, <1>5, <2>2, <3>1, MethodTypes
  <2>3. \/ channels' = channels
        \/ \E ch \in ChannelRecords :
              k \in DOMAIN channels /\ channels' = [channels EXCEPT ![k] = ch]
    BY <2>1, <2>2
  <2> QED
    BY <1>1, <1>3, <2>3, TableWritten
<1> QED
  BY <1>6, <1>7, <1>8 DEF HandleMessage

LEMMA HandledSetup ==
    ASSUME ConnectionInv, HandleMessage
    PROVE  SetupOK'
<1> PICK k : k = Msg.ch
  OBVIOUS
<1>1. SetupOK
  BY DEF ConnectionInv, TypeOK, SetupOK
<1>2. CASE UNCHANGED setupVars
  BY <1>1, <1>2 DEF SetupOK, setupVars
<1>3. CASE /\ channel_setup' = channel_setup \/ channel_setup' = Without(channel_setup, k)
           /\ pending_exec' \subseteq pending_exec /\ pending_pty' \subseteq pending_pty
  <2>1. CASE channel_setup' = channel_setup
    BY <1>1, <1>3, <2>1 DEF SetupOK
  <2>2. CASE channel_setup' = Without(channel_setup, k)
    <3>1. /\ DOMAIN channel_setup' = DOMAIN channel_setup \ {k}
          /\ \A id \in DOMAIN channel_setup \ {k} : channel_setup'[id] = channel_setup[id]
      BY <2>2, WithoutKey
    <3> QED
      BY <1>1, <1>3, <3>1 DEF SetupOK
  <2> QED
    BY <1>3, <2>1, <2>2
<1>4. CASE /\ channel_setup' = [channel_setup EXCEPT ![k] = "AwaitingShellReply"]
           /\ UNCHANGED <<pending_exec, pending_pty>>
  BY <1>1, <1>4 DEF SetupOK
<1>5. \/ UNCHANGED setupVars
      \/ /\ channel_setup' = channel_setup \/ channel_setup' = Without(channel_setup, k)
         /\ pending_exec' \subseteq pending_exec /\ pending_pty' \subseteq pending_pty
      \/ /\ channel_setup' = [channel_setup EXCEPT ![k] = "AwaitingShellReply"]
         /\ UNCHANGED <<pending_exec, pending_pty>>
  <2>1. ASSUME HandleOpenConfirmation
        PROVE  \/ UNCHANGED setupVars
               \/ /\ channel_setup' = channel_setup \/ channel_setup' = Without(channel_setup, k)
                  /\ pending_exec' \subseteq pending_exec /\ pending_pty' \subseteq pending_pty
    BY <2>1 DEF HandleOpenConfirmation, UnknownChannel, StartSetup, setupVars
  <2>2. ASSUME HandleSuccess
        PROVE  \/ UNCHANGED setupVars
               \/ /\ channel_setup' = Without(channel_setup, k)
                  /\ UNCHANGED <<pending_exec, pending_pty>>
               \/ /\ channel_setup' = [channel_setup EXCEPT ![k] = "AwaitingShellReply"]
                  /\ UNCHANGED <<pending_exec, pending_pty>>
    BY <2>2 DEF HandleSuccess, Panic, setupVars
  <2>3. ASSUME HandleFailure
        PROVE  \/ UNCHANGED setupVars
               \/ /\ channel_setup' = Without(channel_setup, k)
                  /\ UNCHANGED <<pending_exec, pending_pty>>
    BY <2>3 DEF HandleFailure
  <2>4. ASSUME \/ HandleOpenFailure \/ HandleWindowAdjust \/ HandleData \/ HandleEof
               \/ HandleClose \/ HandleRequest
        PROVE  UNCHANGED setupVars
    BY <2>4 DEF HandleOpenFailure, HandleWindowAdjust, HandleData, HandleEof, HandleClose,
                HandleRequest, UnknownChannel, Panic
  <2> QED
    BY <2>1, <2>2, <2>3, <2>4 DEF HandleMessage
<1> QED
  BY <1>2, <1>3, <1>4, <1>5

LEMMA HandledEvents ==
    ASSUME HandleMessage
    PROVE  /\ events' = events \/ \E e \in Events : Report(Msg.ch, e)
           /\ UNCHANGED next_id
           /\ phase' \in {phase, "Closed"} /\ panicked' \in {panicked, TRUE}
           /\ terminal' \in {terminal, Append(terminal, "Channel")}
<1>1. ASSUME HandleOpenConfirmation \/ HandleOpenFailure
      PROVE  /\ events' = events \/ \E e \in Events : Report(Msg.ch, e)
             /\ UNCHANGED next_id
             /\ phase' \in {phase, "Closed"} /\ panicked' \in {panicked, TRUE}
             /\ terminal' \in {terminal, Append(terminal, "Channel")}
  BY <1>1 DEF HandleOpenConfirmation, HandleOpenFailure, UnknownChannel, Calm, Events
<1>2. ASSUME HandleSuccess \/ HandleFailure
      PROVE  /\ events' = events \/ \E e \in Events : Report(Msg.ch, e)
             /\ UNCHANGED next_id
             /\ phase' \in {phase, "Closed"} /\ panicked' \in {panicked, TRUE}
             /\ terminal' \in {terminal, Append(terminal, "Channel")}
  BY <1>2 DEF HandleSuccess, HandleFailure, Panic, Calm, Events
<1>3. ASSUME HandleWindowAdjust \/ HandleData \/ HandleEof \/ HandleClose
      PROVE  /\ events' = events \/ \E e \in Events : Report(Msg.ch, e)
             /\ UNCHANGED next_id
             /\ phase' \in {phase, "Closed"} /\ panicked' \in {panicked, TRUE}
             /\ terminal' \in {terminal, Append(terminal, "Channel")}
  BY <1>3 DEF HandleWindowAdjust, HandleData, HandleEof, HandleClose,
              UnknownChannel, Panic, Calm, Events
<1>4. ASSUME HandleRequest
      PROVE  /\ events' = events \/ \E e \in Events : Report(Msg.ch, e)
             /\ UNCHANGED next_id
             /\ phase' \in {phase, "Closed"} /\ panicked' \in {panicked, TRUE}
             /\ terminal' \in {terminal, Append(terminal, "Channel")}
  BY <1>4 DEF HandleRequest, UnknownChannel, Panic, Calm, Events
<1> QED
  BY <1>1, <1>2, <1>3, <1>4 DEF HandleMessage

\* Whatever the client sends, it sends to an end the server has named.
LEMMA HandledSends ==
    ASSUME ConnectionInv, HandleMessage
    PROVE  to_server' \in Seq(WireMessages)
<1> PICK k : k = Msg.ch
  OBVIOUS
<1>1. TypeOK /\ to_server \in Seq(WireMessages)
  BY DEF ConnectionInv, TypeOK
<1>2. PICK type \in Types : Arrived(type)
  BY DEF HandleMessage, HandleOpenConfirmation, HandleOpenFailure, HandleSuccess, HandleFailure,
         HandleWindowAdjust, HandleData, HandleEof, HandleClose, HandleRequest, Types
<1>3. k \in Ids /\ Msg \in WireMessages
  BY <1>2, Receipt
<1>4. ASSUME Known(k)
      PROVE  /\ channels[k].remote_id \in Ids \cup Ends
             /\ Unadvertised(channels[k], Msg.len) \in 0..U32_MAX
  BY <1>1, <1>3, <1>4, ChannelAssumption
  DEF TypeOK, ChannelRecords, WireMessages, Known, Unadvertised, SaturatingAdd, Lesser
<1>5. Msg.sender \in Ids \cup Ends
  BY <1>3, IdAssumption DEF WireMessages, Ids
<1>6. ASSUME Send(<<>>) PROVE to_server' \in Seq(WireMessages)
  BY <1>1, <1>6, SendsNone
<1>7. ASSUME NEW m \in WireMessages, Send(<<m>>) PROVE to_server' \in Seq(WireMessages)
  <2> DEFINE s == <<m>>
  <2>1. s \in Seq(WireMessages) /\ to_server' = to_server \o s
    BY <1>7 DEF Send
  <2> HIDE DEF s
  <2> QED
    BY <1>1, <2>1, Joined
<1>8. \A ch \in Ids \cup Ends, req \in SetupRequests : Request(ch, req) \in WireMessages
  BY MessageTypes DEF Types, Requests
<1>9. \A ch \in Ids \cup Ends, n \in 0..U32_MAX :
         /\ Message("CHANNEL_CLOSE", ch) \in WireMessages
         /\ Message("CHANNEL_FAILURE", ch) \in WireMessages
         /\ Sized("CHANNEL_WINDOW_ADJUST", ch, n) \in WireMessages
  BY MessageTypes DEF Types
<1>10. ASSUME HandleOpenConfirmation PROVE to_server' \in Seq(WireMessages)
  <2>1. \/ to_server' = to_server
        \/ Send(<<Request(Msg.sender, "exec")>>)
        \/ Send(<<Request(Msg.sender, "pty-req")>>)
    BY <1>10 DEF HandleOpenConfirmation, UnknownChannel, StartSetup
  <2>2. Request(Msg.sender, "exec") \in WireMessages /\ Request(Msg.sender, "pty-req") \in WireMessages
    BY <1>5, <1>8 DEF SetupRequests
  <2> QED
    BY <1>1, <1>7, <2>1, <2>2
<1>11. ASSUME HandleSuccess PROVE to_server' \in Seq(WireMessages)
  <2>1. to_server' = to_server \/ (Known(k) /\ Send(<<Request(channels[k].remote_id, "shell")>>))
    BY <1>11 DEF HandleSuccess, Panic
  <2>2. Known(k) => Request(channels[k].remote_id, "shell") \in WireMessages
    BY <1>4, <1>8 DEF SetupRequests
  <2> QED
    BY <1>1, <1>7, <2>1, <2>2
<1>12. ASSUME HandleFailure \/ HandleData \/ HandleRequest PROVE to_server' \in Seq(WireMessages)
  <2>1. \/ to_server' = to_server
        \/ Send(<<>>)
        \/ /\ Known(k)
           /\ \/ Send(<<Message("CHANNEL_CLOSE", channels[k].remote_id)>>)
              \/ Send(<<Message("CHANNEL_FAILURE", channels[k].remote_id)>>)
              \/ Send(<<Sized("CHANNEL_WINDOW_ADJUST", channels[k].remote_id,
                              Unadvertised(channels[k], Msg.len))>>)
    <3>1. CASE HandleFailure
      <4>1. \/ to_server' = to_server
            \/ Send(IF Known(k) THEN <<Message("CHANNEL_CLOSE", channels[k].remote_id)>> ELSE <<>>)
        BY <3>1 DEF HandleFailure
      <4> QED
        BY <4>1
    <3>2. CASE HandleData
      <4>1. \/ to_server' = to_server
            \/ /\ Adjusts(channels[k], Msg.len) => Known(k)
               /\ Send(IF Adjusts(channels[k], Msg.len)
                       THEN <<Sized("CHANNEL_WINDOW_ADJUST", channels[k].remote_id,
                                    Unadvertised(channels[k], Msg.len))>>
                       ELSE <<>>)
        BY <3>2 DEF HandleData, UnknownChannel, Panic
      <4> QED
        BY <4>1
    <3>3. CASE HandleRequest
      <4>1. \/ to_server' = to_server
            \/ /\ Msg.len = 1 => Known(k)
               /\ Send(IF Msg.len = 1
                       THEN <<Message("CHANNEL_FAILURE", channels[k].remote_id)>>
                       ELSE <<>>)
        BY <3>3 DEF HandleRequest, UnknownChannel, Panic
      <4> QED
        BY <4>1
    <3> QED
      BY <1>12, <3>1, <3>2, <3>3
  <2>2. ASSUME Known(k)
        PROVE  /\ Message("CHANNEL_CLOSE", channels[k].remote_id) \in WireMessages
               /\ Message("CHANNEL_FAILURE", channels[k].remote_id) \in WireMessages
               /\ Sized("CHANNEL_WINDOW_ADJUST", channels[k].remote_id,
                        Unadvertised(channels[k], Msg.len)) \in WireMessages
    BY <1>4, <1>9, <2>2
  <2> QED
    BY <1>1, <1>6, <1>7, <2>1, <2>2
<1>13. ASSUME HandleOpenFailure \/ HandleWindowAdjust \/ HandleEof \/ HandleClose
       PROVE  to_server' = to_server
  BY <1>13 DEF HandleOpenFailure, HandleWindowAdjust, HandleEof, HandleClose, UnknownChannel
<1> QED
  BY <1>1, <1>10, <1>11, <1>12, <1>13 DEF HandleMessage

LEMMA ClientHandlesTypes ==
    ASSUME ConnectionInv, ClientHandles
    PROVE  TypeOK'
<1> PICK k : k = Msg.ch
  OBVIOUS
<1>1. TypeOK /\ HandleMessage /\ UNCHANGED <<srv, strays, calls, closedByHost>>
  BY DEF ConnectionInv, ClientHandles, serverVars, hostVars
<1>2. PICK type \in Types : Arrived(type)
  BY <1>1
  DEF HandleMessage, HandleOpenConfirmation, HandleOpenFailure, HandleSuccess, HandleFailure,
      HandleWindowAdjust, HandleData, HandleEof, HandleClose, HandleRequest, Types
<1>3. k \in Ids /\ to_client' \in Seq(WireMessages)
  BY <1>2, Receipt
<1>4. ChannelsOK' /\ SetupOK' /\ to_server' \in Seq(WireMessages)
  BY <1>1, HandledChannels, HandledSetup, HandledSends
<1>5. events' \in [Ids -> Seq(Events)]
  BY <1>1, <1>3, HandledEvents, Reports DEF TypeOK
<1>6. terminal' \in Seq({"Channel"})
  <2>1. Append(terminal, "Channel") \in Seq({"Channel"})
    BY <1>1 DEF TypeOK
  <2> QED
    BY <1>1, <2>1, HandledEvents DEF TypeOK
<1> QED
  BY <1>1, <1>3, <1>4, <1>5, <1>6, HandledEvents DEF TypeOK, ChannelsOK, SetupOK

LEMMA HostOpensTypes ==
    ASSUME ConnectionInv, HostOpens
    PROVE  TypeOK'
<1> PICK k : k = next_id
  OBVIOUS
<1> DEFINE m == Message("CHANNEL_OPEN", k)
<1>1. TypeOK /\ k \in Ids
  BY DEF ConnectionInv, TypeOK
<1>2. PICK kind \in {"Exec", "Shell"}, step \in {"AwaitingExecReply", "AwaitingPtyReply"} :
         Open(kind, step, "CHANNEL_OPEN")
  BY DEF HostOpens, OpenExec, OpenShell
<1>3. /\ channels' = Put(channels, k, ChannelNew(kind))
      /\ channel_setup' = Put(channel_setup, k, step)
      /\ next_id' = (k + 1) % ID_SPACE
      /\ Send(<<m>>)
      /\ UNCHANGED <<phase, events, terminal, panicked, to_client>>
      /\ UNCHANGED <<srv, strays, calls, closedByHost>>
  BY <1>2 DEF Open, HostOpens, serverVars, hostVars
<1>4. pending_exec' \subseteq Ids /\ pending_pty' \subseteq Ids
  BY <1>1 DEF HostOpens, OpenExec, OpenShell, TypeOK
<1>5. next_id' \in Ids
  <2>1. k + 1 \in Nat /\ ID_SPACE \in Nat \ {0}
    BY <1>1, IdAssumption DEF Ids
  <2>2. (k + 1) % ID_SPACE \in 0..(ID_SPACE - 1)
    BY <2>1
  <2> QED
    BY <1>3, <2>2 DEF Ids
<1>6. to_server' \in Seq(WireMessages)
  <2>1. m \in WireMessages /\ m.ch = k
    BY <1>1, MessageTypes, MessageFields DEF Types
  <2> HIDE DEF m
  <2> QED
    BY <1>1, <1>3, <2>1, SendsOne
<1>7. DOMAIN channels' \subseteq Ids /\ \A id \in DOMAIN channels' : channels'[id] \in ChannelRecords
  <2>1. ChannelNew(kind) \in ChannelRecords
    BY NewType
  <2>2. DOMAIN channels \subseteq Ids /\ \A id \in DOMAIN channels : channels[id] \in ChannelRecords
    BY <1>1 DEF TypeOK
  <2> QED
    BY <1>1, <1>3, <2>1, <2>2 DEF Put
<1>8. /\ DOMAIN channel_setup' \subseteq Ids
      /\ \A id \in DOMAIN channel_setup' : channel_setup'[id] \in
            {"AwaitingExecReply", "AwaitingPtyReply", "AwaitingShellReply"}
  BY <1>1, <1>3 DEF TypeOK, Put
<1> QED
  BY <1>1, <1>3, <1>4, <1>5, <1>6, <1>7, <1>8 DEF TypeOK

LEMMA HostCallsTypes ==
    ASSUME ConnectionInv, HostSends \/ HostResizes \/ HostCloses
    PROVE  TypeOK'
<1>1. TypeOK /\ TableInv
  BY DEF ConnectionInv, ProtocolInv
<1>2. calls' \in Nat /\ UNCHANGED <<srv, strays>> /\ closedByHost' \subseteq Ids
  BY <1>1 DEF HostSends, HostResizes, HostCloses, Calls, serverVars, TypeOK
<1>3. ASSUME NEW id \in Ids, Known(id) PROVE channels[id].remote_id = ServerEnd(id)
  BY <1>3, LifeCases, KnownEnd
<1>4. CASE HostSends
  <2>1. PICK k \in Ids \ closedByHost : ChannelSend(k, 1)
    BY <1>4 DEF HostSends
  <2>2. /\ k \in DOMAIN channels /\ Send(DataMessages(k, 1))
        /\ channels' = IF Writable(k) THEN [channels EXCEPT ![k] = AfterData(channels[k], 1)] ELSE channels
        /\ Report(k, "ChannelWindowFull") \/ events' = events
        /\ UNCHANGED <<phase, next_id, channel_setup, pending_exec, pending_pty>>
        /\ UNCHANGED <<terminal, panicked, to_client>>
    BY <2>1 DEF ChannelSend, setupVars
  <2>3. channels[k] \in ChannelRecords
    BY <1>1, <2>2 DEF TypeOK
  <2>4. ChannelsOK'
    <3>1. AfterData(channels[k], 1) \in ChannelRecords
      <4>1. 0 \in 0..U32_MAX /\ ServerEnd(k) \in Ends
        BY ChannelAssumption, Numbers
      <4> QED
        BY <2>3, <4>1, MethodTypes
    <3>2. ChannelsOK
      BY <1>1 DEF TypeOK, ChannelsOK
    <3> QED
      BY <2>2, <3>1, <3>2, TableWritten
  <2>5. events' \in [Ids -> Seq(Events)]
    <3>1. "ChannelWindowFull" \in Events
      BY DEF Events
    <3> QED
      BY <1>1, <2>2, <3>1, Reports DEF TypeOK
  <2>6. to_server' \in Seq(WireMessages)
    <3>1. CASE DataMessages(k, 1) = <<>>
      BY <1>1, <2>2, <3>1, SendsNone DEF TypeOK
    <3>2. CASE DataMessages(k, 1) # <<>>
      <4> DEFINE m == Sized("CHANNEL_DATA", ServerEnd(k), 1)
      <4>1. Known(k)
        BY <1>1, <2>2, <3>2, OneByte DEF Writable, TableInv, Remotes, Known
      <4>2. Send(<<m>>)
        BY <1>1, <1>3, <2>2, <3>2, <4>1, OneByte
      <4>3. m \in WireMessages /\ m.ch = ServerEnd(k)
        <5>1. 1 \in 0..U32_MAX /\ "CHANNEL_DATA" \in Types /\ ServerEnd(k) \in Ends
          BY ChannelAssumption, Numbers DEF Types
        <5> QED
          BY <5>1, MessageTypes, SizedFields
      <4> HIDE DEF m
      <4> QED
        BY <1>1, <4>2, <4>3, SendsOne
    <3> QED
      BY <3>1, <3>2
  <2> QED
    BY <1>1, <1>2, <2>2, <2>4, <2>5, <2>6 DEF TypeOK, ChannelsOK
<1>5. CASE HostResizes \/ HostCloses
  <2>1. PICK k \in Ids : ResizePty(k) \/ CloseChannel(k)
    BY <1>5 DEF HostResizes, HostCloses
  <2>2. Known(k) /\ channels[k].remote_id = ServerEnd(k)
    BY <1>3, <2>1 DEF ResizePty, CloseChannel
  <2>3. PICK m \in {Request(ServerEnd(k), "window-change"), Message("CHANNEL_CLOSE", ServerEnd(k))} :
           SendsOnly(<<m>>)
    BY <2>1, <2>2 DEF ResizePty, CloseChannel
  <2>4. m \in WireMessages /\ m.ch = ServerEnd(k)
    <3>1. /\ ServerEnd(k) \in Ends /\ "CHANNEL_CLOSE" \in Types /\ "CHANNEL_REQUEST" \in Types
          /\ "window-change" \in Requests
      BY Numbers DEF Types, Requests
    <3> QED
      BY <3>1, MessageTypes, MessageFields, RequestFields
  <2>5. to_server' \in Seq(WireMessages)
    BY <1>1, <2>3, <2>4, SendsOne DEF SendsOnly
  <2>6. /\ UNCHANGED <<phase, channels, next_id, channel_setup, pending_exec, pending_pty>>
        /\ UNCHANGED <<events, terminal, panicked, to_client>>
    BY <2>3 DEF SendsOnly, clientVars, setupVars
  <2> QED
    BY <1>1, <1>2, <2>5, <2>6 DEF TypeOK
<1> QED
  BY <1>4, <1>5

LEMMA ServerReadsTypes ==
    ASSUME ConnectionInv, ServerReads, UNCHANGED hostVars
    PROVE  TypeOK'
<1>1. TypeOK /\ TableInv
  BY DEF ConnectionInv, ProtocolInv
<1>2. to_server # <<>> /\ to_server' = Tail(to_server) /\ UNCHANGED <<clientVars, to_client>>
  BY DEF ServerReads, ReceiveOpen, ReceiveRequest, ReceiveClose, ReceiveOther, Receive, Reads
<1>3. /\ UNCHANGED <<phase, channels, next_id, channel_setup, pending_exec, pending_pty>>
      /\ UNCHANGED <<events, terminal, panicked, to_client, calls, closedByHost>>
  BY <1>2 DEF clientVars, setupVars, hostVars
<1>4. to_server' \in Seq(WireMessages) /\ Asked \in WireMessages /\ Asked \in Held(to_server)
  BY <1>1, <1>2, Popped DEF Asked, TypeOK
<1>5. srv' \in [Ids -> ServerEnds] /\ strays' \subseteq Types
  <2>1. ASSUME NEW type, NEW end, Receive(type, end),
               Reaches(ClientEnd(Asked.ch)) => end \in ServerEnds
        PROVE  srv' \in [Ids -> ServerEnds] /\ strays' \subseteq Types
    <3>1. CASE Reaches(ClientEnd(Asked.ch))
      BY <1>1, <2>1, <3>1 DEF Receive, Reaches, TypeOK
    <3>2. CASE ~Reaches(ClientEnd(Asked.ch))
      BY <1>1, <1>4, <2>1, <3>2 DEF Receive, TypeOK, WireMessages
    <3> QED
      BY <3>1, <3>2
  <2>2. Reaches(ClientEnd(Asked.ch)) => srv[ClientEnd(Asked.ch)] \in ServerEnds
    BY <1>1 DEF Reaches, TypeOK
  <2>3. CASE ReceiveOpen
    <3>1. /\ srv' = [srv EXCEPT ![Asked.ch] = [NoEnd EXCEPT !.state = "asked"]]
          /\ strays' = strays
      BY <2>3 DEF ReceiveOpen
    <3>2. [NoEnd EXCEPT !.state = "asked"] \in ServerEnds
      BY NoEndType DEF ServerEnds
    <3> QED
      BY <1>1, <3>1, <3>2 DEF TypeOK
  <2>4. CASE ReceiveRequest
    <3> DEFINE id == ClientEnd(Asked.ch)
               end == IF Asked.req \in SetupRequests
                      THEN [srv[id] EXCEPT !.asked = Append(@, Asked.req)]
                      ELSE srv[id]
    <3>1. Receive("CHANNEL_REQUEST", end)
      BY <2>4 DEF ReceiveRequest
    <3>2. ASSUME Reaches(id), Asked.req \in SetupRequests
          PROVE  [srv[id] EXCEPT !.asked = Append(@, Asked.req)] \in ServerEnds
      <4>1. srv[id] \in ServerEnds
        BY <2>2, <3>2
      <4>2. Append(srv[id].asked, Asked.req) \in Seq(SetupRequests)
        BY <3>2, <4>1 DEF ServerEnds
      <4> QED
        BY <4>1, <4>2 DEF ServerEnds
    <3>3. Reaches(id) => end \in ServerEnds
      BY <2>2, <3>2
    <3> HIDE DEF end
    <3> QED
      BY <2>1, <3>1, <3>3
  <2>5. CASE ReceiveClose
    <3> DEFINE end == [srv[ClientEnd(Asked.ch)] EXCEPT !.closeGot = TRUE]
    <3>1. Receive("CHANNEL_CLOSE", end)
      BY <2>5 DEF ReceiveClose
    <3>2. Reaches(ClientEnd(Asked.ch)) => end \in ServerEnds
      BY <2>2 DEF ServerEnds
    <3> HIDE DEF end
    <3> QED
      BY <2>1, <3>1, <3>2
  <2>6. CASE ReceiveOther
    BY <2>1, <2>2, <2>6 DEF ReceiveOther
  <2> QED
    BY <2>3, <2>4, <2>5, <2>6 DEF ServerReads
<1> QED
  BY <1>1, <1>3, <1>4, <1>5 DEF TypeOK

LEMMA SaysTypes ==
    ASSUME TypeOK, NEW k \in Ids, NEW m \in WireMessages, NEW end \in ServerEnds,
           Says(k, m, end), UNCHANGED hostVars
    PROVE  TypeOK'
<1>1. /\ UNCHANGED <<phase, channels, next_id, channel_setup, pending_exec, pending_pty>>
      /\ UNCHANGED <<events, terminal, panicked, to_server, strays, calls, closedByHost>>
      /\ to_client' = Append(to_client, m) /\ srv' = [srv EXCEPT ![k] = end]
  BY DEF Says, clientVars, setupVars, hostVars
<1>2. to_client' \in Seq(WireMessages)
  BY <1>1, Appended DEF TypeOK
<1>3. srv' \in [Ids -> ServerEnds]
  BY <1>1 DEF TypeOK
<1> QED
  BY <1>1, <1>2, <1>3 DEF TypeOK

LEMMA ServerActsTypes ==
    ASSUME ConnectionInv, NEW k \in Ids, ServerActs(k), UNCHANGED hostVars
    PROVE  TypeOK'
<1>1. TypeOK /\ srv[k] \in ServerEnds
  BY DEF ConnectionInv, TypeOK
<1>2. /\ \A type \in Types : Message(type, k) \in WireMessages /\ Sized(type, k, 1) \in WireMessages
      /\ \A req \in Requests : Request(k, req) \in WireMessages
  BY Written
<1>3. CASE Confirm(k)
  <2>1. PICK window \in Windows :
           Says(k, [Sized("CHANNEL_OPEN_CONFIRMATION", k, window) EXCEPT !.sender = ServerEnd(k)],
                [srv[k] EXCEPT !.state = "open"])
    BY <1>3 DEF Confirm
  <2>2. [Sized("CHANNEL_OPEN_CONFIRMATION", k, window) EXCEPT !.sender = ServerEnd(k)] \in WireMessages
    <3>1. /\ ServerEnd(k) \in Ends /\ window \in 0..U32_MAX
          /\ "CHANNEL_OPEN_CONFIRMATION" \in Types
      BY Numbers, ServerAssumption DEF Types
    <3>2. Sized("CHANNEL_OPEN_CONFIRMATION", k, window) \in WireMessages
      BY <3>1, MessageTypes
    <3> QED
      BY <3>1, <3>2 DEF WireMessages
  <2>3. [srv[k] EXCEPT !.state = "open"] \in ServerEnds
    BY <1>1 DEF ServerEnds
  <2> QED
    BY <1>1, <2>1, <2>2, <2>3, SaysTypes
<1>4. CASE Refuse(k)
  <2>1. [srv[k] EXCEPT !.state = "refused"] \in ServerEnds /\ "CHANNEL_OPEN_FAILURE" \in Types
    BY <1>1 DEF ServerEnds, Types
  <2> QED
    BY <1>1, <1>2, <1>4, <2>1, SaysTypes DEF Refuse
<1>5. CASE Grant(k) \/ Deny(k)
  <2>1. srv[k].asked # <<>> /\ Tail(srv[k].asked) \in Seq(SetupRequests)
    BY <1>1, <1>5 DEF Grant, Deny, ServerEnds
  <2>2. /\ [srv[k] EXCEPT !.asked = Tail(@), !.started = Head(srv[k].asked) # "pty-req"] \in ServerEnds
        /\ [srv[k] EXCEPT !.asked = Tail(@), !.denied = TRUE] \in ServerEnds
    <3> DEFINE e == [srv[k] EXCEPT !.asked = Tail(@)]
    <3>1. e \in ServerEnds
      BY <1>1, <2>1 DEF ServerEnds
    <3>2. \A b \in BOOLEAN : /\ [e EXCEPT !.started = b] \in ServerEnds
                             /\ [e EXCEPT !.denied = b] \in ServerEnds
      <4> HIDE DEF e
      <4> QED
        BY <3>1 DEF ServerEnds
    <3>3. (Head(srv[k].asked) # "pty-req") \in BOOLEAN
      OBVIOUS
    <3> QED
      BY <3>2, <3>3
  <2>3. "CHANNEL_SUCCESS" \in Types /\ "CHANNEL_FAILURE" \in Types
    BY DEF Types
  <2> QED
    BY <1>1, <1>2, <1>5, <2>2, <2>3, SaysTypes DEF Grant, Deny
<1>6. CASE Write(k)
  <2>1. srv[k].data + 1 \in 0..MaxData
    BY <1>1, <1>6, ServerAssumption, ChannelAssumption DEF Write, ServerEnds
  <2>2. [srv[k] EXCEPT !.data = @ + 1] \in ServerEnds /\ "CHANNEL_DATA" \in Types
    BY <1>1, <2>1 DEF ServerEnds, Types
  <2> QED
    BY <1>1, <1>2, <1>6, <2>2, SaysTypes DEF Write
<1>7. /\ [srv[k] EXCEPT !.eof = TRUE] \in ServerEnds
      /\ [srv[k] EXCEPT !.exited = TRUE] \in ServerEnds
      /\ [srv[k] EXCEPT !.probed = TRUE] \in ServerEnds
      /\ [srv[k] EXCEPT !.granted = TRUE] \in ServerEnds
      /\ [srv[k] EXCEPT !.closeSent = TRUE] \in ServerEnds
  BY <1>1 DEF ServerEnds
<1>8. /\ "CHANNEL_EOF" \in Types /\ "CHANNEL_WINDOW_ADJUST" \in Types /\ "CHANNEL_CLOSE" \in Types
      /\ "exit-status" \in Requests /\ "keepalive@openssh.com" \in Requests
  BY DEF Types, Requests
<1>9. CASE Eof(k) \/ Exit(k) \/ GrantWindow(k) \/ Close(k)
  BY <1>1, <1>2, <1>7, <1>8, <1>9, SaysTypes DEF Eof, Exit, GrantWindow, Close
<1>10. CASE Keepalive(k)
  <2>1. [Request(k, "keepalive@openssh.com") EXCEPT !.len = 1] \in WireMessages
    <3>1. Request(k, "keepalive@openssh.com") \in WireMessages /\ 1 \in 0..U32_MAX
      BY <1>2, <1>8, ChannelAssumption
    <3> QED
      BY <3>1 DEF WireMessages
  <2> QED
    BY <1>1, <1>7, <1>10, <2>1, SaysTypes DEF Keepalive
<1> QED
  BY <1>3, <1>4, <1>5, <1>6, <1>9, <1>10 DEF ServerActs

LEMMA Inductive ==
    ASSUME ConnectionInv, [Next]_vars
    PROVE  ConnectionInv'
<1>1. CASE Next
  <2>1. TypeOK'
    BY <1>1, HostOpensTypes, HostCallsTypes, ClientHandlesTypes, ServerReadsTypes, ServerActsTypes
    DEF Next
  <2> QED
    BY <1>1, <2>1, StepsKeep DEF ConnectionInv
<1>2. CASE UNCHANGED vars
  BY <1>2, StuttersKeep
<1> QED
  BY <1>1, <1>2

-----------------------------------------------------------------------------
\* Exactly one setup request is unanswered while a step waits.

\* What is known of a channel that both ends still have.
LEMMA OneRequest ==
    ASSUME ConnectionInv, NEW id \in DOMAIN channels \ closedByHost,
           Known(id), ~srv[id].closeSent
    PROVE  /\ Unanswered(id) = IF Step(id) = "none" THEN 0 ELSE 1
           /\ \A i \in OnTheWay(id) : to_server[i].req = Awaited[Step(id)]
           /\ \A i \in DOMAIN srv[id].asked : srv[id].asked[i] = Awaited[Step(id)]
<1>1. /\ id \in Ids /\ srv[id] \in ServerEnds
      /\ to_server \in Seq(WireMessages) /\ to_client \in Seq(WireMessages)
  BY DEF ConnectionInv, TypeOK
<1>2. /\ ChannelInv(id) /\ Life(id) = "open" /\ Closer(id) = "none"
      /\ InOrder(to_client) /\ OutOrder(to_server, closedByHost)
  BY <1>1, LifeCases DEF ConnectionInv, ProtocolInv, Closer
<1>3. /\ DOMAIN to_server = 1..Len(to_server) /\ DOMAIN to_client = 1..Len(to_client)
      /\ Len(to_server) \in Nat /\ Len(to_client) \in Nat
  BY <1>1
<1>4. ASSUME NEW i \in OnTheWay(id)
      PROVE  /\ i \in 1..Len(to_server) /\ to_server[i] \in Outbox(id)
             /\ to_server[i].ch = ServerEnd(id) /\ to_server[i].req \in SetupRequests
             /\ Step(id) # "none" /\ to_server[i].req = Awaited[Step(id)]
             /\ srv[id].asked = <<>>
             /\ \A m \in Inbox(id) : m.type \notin Replies
  <2>1. /\ i \in 1..Len(to_server) /\ to_server[i] \in Outbox(id)
        /\ to_server[i].ch = ServerEnd(id) /\ to_server[i].req \in SetupRequests
    BY <1>3, <1>4 DEF OnTheWay, Outbox, Held
  <2> QED
    BY <1>2, <2>1 DEF ChannelInv, Fits, FitsOut
<1>5. ASSUME NEW i \in Answers(id)
      PROVE  /\ i \in 1..Len(to_client) /\ to_client[i] \in Inbox(id)
             /\ to_client[i].ch = id /\ to_client[i].type \in Replies
             /\ Step(id) # "none" /\ srv[id].asked = <<>>
  <2>1. /\ i \in 1..Len(to_client) /\ to_client[i] \in Inbox(id)
        /\ to_client[i].ch = id /\ to_client[i].type \in Replies
    BY <1>3, <1>5 DEF Answers, Inbox, Held, Replies
  <2> QED
    BY <1>2, <2>1 DEF ChannelInv, Fits, FitsIn
<1>6. \A i, j \in OnTheWay(id) : i = j
  <2>1. ASSUME NEW i \in OnTheWay(id), NEW j \in OnTheWay(id), i < j PROVE FALSE
    <3>1. MayFollowOut(to_server[i], to_server[j], closedByHost)
      BY <1>2, <1>4, <2>1 DEF OutOrder
    <3> QED
      BY <1>4, <3>1 DEF MayFollowOut
  <2> QED
    BY <1>3, <1>4, <2>1
<1>7. \A i, j \in Answers(id) : i = j
  <2>1. ASSUME NEW i \in Answers(id), NEW j \in Answers(id), i < j PROVE FALSE
    <3>1. MayFollow(to_client[i], to_client[j])
      BY <1>2, <1>5, <2>1 DEF InOrder
    <3> QED
      BY <1>5, <3>1 DEF MayFollow
  <2> QED
    BY <1>3, <1>5, <2>1
<1>8. srv[id].asked # <<>> =>
         /\ Len(srv[id].asked) = 1 /\ Step(id) # "none"
         /\ srv[id].asked[1] = Awaited[Step(id)]
  BY <1>2 DEF ChannelInv, Fits, SetupMatches
<1>9. \A i \in DOMAIN srv[id].asked : srv[id].asked[i] = Awaited[Step(id)]
  <2> DEFINE asked == srv[id].asked
  <2>1. asked \in Seq(SetupRequests)
    BY <1>1 DEF ServerEnds
  <2>2. asked # <<>> => Len(asked) = 1 /\ asked[1] = Awaited[Step(id)]
    BY <1>8
  <2> HIDE DEF asked
  <2>3. \A i \in DOMAIN asked : asked[i] = Awaited[Step(id)]
    BY <2>1, <2>2
  <2> QED
    BY <2>3 DEF asked
<1>10. Cardinality({}) = 0 /\ \A x : Cardinality({x}) = 1
  BY FS_EmptySet, FS_Singleton
<1>11. Len(<<>>) = 0
  OBVIOUS
<1>12. CASE OnTheWay(id) # {}
  <2>1. PICK i \in OnTheWay(id) : TRUE
    BY <1>12
  <2>2. OnTheWay(id) = {i} /\ Answers(id) = {} /\ srv[id].asked = <<>> /\ Step(id) # "none"
    BY <1>4, <1>5, <1>6, <2>1
  <2>3. Unanswered(id) = 1
    <3>1. Cardinality({i}) = 1
      BY <1>10
    <3> QED
      BY <1>10, <1>11, <2>2, <3>1 DEF Unanswered
  <2> QED
    BY <1>4, <1>9, <2>2, <2>3
<1>13. CASE OnTheWay(id) = {} /\ srv[id].asked # <<>>
  <2>1. Answers(id) = {} /\ Len(srv[id].asked) = 1 /\ Step(id) # "none"
    BY <1>5, <1>8, <1>13
  <2>2. Unanswered(id) = 1
    BY <1>10, <1>13, <2>1 DEF Unanswered
  <2> QED
    BY <1>9, <1>13, <2>1, <2>2
<1>14. CASE OnTheWay(id) = {} /\ srv[id].asked = <<>>
  <2>1. ASSUME Step(id) # "none" PROVE Answers(id) # {}
    <3>1. \E m \in Inbox(id) : m.type \in Replies
      <4>1. ASSUME NEW m \in Outbox(id), m.req \in SetupRequests PROVE FALSE
        <5>1. PICK i \in 1..Len(to_server) : to_server[i] = m
          BY <4>1 DEF Outbox, Held
        <5>2. m.ch = ServerEnd(id)
          BY <1>1, <1>2, <4>1 DEF ChannelInv, Fits, FitsOut, Outbox
        <5> QED
          BY <1>3, <1>14, <4>1, <5>1, <5>2 DEF OnTheWay
      <4> QED
        BY <1>2, <1>14, <2>1, <4>1 DEF ChannelInv, Fits, SetupProceeds
    <3>2. PICK m \in Inbox(id) : m.type \in Replies
      BY <3>1
    <3>3. PICK i \in 1..Len(to_client) : to_client[i] = m
      BY DEF Inbox, Held
    <3> QED
      BY <1>3, <3>2, <3>3 DEF Answers, Inbox, Replies
  <2>2. CASE Answers(id) = {}
    <3>1. Step(id) = "none" /\ Unanswered(id) = 0
      BY <1>10, <1>11, <1>14, <2>1, <2>2 DEF Unanswered
    <3> QED
      BY <1>9, <1>14, <3>1
  <2>3. CASE Answers(id) # {}
    <3>1. PICK i \in Answers(id) : TRUE
      BY <2>3
    <3>2. Answers(id) = {i} /\ Step(id) # "none"
      BY <1>5, <1>7, <3>1
    <3>3. Unanswered(id) = 1
      <4>1. Cardinality({i}) = 1
        BY <1>10
      <4> QED
        BY <1>10, <1>11, <1>14, <3>2, <4>1 DEF Unanswered
    <3> QED
      BY <1>9, <1>14, <3>2, <3>3
  <2> QED
    BY <2>2, <2>3
<1> QED
  BY <1>12, <1>13, <1>14

LEMMA InvariantImplies ==
    ASSUME ConnectionInv
    PROVE  TypeOK /\ NoPanic /\ RepliesMatch /\ NoStrays /\ (NeverFails \/ Talks)
<1>1. RepliesMatch
  BY OneRequest DEF RepliesMatch
<1> QED
  BY <1>1 DEF ConnectionInv, ProtocolInv, NoPanic, NoStrays, NeverFails

-----------------------------------------------------------------------------
\* The promise: every step is one of ChannelPromise's or shows the host nothing.

Lives == [id \in Ids |-> Life(id)]

LEMMA LifeBecomes ==
    ASSUME NEW k \in Ids, NEW stage, Life(k)' = stage,
           \A id \in Ids \ {k} : Life(id)' = Life(id)
    PROVE  Promise!Becomes(k, stage)
BY DEF Promise!Becomes

LEMMA LivesStay ==
    ASSUME \A id \in Ids : Life(id)' = Life(id)
    PROVE  Lives' = Lives
BY DEF Lives

LEMMA Tells ==
    ASSUME NEW k, NEW e
    PROVE  Promise!Tell(k, e) <=> Report(k, e)
BY DEF Promise!Tell, Report

LEMMA HasTold ==
    ASSUME TypeOK, NEW k \in Ids, NEW e
    PROVE  Promise!Told(k, e) <=> e \in Told(k)
<1>1. DOMAIN events[k] = 1..Len(events[k])
  BY DEF TypeOK
<1> QED
  BY <1>1 DEF Promise!Told, Told, Held

\* The other channels, when the table writes or removes one.
LEMMA OthersLive ==
    ASSUME NEW k \in Ids, \A id \in Ids \ {k} : events'[id] = events[id],
           \/ channels' = channels
           \/ channels' = Without(channels, k)
           \/ \E ch : k \in DOMAIN channels /\ channels' = [channels EXCEPT ![k] = ch]
    PROVE  \A id \in Ids \ {k} : Life(id)' = Life(id)
<1> SUFFICES ASSUME NEW id \in Ids \ {k} PROVE Life(id)' = Life(id)
  OBVIOUS
<1>1. /\ id \in DOMAIN channels' <=> id \in DOMAIN channels
      /\ id \in DOMAIN channels => channels'[id] = channels[id]
  <2>1. CASE channels' = Without(channels, k)
    <3>1. /\ DOMAIN channels' = DOMAIN channels \ {k}
          /\ \A x \in DOMAIN channels \ {k} : channels'[x] = channels[x]
      BY <2>1, WithoutKey
    <3> QED
      BY <3>1
  <2>2. CASE \E ch : k \in DOMAIN channels /\ channels' = [channels EXCEPT ![k] = ch]
    BY <2>2
  <2> QED
    BY <2>1, <2>2
<1> QED
  BY <1>1, SameLife

\* The channel itself, when it is removed.
LEMMA RemovedLife ==
    ASSUME TypeOK, NEW k \in Ids, channels' = Without(channels, k),
           NEW e \in Events, Report(k, e)
    PROVE  Life(k)' = "gone" /\ \A id \in Ids \ {k} : Life(id)' = Life(id)
<1>1. events'[k] # <<>> /\ \A id \in Ids \ {k} : events'[id] = events[id]
  BY Reports
<1>2. k \notin DOMAIN channels'
  BY WithoutKey
<1> QED
  BY <1>1, <1>2, OthersLive, LifeCasesNext DEF Known

\* And when it is written, but for its server's id.
LEMMA WrittenLife ==
    ASSUME NEW k \in Ids, Life(k) \in {"opening", "open"},
           \A id \in Ids \ {k} : events'[id] = events[id],
           \/ channels' = channels
           \/ \E ch : /\ channels' = [channels EXCEPT ![k] = ch]
                      /\ ch.remote_id = channels[k].remote_id
    PROVE  \A id \in Ids : Life(id)' = Life(id)
<1>1. k \in DOMAIN channels
  BY LifeCases DEF Known
<1>2. k \in DOMAIN channels' /\ channels'[k].remote_id = channels[k].remote_id
  BY <1>1
<1>3. Life(k)' = Life(k)
  BY <1>1, <1>2, LifeCases, LifeCasesNext DEF Known
<1>4. \A id \in Ids \ {k} : Life(id)' = Life(id)
  BY <1>1, OthersLive
<1> QED
  BY <1>3, <1>4

\* The methods of a Channel but for on_open_confirmation leave its id alone.
LEMMA RemoteStays ==
    ASSUME NEW ch \in ChannelRecords, NEW n
    PROVE  /\ OnWindowAdjust(ch, n).remote_id = ch.remote_id
           /\ OnDataConsumed(ch, n).remote_id = ch.remote_id
           /\ AfterData(ch, n).remote_id = ch.remote_id
           /\ [ch EXCEPT !.lifecycle = "EofSent"].remote_id = ch.remote_id
BY DEF ChannelRecords, OnWindowAdjust, OnDataConsumed, AfterData

LEMMA ConfirmationTold ==
    ASSUME ConnectionInv, HandleOpenConfirmation, NEW k, k = Msg.ch
    PROVE  k \in Ids /\ Promise!Confirm(k)
<1>0. Arrived("CHANNEL_OPEN_CONFIRMATION")
  BY DEF HandleOpenConfirmation
<1>1. /\ TypeOK /\ k \in Ids /\ Msg.type = "CHANNEL_OPEN_CONFIRMATION"
      /\ FitsIn(Msg, k, Life(k), Step(k), srv[k])
  BY <1>0, Receipt DEF ConnectionInv
<1>2. Life(k) = "opening" /\ Msg.sender = ServerEnd(k) /\ ServerEnd(k) # None
  BY <1>1, Numbers DEF FitsIn
<1>3. k \in DOMAIN channels /\ channels[k] \in ChannelRecords
  BY <1>1, <1>2, LifeCases DEF TypeOK
<1> DEFINE ch == OnOpenConfirmation(channels[k], Msg.sender, Msg.len, MAX_PACKET_SIZE)
<1>4. channels' = [channels EXCEPT ![k] = ch] /\ Report(k, "ChannelOpened")
  BY <1>3 DEF HandleOpenConfirmation, UnknownChannel
<1>5. ch.remote_id = ServerEnd(k)
  BY <1>2, <1>3 DEF ChannelRecords, OnOpenConfirmation
<1> HIDE DEF ch
<1>6. Life(k)' = "open"
  BY <1>2, <1>3, <1>4, <1>5, LifeCasesNext DEF Known
<1>7. \A id \in Ids \ {k} : events'[id] = events[id]
  BY <1>1, <1>4, Reports DEF Events
<1>8. \A id \in Ids \ {k} : Life(id)' = Life(id)
  BY <1>1, <1>3, <1>4, <1>7, OthersLive
<1> QED
  BY <1>1, <1>2, <1>4, <1>6, <1>8, LifeBecomes, Tells DEF Promise!Confirm

LEMMA OpenFailureTold ==
    ASSUME ConnectionInv, HandleOpenFailure, NEW k, k = Msg.ch
    PROVE  k \in Ids /\ Promise!Refuse(k)
<1>0. Arrived("CHANNEL_OPEN_FAILURE")
  BY DEF HandleOpenFailure
<1>1. /\ TypeOK /\ k \in Ids /\ Msg.type = "CHANNEL_OPEN_FAILURE"
      /\ FitsIn(Msg, k, Life(k), Step(k), srv[k])
  BY <1>0, Receipt DEF ConnectionInv
<1>2. Life(k) = "opening"
  BY <1>1 DEF FitsIn
<1>3. channels' = Without(channels, k) /\ Report(k, "ChannelOpenFailed")
  BY DEF HandleOpenFailure
<1>4. Life(k)' = "gone" /\ \A id \in Ids \ {k} : Life(id)' = Life(id)
  BY <1>1, <1>3, RemovedLife DEF Events
<1> QED
  BY <1>1, <1>2, <1>3, <1>4, LifeBecomes, Tells DEF Promise!Refuse

LEMMA FailureTold ==
    ASSUME ConnectionInv, HandleFailure, NEW k, k = Msg.ch
    PROVE  k \in Ids /\ Promise!RefuseSetup(k)
<1>0. Arrived("CHANNEL_FAILURE")
  BY DEF HandleFailure
<1>1. /\ TypeOK /\ k \in Ids /\ Msg.type = "CHANNEL_FAILURE"
      /\ ChannelInv(k) /\ FitsIn(Msg, k, Life(k), Step(k), srv[k])
  BY <1>0, Receipt DEF ConnectionInv
<1>2. Life(k) = "open" /\ Step(k) # "none" /\ srv[k].denied
  BY <1>1 DEF FitsIn, Replies
<1>3. channels' = Without(channels, k) /\ Report(k, "ChannelOpenFailed")
  BY <1>2 DEF HandleFailure
<1>4. Life(k)' = "gone" /\ \A id \in Ids \ {k} : Life(id)' = Life(id)
  BY <1>1, <1>3, RemovedLife DEF Events
<1>5. \A e \in {"ChannelData", "ChannelEof", "ChannelExitStatus"} : e \notin Told(k)
  BY <1>1, <1>2 DEF ChannelInv, Fits, EndsMatch, EventsMatch
<1>6. ~Promise!Reported(k)
  BY <1>1, <1>5, HasTold DEF Promise!Reported
<1> QED
  BY <1>1, <1>2, <1>3, <1>4, <1>6, LifeBecomes, Tells DEF Promise!RefuseSetup

LEMMA CloseTold ==
    ASSUME ConnectionInv, HandleClose, NEW k, k = Msg.ch
    PROVE  k \in Ids /\ (Promise!Close(k) \/ Promise!CloseRefused(k))
<1>0. Arrived("CHANNEL_CLOSE")
  BY DEF HandleClose
<1>1. /\ TypeOK /\ k \in Ids /\ Msg.type = "CHANNEL_CLOSE" /\ Msg \in Inbox(k)
      /\ ChannelInv(k) /\ FitsIn(Msg, k, Life(k), Step(k), srv[k])
      /\ Life(k) # "unused" /\ (Life(k) = "opening" => srv[k].state = "refused")
  BY <1>0, Receipt DEF ConnectionInv
<1>2. Life(k) \in {"open", "gone"} /\ srv[k].state = "open"
  BY <1>1, LifeCases DEF FitsIn
<1>3. channels' = Without(channels, k) /\ Report(k, "ChannelClosed")
  BY DEF HandleClose
<1>4. Life(k)' = "gone" /\ \A id \in Ids \ {k} : Life(id)' = Life(id)
  BY <1>1, <1>3, RemovedLife DEF Events
<1>5. CASE Life(k) = "open"
  BY <1>1, <1>3, <1>4, <1>5, LifeBecomes, Tells DEF Promise!Close
<1>6. CASE Life(k) = "gone"
  <2>1. "ChannelOpened" \in Told(k) /\ "ChannelClosed" \notin Told(k)
    BY <1>1, <1>2, <1>6 DEF ChannelInv, Fits, EventsMatch
  <2>2. Lives' = Lives
    BY <1>4, <1>6, LivesStay
  <2> QED
    BY <1>1, <1>3, <1>6, <2>1, <2>2, HasTold, Tells DEF Promise!CloseRefused, Lives
<1> QED
  BY <1>1, <1>2, <1>5, <1>6

\* Handlers that show the host nothing.
Quiet == Lives' = Lives /\ events' = events

LEMMA StaysQuiet ==
    ASSUME channels' = channels, events' = events
    PROVE  Quiet
<1>1. \A id \in Ids : Life(id)' = Life(id)
  BY DEF Life, Known
<1> QED
  BY <1>1, LivesStay DEF Quiet

LEMMA SuccessTold ==
    ASSUME ConnectionInv, HandleSuccess
    PROVE  Quiet
<1>1. channels' = channels /\ events' = events
  BY DEF HandleSuccess, Panic
<1> QED
  BY <1>1, StaysQuiet

LEMMA UnknownTold ==
    ASSUME UnknownChannel
    PROVE  Quiet
BY StaysQuiet DEF UnknownChannel

LEMMA WindowAdjustTold ==
    ASSUME ConnectionInv, HandleWindowAdjust
    PROVE  Quiet
<1>0. Arrived("CHANNEL_WINDOW_ADJUST")
  BY DEF HandleWindowAdjust
<1> PICK k : k = Msg.ch
  OBVIOUS
<1>1. CASE ~UnknownChannel
  <2>1. /\ k \in DOMAIN channels
        /\ channels' = [channels EXCEPT ![k] = OnWindowAdjust(channels[k], Msg.len)]
        /\ events' = events
    BY <1>1 DEF HandleWindowAdjust
  <2>2. TypeOK /\ k \in Ids /\ Life(k) = "open"
    BY <1>0, <2>1, FindsEnd, Receipt DEF ConnectionInv
  <2>3. OnWindowAdjust(channels[k], Msg.len).remote_id = channels[k].remote_id
    BY <2>1, <2>2, RemoteStays DEF TypeOK
  <2>4. \A id \in Ids : Life(id)' = Life(id)
    BY <2>1, <2>2, <2>3, WrittenLife
  <2> QED
    BY <2>1, <2>4, LivesStay DEF Quiet
<1> QED
  BY <1>1, UnknownTold

LEMMA DataTold ==
    ASSUME ConnectionInv, HandleData, NEW k, k = Msg.ch
    PROVE  k \in Ids /\ (Promise!Data(k) \/ Quiet)
<1>0. Arrived("CHANNEL_DATA")
  BY DEF HandleData
<1>1. /\ TypeOK /\ k \in Ids /\ Msg.type = "CHANNEL_DATA" /\ Msg \in Inbox(k) /\ ChannelInv(k)
  BY <1>0, Receipt DEF ConnectionInv
<1>2. CASE ~UnknownChannel
  <2>1. k \in DOMAIN channels
    BY <1>2 DEF HandleData
  <2>2. Life(k) = "open" /\ Known(k)
    BY <1>0, <2>1, FindsEnd, LifeCases
  <2>3. /\ channels' = [channels EXCEPT ![k] = OnDataConsumed(channels[k], Msg.len)]
        /\ Report(k, "ChannelData")
    BY <1>2, <2>2 DEF HandleData
  <2>4. OnDataConsumed(channels[k], Msg.len).remote_id = channels[k].remote_id
    BY <1>1, <2>1, RemoteStays DEF TypeOK
  <2>5. \A id \in Ids \ {k} : events'[id] = events[id]
    BY <1>1, <2>3, Reports DEF Events
  <2>6. \A id \in Ids : Life(id)' = Life(id)
    BY <1>1, <2>2, <2>3, <2>4, <2>5, WrittenLife
  <2>7. ~Promise!Told(k, "ChannelEof")
    BY <1>1, HasTold DEF ChannelInv, Fits, EventsMatch
  <2> QED
    BY <1>1, <2>2, <2>3, <2>6, <2>7, LivesStay, Tells DEF Promise!Data, Lives
<1> QED
  BY <1>1, <1>2, UnknownTold

LEMMA EofTold ==
    ASSUME ConnectionInv, HandleEof, NEW k, k = Msg.ch
    PROVE  k \in Ids /\ (Promise!Eof(k) \/ Quiet)
<1>0. Arrived("CHANNEL_EOF")
  BY DEF HandleEof
<1>1. /\ TypeOK /\ k \in Ids /\ Msg.type = "CHANNEL_EOF" /\ Msg \in Inbox(k) /\ ChannelInv(k)
  BY <1>0, Receipt DEF ConnectionInv
<1>2. CASE ~UnknownChannel
  <2>1. /\ k \in DOMAIN channels
        /\ channels' = [channels EXCEPT ![k].lifecycle = "EofSent"]
        /\ Report(k, "ChannelEof")
    BY <1>2 DEF HandleEof
  <2>2. Life(k) = "open"
    BY <1>0, <2>1, FindsEnd
  <2>3. channels' = [channels EXCEPT ![k] = [channels[k] EXCEPT !.lifecycle = "EofSent"]]
    BY <2>1
  <2>4. [channels[k] EXCEPT !.lifecycle = "EofSent"].remote_id = channels[k].remote_id
    BY <1>1, <2>1, RemoteStays DEF TypeOK
  <2>5. \A id \in Ids \ {k} : events'[id] = events[id]
    BY <1>1, <2>1, Reports DEF Events
  <2>6. \A id \in Ids : Life(id)' = Life(id)
    BY <1>1, <2>2, <2>3, <2>4, <2>5, WrittenLife
  <2>7. ~Promise!Told(k, "ChannelEof")
    BY <1>1, HasTold DEF ChannelInv, Fits, EventsMatch
  <2> QED
    BY <1>1, <2>1, <2>2, <2>6, <2>7, LivesStay, Tells DEF Promise!Eof, Lives
<1> QED
  BY <1>1, <1>2, UnknownTold

LEMMA RequestTold ==
    ASSUME ConnectionInv, HandleRequest, NEW k, k = Msg.ch
    PROVE  k \in Ids /\ (Promise!Exit(k) \/ Quiet)
<1>0. Arrived("CHANNEL_REQUEST")
  BY DEF HandleRequest
<1>1. /\ TypeOK /\ k \in Ids /\ Msg.type = "CHANNEL_REQUEST" /\ Msg \in Inbox(k) /\ ChannelInv(k)
  BY <1>0, Receipt DEF ConnectionInv
<1>2. CASE ~UnknownChannel
  <2>1. k \in DOMAIN channels
    BY <1>2 DEF HandleRequest
  <2>2. Life(k) = "open" /\ Known(k)
    BY <1>0, <2>1, FindsEnd, LifeCases
  <2>3. channels' = channels
    BY <1>2, <2>2 DEF HandleRequest
  <2>4. CASE Msg.req \in ExitRequests
    <3>1. Report(k, "ChannelExitStatus")
      BY <1>2, <2>4 DEF HandleRequest, ExitRequests
    <3>2. \A id \in Ids \ {k} : events'[id] = events[id]
      BY <1>1, <3>1, Reports DEF Events
    <3>3. \A id \in Ids : Life(id)' = Life(id)
      BY <1>1, <2>2, <2>3, <3>2, WrittenLife
    <3>4. ~Promise!Told(k, "ChannelExitStatus")
      BY <1>1, <2>4, HasTold DEF ChannelInv, Fits, EventsMatch
    <3> QED
      BY <1>1, <2>2, <3>1, <3>3, <3>4, LivesStay, Tells DEF Promise!Exit, Lives
  <2>5. CASE Msg.req \notin ExitRequests
    <3>1. events' = events
      BY <1>2, <2>2, <2>5 DEF HandleRequest, ExitRequests
    <3> QED
      BY <1>1, <2>3, <3>1, StaysQuiet
  <2> QED
    BY <2>4, <2>5
<1> QED
  BY <1>1, <1>2, UnknownTold

\* Of the host's calls, an open asks for a channel and a send may fill its window.
LEMMA HostOpensTold ==
    ASSUME ConnectionInv, HostOpens
    PROVE  next_id \in Ids /\ Promise!Ask(next_id)
<1> PICK k : k = next_id
  OBVIOUS
<1>1. TypeOK /\ TableInv /\ k \in Ids
  BY DEF ConnectionInv, ProtocolInv, TypeOK
<1>2. Life(k) = "unused"
  BY <1>1 DEF TableInv, Ids
<1>3. PICK kind, step : Open(kind, step, "CHANNEL_OPEN")
  BY DEF HostOpens, OpenExec, OpenShell
<1>4. channels' = Put(channels, k, ChannelNew(kind)) /\ events' = events
  BY <1>3 DEF Open
<1>5. /\ DOMAIN channels' = DOMAIN channels \cup {k}
      /\ \A id \in DOMAIN channels \ {k} : channels'[id] = channels[id]
      /\ channels'[k].remote_id = None
  BY <1>4 DEF Put, ChannelNew
<1>6. Life(k)' = "opening"
  BY <1>5, LifeCasesNext DEF Known
<1>7. \A id \in Ids \ {k} : Life(id)' = Life(id)
  <2>1. ASSUME NEW id \in Ids \ {k} PROVE Life(id)' = Life(id)
    BY <1>4, <1>5, SameLife
  <2> QED
    BY <2>1
<1> QED
  BY <1>1, <1>2, <1>4, <1>6, <1>7, LifeBecomes DEF Promise!Ask

LEMMA HostSendsTold ==
    ASSUME ConnectionInv, HostSends
    PROVE  Quiet \/ \E k \in Ids : Promise!WindowFull(k)
<1>1. PICK k \in Ids : ChannelSend(k, 1)
  BY DEF HostSends
<1>2. TypeOK
  BY DEF ConnectionInv
<1>3. /\ k \in DOMAIN channels
      /\ channels' = channels \/ channels' = [channels EXCEPT ![k] = AfterData(channels[k], 1)]
      /\ Report(k, "ChannelWindowFull") \/ events' = events
  BY <1>1 DEF ChannelSend
<1>4. AfterData(channels[k], 1).remote_id = channels[k].remote_id
  BY <1>2, <1>3, RemoteStays DEF TypeOK
<1>5. \A id \in Ids \ {k} : events'[id] = events[id]
  BY <1>1, <1>2, <1>3, Reports DEF Events
<1>6. Life(k) \in {"opening", "open"}
  BY <1>3, LifeCases
<1>7. \A id \in Ids : Life(id)' = Life(id)
  BY <1>3, <1>4, <1>5, <1>6, WrittenLife
<1> QED
  BY <1>3, <1>6, <1>7, LivesStay, Tells DEF Promise!WindowFull, Quiet, Lives

\* The other calls, and the server, leave the table and the events alone.
LEMMA OthersTold ==
    ASSUME \/ HostResizes \/ HostCloses \/ ServerReads \/ UNCHANGED vars
           \/ \E id \in Ids : ServerActs(id)
    PROVE  Quiet
<1>1. UNCHANGED clientVars
  BY DEF HostResizes, HostCloses, ResizePty, CloseChannel, SendsOnly, ServerReads, ReceiveOpen,
         ReceiveRequest, ReceiveClose, ReceiveOther, Receive, Reads, ServerActs, Confirm, Refuse,
         Grant, Deny, Write, Eof, Exit, Keepalive, GrantWindow, Close, Says, vars
<1> QED
  BY <1>1, StaysQuiet DEF clientVars

LEMMA StepsTold ==
    ASSUME ConnectionInv, [Next]_vars
    PROVE  Quiet \/ Promise!Next
<1>1. CASE ClientHandles
  <2> PICK k : k = Msg.ch
    OBVIOUS
  <2>1. CASE HandleOpenConfirmation
    BY <2>1, ConfirmationTold DEF Promise!Next
  <2>2. CASE HandleOpenFailure
    BY <2>2, OpenFailureTold DEF Promise!Next
  <2>3. CASE HandleClose
    BY <2>3, CloseTold DEF Promise!Next
  <2>4. CASE HandleData
    BY <2>4, DataTold DEF Promise!Next
  <2>5. CASE HandleEof
    BY <2>5, EofTold DEF Promise!Next
  <2>6. CASE HandleRequest
    BY <2>6, RequestTold DEF Promise!Next
  <2>7. CASE HandleFailure
    BY <2>7, FailureTold DEF Promise!Next
  <2> QED
    BY <1>1, <2>1, <2>2, <2>3, <2>4, <2>5, <2>6, <2>7, SuccessTold, WindowAdjustTold
    DEF ClientHandles, HandleMessage
<1>2. CASE HostOpens
  BY <1>2, HostOpensTold DEF Promise!Next
<1>3. CASE HostSends
  BY <1>3, HostSendsTold DEF Promise!Next
<1> QED
  BY <1>1, <1>2, <1>3, OthersTold DEF Next

-----------------------------------------------------------------------------
(***************************************************************************)
(* Theorems                                                                *)
(***************************************************************************)

\* ConnectionInv holds in every state: every message under way on a channel is
\* one that its two ends, its setup and what was reported of it allow.
THEOREM Invariance == Spec => []ConnectionInv
<1>1. Init => ConnectionInv
  BY Starts
<1>2. ConnectionInv /\ [Next]_vars => ConnectionInv'
  BY Inductive
<1> QED
  BY <1>1, <1>2, PTL DEF Spec

\* The session's tables, its queues and the server's ends keep their types
\* (session.rs:95-140, connection/mod.rs:29-32).
THEOREM TypesKept == Spec => []TypeOK
BY Invariance, InvariantImplies, PTL

\* No expect() of the connection protocol fails (session.rs:676,
\* connection/mod.rs:225): against a server that keeps to the protocol, a
\* request is never declined, a window never returned and a setup never goes on
\* before the server's id is known.
THEOREM NeverPanics == Spec => []NoPanic
BY Invariance, InvariantImplies, PTL

\* Against a server that falls silent on a channel whose setup it has denied,
\* no message finds its channel forgotten, and the session does not fail
\* (connection/mod.rs:242, session.rs:703).
THEOREM SessionSurvives == ASSUME ~Talks PROVE Spec => []NeverFails
<1>1. ConnectionInv => NeverFails
  BY InvariantImplies
<1> QED
  BY <1>1, Invariance, PTL

\* continue_channel_setup takes a reply for the answer to the step the channel
\* is in, and it is (session.rs:650-701).
THEOREM RepliesAnswerTheirStep == Spec => []RepliesMatch
BY Invariance, InvariantImplies, PTL

\* What a refused setup leaves behind never makes the client send on a channel
\* it has closed (session.rs:654-672).
THEOREM NothingBehindClose == Spec => []NoStrays
BY Invariance, InvariantImplies, PTL

\* The events of each channel are those ChannelPromise allows, in an order it
\* allows, whatever the interleaving of opens, closes, setup replies and output
\* (connection/mod.rs:76-185, session.rs:598-701).
THEOREM PromiseKept == Spec => KeepsPromise
<1>1. Init => Promise!Init
  <2>1. ASSUME Init PROVE \A id \in Ids : Life(id) = "unused"
    BY <2>1, LifeCases DEF Init
  <2> QED
    BY <2>1 DEF Promise!Init, Init
<1>2. ConnectionInv /\ [Next]_vars => [Promise!Next]_(Promise!promiseVars)
  BY StepsTold DEF Quiet, Lives, Promise!promiseVars
<1> QED
  BY <1>1, <1>2, Invariance, PTL DEF Spec, KeepsPromise, Promise!Spec
=============================================================================
